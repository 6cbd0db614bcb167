-------------------------- MODULE BitlistYamlProofs -------------------------
(***************************************************************************)
(* The safety of Bitlist, for every width of a byte, limit and length, and *)
(* of YamlDecode, for every container, document and earlier object.  What  *)
(* YamlDecode says a bitlist is read as is what Bitlist reads and writes.  *)
(***************************************************************************)
EXTENDS Bitlist, YamlDecode, FiniteSetTheorems, SequenceTheorems, TLAPS

Same(n, v) == v
Numbers == INSTANCE NatRecursion WITH Base <- 0, Succ <- Same

(* The encoding: each byte has its bits, and the byte after the last whole *)
(* one the sentinel of a bitlist.                                          *)
Encoding ==
    [b \in 0 .. buffer_size - 1 |->
        IF kind = "bitlist" /\ b = Len(bits) \div CHAR_BIT
        THEN Packed(b) \cup {Len(bits) % CHAR_BIT} ELSE Packed(b)]

(* A bitset has N bits.                                                    *)
Whole == kind = "bitvector" => Len(bits) = N

(* The buffer is as it was given until it is written.                      *)
Unwritten ==
    pc = "serialize" =>
        bytes = [b \in 0 .. buffer_size - 1 |->
                    IF dirty THEN 0 .. CHAR_BIT - 1 ELSE {}]

(* What is written does not depend on what the buffer held, as far as it   *)
(* is overwritten.                                                         *)
Encoded ==
    pc # "serialize" /\ Overwritten /\ kind # "vector<bool>" =>
        bytes = Encoding

IInv == TypeOK /\ Whole /\ Unwritten /\ Encoded /\ RoundTrip

-----------------------------------------------------------------------------
(* Arithmetic.                                                             *)

(* Division with a remainder.                                              *)
LEMMA DivMod ==
    ASSUME NEW n \in Nat, NEW k \in Nat \ {0}
    PROVE  /\ n \div k \in Nat /\ n % k \in 0 .. k - 1
           /\ n = k * (n \div k) + (n % k)
OBVIOUS

(* Byte and bit of a number below a multiple of k.                         *)
LEMMA DivBelow ==
    ASSUME NEW n \in Nat, NEW k \in Nat \ {0}, NEW q \in Nat, n < k * q
    PROVE  n \div k \in 0 .. q - 1
<1> DEFINE d == n \div k
<1>1. d \in Nat /\ k * d <= n
  BY DivMod
<1> HIDE DEF d
<1>2. CASE q <= d
  <2>1. k * q <= k * d
    BY <1>1, <1>2
  <2> QED BY <1>1, <2>1
<1>3. CASE d < q
  <2>1. d \in 0 .. q - 1
    BY <1>1, <1>3
  <2> QED BY <2>1 DEF d
<1> QED BY <1>1, <1>2, <1>3

(* The quotient and the remainder are the only ones.                       *)
LEMMA Quotient ==
    ASSUME NEW k \in Nat \ {0}, NEW c \in Nat, NEW s \in 0 .. k - 1
    PROVE  (k * c + s) \div k = c /\ (k * c + s) % k = s
<1> DEFINE x == k * c + s
           d == x \div k
           t == x % k
<1>1. x \in Nat
  OBVIOUS
<1> HIDE DEF x
<1>2. d \in Nat /\ t \in 0 .. k - 1 /\ x = k * d + t
  BY <1>1, DivMod
<1> HIDE DEF d, t
<1>3. CASE d < c
  <2>1. k * (d + 1) <= k * c
    BY <1>2, <1>3
  <2>2. k * (d + 1) = k * d + k
    BY <1>2
  <2> QED BY <1>2, <2>1, <2>2 DEF x
<1>4. CASE c < d
  <2>1. k * (c + 1) <= k * d
    BY <1>2, <1>4
  <2>2. k * (c + 1) = k * c + k
    OBVIOUS
  <2> QED BY <1>2, <2>1, <2>2 DEF x
<1>5. CASE d = c
  <2>1. k * c \in Nat
    OBVIOUS
  <2>2. t = s
    BY <1>2, <1>5, <2>1 DEF x
  <2> QED BY <1>5, <2>2 DEF d, t, x
<1> QED BY <1>2, <1>3, <1>4, <1>5

(* Rounding up adds a byte for the bits that are left over.                *)
LEMMA RoundUp ==
    ASSUME NEW n \in Nat, NEW k \in Nat \ {0}
    PROVE  CeilDiv(n, k) = IF n % k = 0 THEN n \div k ELSE n \div k + 1
<1> DEFINE q == n \div k
           r == n % k
<1>1. q \in Nat /\ r \in 0 .. k - 1 /\ n = k * q + r
  BY DivMod
<1> HIDE DEF q, r
<1>2. ASSUME NEW c \in Nat, NEW s \in 0 .. k - 1
      PROVE  (k * c + s) \div k = c
  BY Quotient
<1>3. CASE r = 0
  <2>1. n + k - 1 = k * q + (k - 1) /\ k - 1 \in 0 .. k - 1
    BY <1>1, <1>3
  <2>2. CeilDiv(n, k) = q
    BY <1>1, <1>2, <2>1 DEF CeilDiv
  <2> QED BY <1>3, <2>2 DEF q, r
<1>4. CASE r # 0
  <2>1. n + k - 1 = k * (q + 1) + (r - 1) /\ r - 1 \in 0 .. k - 1 /\ q + 1 \in Nat
    <3>1. k * (q + 1) = k * q + k
      BY <1>1
    <3> QED BY <1>1, <1>4, <3>1
  <2>2. CeilDiv(n, k) = q + 1
    BY <1>2, <2>1 DEF CeilDiv
  <2> QED BY <1>4, <2>2 DEF q, r
<1> QED BY <1>3, <1>4

-----------------------------------------------------------------------------
(* The bits and the bytes.                                                 *)

Q == Len(bits) \div CHAR_BIT
R == Len(bits) % CHAR_BIT

(* The bits fill Q bytes and R bits of another one.                        *)
LEMMA Cut ==
    ASSUME TypeOK
    PROVE  /\ CHAR_BIT \in Nat \ {0} /\ Len(bits) \in Nat
           /\ bits \in [1 .. Len(bits) -> BOOLEAN]
           /\ Q \in Nat /\ R \in 0 .. CHAR_BIT - 1
           /\ Len(bits) = CHAR_BIT * Q + R
           /\ CeilDiv(Len(bits), CHAR_BIT) = IF R = 0 THEN Q ELSE Q + 1
           /\ buffer_size = IF kind = "bitvector" /\ R = 0 THEN Q ELSE Q + 1
           /\ buffer_size \in Nat
<1>1. CHAR_BIT \in Nat \ {0}
  BY BitlistAssumption
<1>2. Len(bits) \in Nat /\ bits \in [1 .. Len(bits) -> BOOLEAN]
  BY DEF TypeOK
<1>3. Q \in Nat /\ R \in 0 .. CHAR_BIT - 1 /\ Len(bits) = CHAR_BIT * Q + R
  BY <1>1, <1>2, DivMod DEF Q, R
<1>4. CeilDiv(Len(bits), CHAR_BIT) = IF R = 0 THEN Q ELSE Q + 1
  BY <1>1, <1>2, RoundUp DEF Q, R
<1>5. buffer_size = IF kind = "bitvector" /\ R = 0 THEN Q ELSE Q + 1
  BY <1>4 DEF buffer_size, Q
<1> QED BY <1>1, <1>2, <1>3, <1>4, <1>5

(* The number of bytes is that of the buffer.                              *)
LEMMA LengthIs == TypeOK => Length = buffer_size
<1> SUFFICES ASSUME TypeOK PROVE Length = buffer_size
  OBVIOUS
<1>1. DOMAIN bytes = 0 .. buffer_size - 1 /\ buffer_size \in Nat
  BY Cut DEF TypeOK
<1>2. Cardinality(0 .. buffer_size - 1) = buffer_size
  <2>1. 0 \in Int /\ buffer_size - 1 \in Int
    BY <1>1
  <2>2. Cardinality(0 .. buffer_size - 1)
          = IF 0 > buffer_size - 1 THEN 0 ELSE (buffer_size - 1) - 0 + 1
    BY <2>1, FS_Interval
  <2> QED BY <1>1, <2>2
<1> QED BY <1>1, <1>2 DEF Length

(* Every bit of a list has its place in the encoding, and the sentinel     *)
(* takes none of them.                                                     *)
LEMMA EncodingBits ==
    ASSUME TypeOK, NEW b \in 0 .. buffer_size - 1, NEW j \in 0 .. CHAR_BIT - 1,
           CHAR_BIT * b + j < Len(bits)
    PROVE  j \in Encoding[b] <=> bits[CHAR_BIT * b + j + 1]
<1>1. j \in Packed(b) <=> bits[CHAR_BIT * b + j + 1]
  BY DEF Packed, BitAt
<1>2. ASSUME b = Len(bits) \div CHAR_BIT PROVE j # Len(bits) % CHAR_BIT
  <2>1. b = Q
    BY <1>2 DEF Q
  <2>2. CHAR_BIT * Q \in Nat
    <3>1. CHAR_BIT \in Nat /\ Q \in Nat
      BY Cut
    <3> HIDE DEF Q
    <3> QED BY <3>1
  <2>3. j < R
    <3>1. ASSUME NEW x \in Nat, x + j < x + R PROVE j < R
      BY <3>1, Cut
    <3> QED BY <2>1, <2>2, <3>1, Cut
  <2> QED BY <2>3, Cut DEF R
<1> QED BY <1>1, <1>2 DEF Encoding

(* The bytes of the encoding are bytes.                                    *)
LEMMA EncodingType == TypeOK => Encoding \in [0 .. buffer_size - 1 -> Byte]
<1> SUFFICES ASSUME TypeOK, NEW b \in 0 .. buffer_size - 1
             PROVE  Encoding[b] \in Byte
  BY DEF Encoding
<1>1. Packed(b) \subseteq 0 .. CHAR_BIT - 1
  BY DEF Packed
<1>2. Len(bits) % CHAR_BIT \in 0 .. CHAR_BIT - 1
  BY Cut DEF R
<1> QED BY <1>1, <1>2 DEF Encoding, Byte

(* The sentinel is the highest bit of the last byte of a bitlist.          *)
LEMMA SentinelHighest ==
    ASSUME TypeOK, kind = "bitlist"
    PROVE  buffer_size = Q + 1 /\ HighestBit(Encoding[Q]) = R
<1>1. buffer_size = Q + 1 /\ Q \in 0 .. buffer_size - 1
  BY Cut
<1> DEFINE S == Encoding[Q]
<1>2. S = Packed(Q) \cup {R}
  BY <1>1 DEF Encoding, Q, R
<1>3. ASSUME NEW j \in Packed(Q) PROVE j <= R
  <2>1. j \in 0 .. CHAR_BIT - 1 /\ CHAR_BIT * Q + j < Len(bits)
    BY DEF Packed, BitAt
  <2>2. ASSUME NEW x \in Nat, x + j < x + R PROVE j <= R
    BY <2>1, <2>2, Cut
  <2>3. CHAR_BIT * Q \in Nat
    BY Cut
  <2> QED BY <2>1, <2>2, <2>3, Cut
<1>4. Max(S) = R
  <2>1. R \in S /\ R \in Nat /\ \A y \in S : y <= R
    BY <1>2, <1>3, Cut
  <2>2. ASSUME NEW x \in S, \A y \in S : x >= y PROVE x = R
    <3>1. x >= R /\ x <= R
      BY <2>1, <2>2
    <3>2. x \in Int
      BY <1>2, Cut DEF Packed
    <3> QED BY <2>1, <3>1, <3>2
  <2>3. \A y \in S : R >= y
    BY <2>1, <1>2, Cut DEF Packed
  <2> HIDE DEF S
  <2> QED BY <2>1, <2>2, <2>3 DEF Max
<1>5. S # {}
  BY <1>2
<1> QED BY <1>1, <1>4, <1>5 DEF HighestBit

-----------------------------------------------------------------------------
(* Reading.                                                                *)

(* Whole bytes are read as CHAR_BIT bits each.                             *)
LEMMA UnpackedType ==
    ASSUME TypeOK, NEW count \in Nat
    PROVE  /\ CHAR_BIT * count \in Nat
           /\ Unpacked(count) \in Seq(BOOLEAN)
           /\ Len(Unpacked(count)) = CHAR_BIT * count
<1> DEFINE n == CHAR_BIT * count
<1>1. n \in Nat
  BY Cut
<1>2. Unpacked(count) \in [1 .. n -> BOOLEAN]
  BY DEF Unpacked
<1> HIDE DEF n
<1>3. Unpacked(count) \in Seq(BOOLEAN) /\ Len(Unpacked(count)) = n
  BY <1>1, <1>2
<1> QED BY <1>1, <1>3 DEF n

(* The bits of whole bytes are read as they were written.                  *)
LEMMA UnpackedBits ==
    ASSUME TypeOK, bytes = Encoding, NEW count \in 0 .. buffer_size,
           NEW p \in 1 .. Len(bits), p <= CHAR_BIT * count
    PROVE  Unpacked(count)[p] = bits[p]
<1> DEFINE b == (p - 1) \div CHAR_BIT
           j == (p - 1) % CHAR_BIT
<1>1. p - 1 \in Nat /\ p - 1 < Len(bits) /\ p - 1 < CHAR_BIT * count
  <2>1. count \in Nat /\ Len(bits) \in Nat
    BY Cut
  <2>2. CHAR_BIT * count \in Nat
    BY <2>1, UnpackedType
  <2> QED BY <2>1, <2>2
<1>2. j \in 0 .. CHAR_BIT - 1 /\ b \in Nat /\ p - 1 = CHAR_BIT * b + j
  BY <1>1, Cut, DivMod
<1>3. b \in 0 .. count - 1
  <2>1. count \in Nat /\ CHAR_BIT \in Nat \ {0}
    BY Cut
  <2> QED BY <1>1, <2>1, DivBelow
<1>4. p \in 1 .. CHAR_BIT * count
  BY UnpackedType, Cut
<1>5. Unpacked(count)[p] = (j \in bytes[b])
  BY <1>4 DEF Unpacked
<1> HIDE DEF b, j
<1>6. b \in 0 .. buffer_size - 1 /\ CHAR_BIT * b + j < Len(bits)
  <2>1. buffer_size \in Nat
    BY Cut
  <2>2. b \in 0 .. buffer_size - 1
    BY <1>3, <2>1
  <2> QED BY <1>1, <1>2, <2>2, Zenon
<1>7. CHAR_BIT * b + j + 1 = p
  BY <1>2
<1>8. j \in bytes[b] <=> bits[p]
  BY <1>2, <1>6, <1>7, EncodingBits
<1>9. bits[p] \in BOOLEAN
  BY Cut
<1> QED BY <1>5, <1>8, <1>9

(* A bitlist is read back.                                                 *)
LEMMA BitlistBack ==
    ASSUME TypeOK, kind = "bitlist", bytes = Encoding
    PROVE  read_bitlist = bits
<1> DEFINE front == Unpacked(Length - 1)
           back == BelowHighest(bytes[Length - 1])
<1>1. Length - 1 = Q /\ Q \in Nat /\ buffer_size = Q + 1
  BY Cut, LengthIs
<1>2. /\ front \in Seq(BOOLEAN) /\ Len(front) = CHAR_BIT * Q
      /\ CHAR_BIT * Q \in Nat
  BY <1>1, UnpackedType
<1>3. back = [p \in 1 .. R |-> p - 1 \in Encoding[Q]]
  BY <1>1, SentinelHighest DEF BelowHighest
<1>4. back \in Seq(BOOLEAN) /\ Len(back) = R
  <2>1. R \in Nat
    BY Cut
  <2> HIDE DEF back
  <2>2. back \in [1 .. R -> BOOLEAN]
    BY <1>3
  <2> QED BY <2>1, <2>2
<1>5. ASSUME NEW p \in 1 .. Len(bits), p <= CHAR_BIT * Q
      PROVE  front[p] = bits[p]
  <2>1. Q \in 0 .. buffer_size
    BY <1>1
  <2> QED BY <1>1, <1>5, <2>1, UnpackedBits
<1>6. ASSUME NEW j \in 1 .. R PROVE back[j] = bits[CHAR_BIT * Q + j]
  <2>1. /\ j - 1 \in 0 .. CHAR_BIT - 1 /\ Q \in 0 .. buffer_size - 1
        /\ CHAR_BIT * Q + (j - 1) < Len(bits)
        /\ CHAR_BIT * Q + (j - 1) + 1 = CHAR_BIT * Q + j
        /\ CHAR_BIT * Q + j \in 1 .. Len(bits)
    <3> DEFINE w == CHAR_BIT * Q
               l == Len(bits)
    <3>1. /\ w \in Nat /\ l \in Nat /\ l = w + R /\ R \in 0 .. CHAR_BIT - 1
          /\ CHAR_BIT \in Nat
      BY <1>2, Cut
    <3> HIDE DEF w, l
    <3>2. /\ j - 1 \in 0 .. CHAR_BIT - 1 /\ w + (j - 1) < l
          /\ w + (j - 1) + 1 = w + j /\ w + j \in 1 .. l
      BY <3>1
    <3>3. Q \in 0 .. buffer_size - 1
      BY <1>1
    <3> QED BY <3>2, <3>3 DEF w, l
  <2>2. j - 1 \in Encoding[Q] <=> bits[CHAR_BIT * Q + j]
    BY <2>1, EncodingBits
  <2>3. bits[CHAR_BIT * Q + j] \in BOOLEAN
    BY <2>1, Cut
  <2> HIDE DEF back
  <2>4. back[j] = (j - 1 \in Encoding[Q])
    BY <1>3
  <2> QED BY <2>2, <2>3, <2>4
<1> HIDE DEF front, back
<1>7. /\ front \o back \in Seq(BOOLEAN)
      /\ Len(front \o back) = Len(bits)
      /\ \A p \in 1 .. Len(bits) :
            (front \o back)[p] = IF p <= CHAR_BIT * Q THEN front[p]
                                 ELSE back[p - CHAR_BIT * Q]
  <2>1. Len(front) + Len(back) = Len(bits)
    BY <1>2, <1>4, Cut
  <2>2. /\ front \o back \in Seq(BOOLEAN)
        /\ Len(front \o back) = Len(front) + Len(back)
        /\ \A i \in 1 .. Len(front) + Len(back) :
              (front \o back)[i] = IF i <= Len(front) THEN front[i]
                                   ELSE back[i - Len(front)]
    BY <1>2, <1>4, ConcatProperties
  <2> QED BY <1>2, <2>1, <2>2
<1>8. ASSUME NEW p \in 1 .. Len(bits) PROVE (front \o back)[p] = bits[p]
  <2>1. CASE p <= CHAR_BIT * Q
    BY <1>5, <1>7, <2>1
  <2>2. CASE ~(p <= CHAR_BIT * Q)
    <3>1. ASSUME NEW x \in Nat, NEW y \in 1 .. x + R, ~(y <= x)
          PROVE  y - x \in 1 .. R /\ x + (y - x) = y
      BY <3>1, Cut
    <3>2. p - CHAR_BIT * Q \in 1 .. R /\ CHAR_BIT * Q + (p - CHAR_BIT * Q) = p
      BY <1>2, <2>2, <3>1, Cut
    <3>3. (front \o back)[p] = back[p - CHAR_BIT * Q]
      BY <1>7, <2>2
    <3>4. back[p - CHAR_BIT * Q] = bits[CHAR_BIT * Q + (p - CHAR_BIT * Q)]
      BY <1>6, <3>2
    <3> QED BY <3>2, <3>3, <3>4
  <2> QED BY <2>1, <2>2
<1>9. bits \in Seq(BOOLEAN)
  BY DEF TypeOK
<1>10. front \o back = bits
  BY <1>7, <1>8, <1>9, SeqEqual
<1> QED BY <1>10 DEF read_bitlist, front, back

(* A bitset has as many bits as it had, whatever the bytes are.            *)
LEMMA BitvectorType ==
    ASSUME TypeOK, Whole, kind = "bitvector"
    PROVE  /\ N <= CHAR_BIT * Length /\ Len(bits) = N /\ Length = buffer_size
           /\ read_bitvector \in Seq(BOOLEAN) /\ Len(read_bitvector) = N
           /\ \A p \in 1 .. N : read_bitvector[p] = Unpacked(Length)[p]
<1>1. Len(bits) = N /\ N \in Nat /\ Length = buffer_size /\ Length \in Nat
  BY LengthIs, Cut DEF Whole
<1> DEFINE all == Unpacked(Length)
           n == CHAR_BIT * Length
<1>2. n \in Nat /\ all \in Seq(BOOLEAN) /\ Len(all) = n
  BY <1>1, UnpackedType
<1>3. N <= n
  <2>1. CHAR_BIT * (Q + 1) = CHAR_BIT * Q + CHAR_BIT /\ CHAR_BIT * Q \in Nat
    BY Cut
  <2>2. CASE R = 0
    BY <1>1, <2>1, <2>2, Cut
  <2>3. CASE R # 0
    BY <1>1, <2>1, <2>3, Cut
  <2> QED BY <2>2, <2>3
<1> HIDE DEF n, all
<1>4. \A i \in 1 .. N : all[i] \in BOOLEAN
  BY <1>1, <1>2, <1>3, ElementOfSeq
<1>5. read_bitvector = SubSeq(all, 1, N)
  BY DEF read_bitvector, all
<1>6. /\ SubSeq(all, 1, N) \in Seq(BOOLEAN)
      /\ Len(SubSeq(all, 1, N)) = IF 1 <= N THEN N - 1 + 1 ELSE 0
      /\ \A i \in 1 .. N - 1 + 1 : SubSeq(all, 1, N)[i] = all[1 + i - 1]
  <2>1. 1 \in Int /\ N \in Int
    BY <1>1
  <2> QED BY <1>4, <2>1, SubSeqProperties
<1>7. \A p \in 1 .. N : 1 + p - 1 = p /\ p \in 1 .. N - 1 + 1
  BY <1>1
<1>8. \A p \in 1 .. N : SubSeq(all, 1, N)[p] = all[p]
  BY <1>6, <1>7
<1>9. Len(SubSeq(all, 1, N)) = N
  BY <1>1, <1>6
<1> QED BY <1>1, <1>3, <1>5, <1>6, <1>8, <1>9 DEF n, all

(* A bitset is read back.                                                  *)
LEMMA BitvectorBack ==
    ASSUME TypeOK, Whole, kind = "bitvector", bytes = Encoding
    PROVE  read_bitvector = bits
<1>1. /\ N <= CHAR_BIT * Length /\ Len(bits) = N /\ Length = buffer_size
      /\ read_bitvector \in Seq(BOOLEAN) /\ Len(read_bitvector) = N
      /\ \A p \in 1 .. N : read_bitvector[p] = Unpacked(Length)[p]
  BY BitvectorType
<1>2. ASSUME NEW p \in 1 .. N PROVE Unpacked(Length)[p] = bits[p]
  <2>1. p <= CHAR_BIT * Length
    BY <1>1, UnpackedType, Cut DEF TypeOK
  <2>2. Length \in 0 .. buffer_size
    BY <1>1, Cut
  <2> QED BY <1>1, <2>1, <2>2, UnpackedBits
<1>3. bits \in Seq(BOOLEAN)
  BY DEF TypeOK
<1> QED BY <1>1, <1>2, <1>3, SeqEqual

-----------------------------------------------------------------------------
(* The invariant.                                                          *)

(* A byte that is not 0 has a highest bit.                                 *)
LEMMA HighestExists ==
    ASSUME NEW byte \in Byte, byte # {}
    PROVE  \E x \in byte : \A y \in byte : x >= y
<1>1. byte \subseteq Nat /\ CHAR_BIT \in Nat /\ \A y \in byte : y <= CHAR_BIT
  BY BitlistAssumption DEF Byte
<1> DEFINE S == {n \in Nat : \A y \in byte : y <= n}
<1>2. S \subseteq Nat /\ CHAR_BIT \in S
  BY <1>1
<1>3. PICK n \in S : \A x \in S : n <= x
  <2> HIDE DEF S
  <2> QED BY <1>2, Numbers!LeastNumber
<1>4. n \in byte
  <2> SUFFICES ASSUME n \notin byte PROVE FALSE
    OBVIOUS
  <2>1. PICK y \in byte : TRUE
    OBVIOUS
  <2>2. n # 0
    BY <1>1, <2>1
  <2>3. n - 1 \in S /\ ~ (n <= n - 1)
    BY <1>1, <2>2
  <2> QED BY <1>3, <2>3
<1>5. \A y \in byte : n >= y
  BY <1>1
<1> HIDE DEF S
<1> QED BY <1>4, <1>5

(* The highest bit is a number, -1 if there is none.                       *)
LEMMA HighestBitType == \A byte \in Byte : HighestBit(byte) \in Int
<1> SUFFICES ASSUME NEW byte \in Byte, byte # {} PROVE Max(byte) \in Int
  BY DEF HighestBit
<1>1. \E x \in byte : \A y \in byte : x >= y
  BY HighestExists
<1>2. Max(byte) \in byte
  BY <1>1 DEF Max
<1>3. \A x \in byte : x \in Int
  BY BitlistAssumption DEF Byte
<1> QED BY <1>2, <1>3

(* What is read of a bitlist are bits.                                     *)
LEMMA ReadBitlistType ==
    ASSUME TypeOK, kind # "bitvector"
    PROVE  read_bitlist \in Seq(BOOLEAN)
<1>1. Length = buffer_size /\ buffer_size = Q + 1 /\ Q \in Nat
  BY LengthIs, Cut
<1>2. Unpacked(Length - 1) \in Seq(BOOLEAN)
  <2>1. Length - 1 \in Nat
    BY <1>1
  <2> QED BY <2>1, UnpackedType
<1> DEFINE last == bytes[Length - 1]
           h == HighestBit(last)
<1>3. last \in Byte
  BY <1>1 DEF TypeOK
<1> HIDE DEF last
<1>4. h \in Int
  BY <1>3, HighestBitType
<1>5. BelowHighest(last) \in Seq(BOOLEAN)
  <2>1. BelowHighest(last) \in [1 .. h -> BOOLEAN]
    BY DEF BelowHighest
  <2> HIDE DEF h
  <2>2. CASE h \in Nat
    BY <2>1, <2>2
  <2>3. CASE h \notin Nat
    <3>1. 1 .. h = 1 .. 0
      BY <1>4, <2>3
    <3>2. ASSUME NEW n \in Nat, n = 0
          PROVE  BelowHighest(last) \in Seq(BOOLEAN)
      <4>1. BelowHighest(last) \in [1 .. n -> BOOLEAN]
        BY <2>1, <3>1, <3>2
      <4> QED BY <4>1
    <3> QED BY <3>2
  <2> QED BY <2>2, <2>3
<1> QED BY <1>2, <1>5, ConcatProperties DEF read_bitlist, last

(* The invariant holds initially.                                          *)
LEMMA InitInvariant == Init => IInv
<1> SUFFICES ASSUME Init PROVE IInv
  OBVIOUS
<1>1. /\ kind \in Kinds /\ N \in Nat /\ dirty \in BOOLEAN /\ pc = "serialize"
      /\ bytes = [b \in 0 .. buffer_size - 1 |->
                    IF dirty THEN 0 .. CHAR_BIT - 1 ELSE {}]
  BY BitlistAssumption DEF Init, Kinds
<1>2. PICK n \in IF kind = "bitvector" THEN {N} ELSE 0 .. MaxBits :
             n <= N /\ bits \in [1 .. n -> BOOLEAN]
  BY DEF Init
<1>3. n \in Nat
  BY <1>1, <1>2, BitlistAssumption
<1>4. bits \in Seq(BOOLEAN) /\ Len(bits) = n
  BY <1>2, <1>3
<1>5. PICK l \in IF kind = "bitvector" THEN {N} ELSE {0, N} :
             ret = [p \in 1 .. l |-> TRUE]
  BY DEF Init
<1>6. ret \in Seq(BOOLEAN) /\ Len(ret) = l
  <2>1. l \in Nat /\ ret \in [1 .. l -> BOOLEAN]
    BY <1>1, <1>5
  <2> QED BY <2>1
<1>7. TypeOK
  <2>1. bytes \in [0 .. buffer_size - 1 -> Byte]
    BY <1>1 DEF Byte
  <2> QED BY <1>1, <1>2, <1>4, <1>5, <1>6, <2>1 DEF TypeOK
<1>8. Whole /\ Unwritten /\ Encoded /\ RoundTrip
  BY <1>1, <1>2, <1>4 DEF Whole, Unwritten, Encoded, RoundTrip
<1> QED BY <1>7, <1>8 DEF IInv

(* Nothing the type or the value determines changes.                       *)
LEMMA SameValue ==
    ASSUME UNCHANGED <<kind, N, bits, dirty>>
    PROVE  /\ buffer_size' = buffer_size /\ Encoding' = Encoding
           /\ Overwritten' = Overwritten /\ Whole' = Whole
BY DEF buffer_size, Encoding, Packed, BitAt, Overwritten, Whole

(* What serialize writes.                                                  *)
LEMMA SerializeStep == IInv /\ Serialize => IInv'
<1> SUFFICES ASSUME IInv, Serialize PROVE IInv'
  OBVIOUS
<1>1. TypeOK /\ Whole /\ Unwritten /\ pc = "serialize" /\ pc' = "deserialize"
  BY DEF IInv, Serialize
<1>2. /\ UNCHANGED <<kind, N, bits, dirty, ret>>
      /\ buffer_size' = buffer_size /\ Encoding' = Encoding
      /\ Overwritten' = Overwritten /\ Whole' = Whole
  BY SameValue DEF Serialize
<1> DEFINE B == 0 .. buffer_size - 1
           plain == [b \in B |-> IF b < CeilDiv(Len(bits), CHAR_BIT)
                                 THEN Packed(b) ELSE bytes[b]]
<1>3. bytes \in [B -> Byte] /\ DOMAIN bytes = B /\ kind \in Kinds
  BY <1>1 DEF TypeOK
<1>4. _serialize_bitvector = plain
  BY <1>3 DEF _serialize_bitvector
<1>5. plain \in [B -> Byte]
  <2>1. \A b \in B : Packed(b) \in Byte /\ bytes[b] \in Byte
    BY <1>3 DEF Packed, Byte
  <2> QED BY <2>1
<1>6. bytes' \in [B -> Byte]
  <2>1. CASE kind = "bitlist"
    <3>1. bytes' = [plain EXCEPT ![Len(bits) \div CHAR_BIT] =
                       @ \cup {Len(bits) % CHAR_BIT}]
      BY <1>4, <2>1 DEF Serialize, Sentinel
    <3>2. Q \in B /\ R \in 0 .. CHAR_BIT - 1
      BY <1>1, <2>1, Cut
    <3> HIDE DEF plain, B
    <3>3. plain[Q] \cup {R} \in Byte
      BY <1>5, <3>2 DEF Byte
    <3> QED BY <1>5, <3>1, <3>2, <3>3 DEF Q, R
  <2>2. CASE kind = "vector<bool>"
    BY <1>4, <1>5, <2>2 DEF Serialize
  <2>3. CASE kind = "bitvector"
    <3>1. bytes' = [b \in B |-> bytes[b] \cup Packed(b)]
      BY <1>3, <2>3 DEF Serialize, Ored
    <3>2. \A b \in B : bytes[b] \cup Packed(b) \in Byte
      BY <1>3 DEF Packed, Byte
    <3> QED BY <3>1, <3>2
  <2> QED BY <1>3, <2>1, <2>2, <2>3 DEF Kinds
<1>7. TypeOK'
  BY <1>1, <1>2, <1>6 DEF TypeOK
<1>8. ASSUME Overwritten, kind # "vector<bool>" PROVE bytes' = Encoding
  <2>1. Encoding = [b \in B |-> Encoding[b]]
    BY DEF Encoding
  <2>2. CASE kind = "bitlist"
    <3>1. bytes' = [plain EXCEPT ![Q] = @ \cup {R}]
      BY <1>4, <2>2 DEF Serialize, Sentinel, Q, R
    <3>2. ASSUME NEW b \in B PROVE bytes'[b] = Encoding[b]
      <4>1. b \in Nat /\ b <= Q
        BY <1>1, <2>2, Cut
      <4>2. CASE b # Q
        <5>1. b < CeilDiv(Len(bits), CHAR_BIT)
          BY <1>1, <4>1, <4>2, Cut
        <5>2. bytes'[b] = Packed(b)
          BY <3>1, <4>2, <5>1
        <5> QED BY <4>2, <5>2 DEF Encoding, Q
      <4>3. CASE b = Q
        <5>1. bytes'[b] = plain[b] \cup {R}
          BY <3>1, <4>3
        <5>2. plain[b] = Packed(b)
          <6>1. CASE R # 0
            <7>1. b < CeilDiv(Len(bits), CHAR_BIT)
              BY <1>1, <4>3, <6>1, Cut
            <7> QED BY <7>1
          <6>2. CASE R = 0
            <7>1. ~ (b < CeilDiv(Len(bits), CHAR_BIT))
              BY <1>1, <4>3, <6>2, Cut
            <7>2. bytes[b] = {}
              BY <1>1, <1>8, <6>2 DEF Unwritten, Overwritten, R
            <7>3. ASSUME NEW j \in 0 .. CHAR_BIT - 1
                  PROVE  ~ (CHAR_BIT * Q + j < Len(bits))
              <8>1. CHAR_BIT * Q \in Nat /\ Len(bits) = CHAR_BIT * Q
                BY <1>1, <6>2, Cut
              <8> QED BY <8>1
            <7>4. Packed(b) = {}
              BY <4>3, <7>3 DEF Packed, BitAt
            <7> QED BY <7>1, <7>2, <7>4
          <6> QED BY <6>1, <6>2
        <5> QED BY <2>2, <4>3, <5>1, <5>2 DEF Encoding, Q, R
      <4> QED BY <4>2, <4>3
    <3> HIDE DEF B
    <3>3. bytes' = [b \in B |-> bytes'[b]]
      BY <1>6
    <3> QED BY <2>1, <3>2, <3>3
  <2>3. CASE kind = "bitvector"
    <3>1. bytes' = [b \in B |-> bytes[b] \cup Packed(b)]
      BY <1>3, <2>3 DEF Serialize, Ored
    <3>2. ~dirty
      BY <1>8, <2>3 DEF Overwritten
    <3>3. \A b \in B : bytes[b] = {}
      BY <1>1, <3>2 DEF Unwritten
    <3>4. \A b \in B : Encoding[b] = Packed(b)
      BY <2>3 DEF Encoding
    <3> HIDE DEF B
    <3>5. bytes' = [b \in B |-> Encoding[b]]
      BY <3>1, <3>3, <3>4
    <3> QED BY <2>1, <3>5
  <2> QED BY <1>3, <1>8, <2>2, <2>3 DEF Kinds
<1>9. Encoded'
  BY <1>2, <1>8 DEF Encoded
<1>10. Whole' /\ Unwritten' /\ RoundTrip'
  BY <1>1, <1>2 DEF Unwritten, RoundTrip
<1> QED BY <1>7, <1>9, <1>10 DEF IInv

(* What deserialize reads.                                                 *)
LEMMA DeserializeStep == IInv /\ Deserialize => IInv'
<1> SUFFICES ASSUME IInv, Deserialize PROVE IInv'
  OBVIOUS
<1>1. /\ TypeOK /\ Whole /\ Encoded /\ pc = "deserialize" /\ pc' = "done"
      /\ ret' = IF kind = "bitvector" THEN read_bitvector ELSE read_bitlist
  BY DEF IInv, Deserialize
<1>2. /\ UNCHANGED <<kind, N, bits, dirty, bytes>>
      /\ buffer_size' = buffer_size /\ Encoding' = Encoding
      /\ Overwritten' = Overwritten /\ Whole' = Whole
  BY SameValue DEF Deserialize
<1>3. ret' \in Seq(BOOLEAN) /\ (kind = "bitvector" => Len(ret') = N)
  BY <1>1, ReadBitlistType, BitvectorType
<1>4. TypeOK'
  BY <1>1, <1>2, <1>3 DEF TypeOK
<1>5. ASSUME Overwritten, kind # "vector<bool>" PROVE ret' = bits
  <2>1. bytes = Encoding
    BY <1>1, <1>5 DEF Encoded
  <2>2. kind \in {"bitlist", "bitvector"}
    BY <1>1, <1>5 DEF TypeOK, Kinds
  <2> QED BY <1>1, <2>1, <2>2, BitlistBack, BitvectorBack
<1>6. RoundTrip'
  BY <1>2, <1>5 DEF RoundTrip
<1>7. Whole' /\ Unwritten' /\ Encoded'
  BY <1>1, <1>2 DEF Unwritten, Encoded
<1> QED BY <1>4, <1>6, <1>7 DEF IInv

(* The invariant is inductive.                                             *)
LEMMA StepInvariant == IInv /\ [Next]_vars => IInv'
<1> SUFFICES ASSUME IInv, [Next]_vars PROVE IInv'
  OBVIOUS
<1>1. CASE DeserializeThrows
  <2>1. /\ UNCHANGED <<kind, N, bits, dirty, bytes, ret>>
        /\ pc = "deserialize" /\ pc' = "threw"
    BY <1>1 DEF DeserializeThrows
  <2>2. /\ buffer_size' = buffer_size /\ Encoding' = Encoding
        /\ Overwritten' = Overwritten /\ Whole' = Whole
    BY <2>1, SameValue
  <2> QED BY <2>1, <2>2 DEF IInv, TypeOK, Unwritten, Encoded, RoundTrip
<1>2. CASE UNCHANGED vars
  <2>1. UNCHANGED <<kind, N, bits, dirty, bytes, ret, pc>>
    BY <1>2 DEF vars
  <2>2. /\ buffer_size' = buffer_size /\ Encoding' = Encoding
        /\ Overwritten' = Overwritten /\ Whole' = Whole
    BY <2>1, SameValue
  <2> QED BY <2>1, <2>2 DEF IInv, TypeOK, Unwritten, Encoded, RoundTrip
<1> QED BY <1>1, <1>2, SerializeStep, DeserializeStep DEF Next, Terminating

(* Every reachable state satisfies the inductive invariant: what serialize *)
(* leaves in an overwritten buffer is the encoding of the bits.            *)
THEOREM Invariance == Spec => []IInv
BY InitInvariant, StepInvariant, PTL DEF Spec

-----------------------------------------------------------------------------
(* What the invariant means.                                               *)

(* Type correctness.                                                       *)
THEOREM TypeCorrect == Spec => []TypeOK
BY Invariance, PTL DEF IInv

(* Bitlists and bitvectors of every length come back, from bytes of any    *)
(* width and into an object that held anything.                            *)
THEOREM ComesBack == Spec => []RoundTrip
BY Invariance, PTL DEF IInv

(* The size that is announced is the size that is written, and the         *)
(* sentinel tells the length of a bitlist whatever its bits are.           *)
THEOREM SizesExact == Spec => []SizeExact
<1>1. IInv => SizeExact
  <2> SUFFICES ASSUME IInv, pc # "serialize", Overwritten, kind # "vector<bool>"
               PROVE  /\ Length = size
                      /\ kind = "bitlist" =>
                            CHAR_BIT * (size - 1) + HighestBit(bytes[size - 1])
                               = Len(bits)
    BY DEF SizeExact
  <2>1. TypeOK /\ bytes = Encoding
    BY DEF IInv, Encoded
  <2>2. kind \in {"bitlist", "bitvector"}
    BY <2>1 DEF TypeOK, Kinds
  <2>3. Length = size
    BY <2>1, <2>2, LengthIs DEF size, buffer_size
  <2>4. ASSUME kind = "bitlist"
        PROVE  CHAR_BIT * (size - 1) + HighestBit(bytes[size - 1]) = Len(bits)
    <3>1. buffer_size = Q + 1 /\ HighestBit(bytes[Q]) = R
      BY <2>1, <2>4, SentinelHighest
    <3>2. size - 1 = Q
      BY <2>1, <2>3, <3>1, LengthIs, Cut
    <3> QED BY <2>1, <3>1, <3>2, Cut
  <2> QED BY <2>3, <2>4
<1> QED BY <1>1, Invariance, PTL

-----------------------------------------------------------------------------
(* Documents.                                                              *)

(* What a member that was decoded is, of its own node and earlier value    *)
(* alone.                                                                  *)
MemberDecoded(text, type, earlier, value) ==
    /\ IsValue(value, type)
    /\ WellFormed(text, type, earlier) => Encodes(text, value, type.kind)
    /\ ~RightKind(text, type) \/ Refused(text, type) => value = earlier
    /\ text # Missing
    /\ Refused(text, type) => type.kind = "bytes" /\ length(text) <= 2

(* The members before m are decoded, the others as they were.              *)
MembersDecoded ==
    \A n \in DOMAIN shape :
        IF n < m THEN MemberDecoded(nodes[n], shape[n], before[n], object[n])
                 ELSE object[n] = before[n]

(* The member the call fails on is not written in full.                    *)
FailsOnBad ==
    status \in {"threw", "undefined"} =>
        /\ m \in DOMAIN shape
        /\ ~WellFormed(nodes[m], shape[m], before[m])

(* What the last conversion returned tells of the last member.             *)
LastHeard ==
    m > 1 => decoded = RightKind(nodes[m - 1], shape[m - 1])

YamlIInv ==
    /\ YamlTypeOK /\ MembersDecoded /\ FailsOnBad /\ LastHeard /\ NoOverrun
    /\ status = "done" => m > 1

-----------------------------------------------------------------------------
(* Digits.                                                                 *)

(* The table has the value of every digit, and of what is no digit some    *)
(* value.                                                                  *)
LEMMA DigitValue ==
    ASSUME NEW char
    PROVE  /\ hex_to_byte(char) \in Digit
           /\ \A d \in Digit :
                 Writes(char, d) =>
                    /\ Writes(char, hex_to_byte(char))
                    /\ char # "0" => hex_to_byte(char) # 0
<1> DEFINE small == \E d \in 1 .. 16 : characters[d] = char
           large == \E d \in 1 .. 6 : capitals[d] = char
           i == CHOOSE d \in 1 .. 16 : characters[d] = char
           j == CHOOSE d \in 1 .. 6 : capitals[d] = char
           h == hex_to_byte(char)
<1>1. small => i \in 1 .. 16 /\ characters[i] = char
  OBVIOUS
<1>2. large => j \in 1 .. 6 /\ capitals[j] = char
  OBVIOUS
<1>3. \/ small /\ h = i - 1
      \/ large /\ h = j + 9
      \/ ~small /\ ~large /\ h = 0
  BY DEF hex_to_byte
<1>4. characters[1] = "0"
  BY DEF characters
<1>5. ASSUME NEW d \in Digit, Writes(char, d)
      PROVE  small \/ large
  <2> HIDE DEF i, j, h
  <2>1. CASE char = characters[d + 1]
    <3>1. d + 1 \in 1 .. 16
      BY DEF Digit
    <3> QED BY <2>1, <3>1
  <2>2. CASE d >= 10 /\ char = capitals[d - 9]
    <3>1. d - 9 \in 1 .. 6
      BY <2>2 DEF Digit
    <3> QED BY <2>2, <3>1
  <2> QED BY <1>5, <2>1, <2>2 DEF Writes
<1> HIDE DEF i, j, h, small, large
<1>6. h \in Digit
  BY <1>1, <1>2, <1>3 DEF Digit
<1>7. ASSUME small \/ large
      PROVE  Writes(char, h) /\ (char # "0" => h # 0)
  <2>1. CASE small /\ h = i - 1
    <3>1. h + 1 = i /\ (h = 0 => i = 1)
      BY <1>1, <2>1
    <3> QED BY <1>1, <1>4, <2>1, <3>1 DEF Writes
  <2>2. CASE large /\ h = j + 9
    <3>1. h - 9 = j /\ h >= 10 /\ h # 0
      BY <1>2, <2>2
    <3> QED BY <1>2, <2>2, <3>1 DEF Writes
  <2> QED BY <1>3, <1>7, <2>1, <2>2
<1>8. QED
  BY <1>5, <1>6, <1>7 DEF h

(* The halves of an even number of characters.                             *)
LEMMA Halves ==
    ASSUME NEW n \in Nat
    PROVE  /\ n \div 2 \in Nat
           /\ n % 2 = 0 => n = 2 * (n \div 2)
           /\ n % 2 = 0 \/ n % 2 = 1
           /\ (n + 2) % 2 = n % 2
           /\ (n + 2) \div 2 - 1 = n \div 2
           /\ 2 * (n \div 2) <= n
OBVIOUS

(* Bytes that a number of bits takes.                                      *)
LEMMA Eighths ==
    ASSUME NEW n \in Nat
    PROVE  /\ n \div 8 \in Nat /\ n \div 8 <= n /\ 8 * (n \div 8) <= n
           /\ \A v \in Nat : 8 * v <= n => v <= n \div 8
OBVIOUS

(* What is written is bytes, one for each two characters.                  *)
LEMMA BytesTyped ==
    ASSUME NEW text, text.chars \in Seq(STRING)
    PROVE  LET k == Len(text.chars) \div 2
           IN  /\ k \in Nat
               /\ bytes_of(text) \in [1 .. k -> HexByte]
               /\ bytes_of(text) \in Seq(HexByte)
               /\ Len(bytes_of(text)) = k
               /\ DOMAIN bytes_of(text) = 1 .. k
<1> DEFINE k == Len(text.chars) \div 2
<1>1. k \in Nat
  BY Halves, LenProperties
<1> HIDE DEF k
<1>2. \A b \in 1 .. k : <<hex_to_byte(text.chars[2 * b - 1]),
                          hex_to_byte(text.chars[2 * b])>> \in HexByte
  BY DigitValue DEF HexByte
<1>3. bytes_of(text) \in [1 .. k -> HexByte]
  BY <1>2 DEF bytes_of, k
<1>4. bytes_of(text) \in Seq(HexByte) /\ Len(bytes_of(text)) = k
  <2> DEFINE s == bytes_of(text)
  <2>1. s \in [1 .. k -> HexByte]
    BY <1>3
  <2> HIDE DEF s
  <2> QED BY <1>1, <2>1 DEF s
<1> QED BY <1>1, <1>3, <1>4 DEF k

(* A text of digits is that of the bytes read from it, small letters or    *)
(* capitals.                                                               *)
LEMMA BytesEncoded ==
    ASSUME NEW text, IsScalar(text), HexText(text)
    PROVE  EncodesBytes(text, bytes_of(text))
<1> DEFINE chars == text.chars
           count == Len(chars)
           k == count \div 2
           read == bytes_of(text)
<1>1. /\ text.node = "scalar" /\ text.hex /\ chars \in Seq(STRING)
      /\ count % 2 = 0
      /\ \A c \in DOMAIN chars : \E d \in Digit : Writes(chars[c], d)
  BY DEF HexText, IsScalar
<1>2. count \in Nat /\ DOMAIN chars = 1 .. count
  BY <1>1, LenProperties
<1>3. DOMAIN read = 1 .. k /\ Len(read) = k /\ k \in Nat
  BY <1>1, BytesTyped
<1>4. ASSUME NEW c \in DOMAIN chars
      PROVE  Writes(chars[c], hex_to_byte(chars[c]))
  <2>1. PICK d \in Digit : Writes(chars[c], d)
    BY <1>1
  <2> QED BY <2>1, DigitValue
<1>5. \A b \in 1 .. k : read[b] = <<hex_to_byte(chars[2 * b - 1]),
                                    hex_to_byte(chars[2 * b])>>
  BY DEF bytes_of
<1> HIDE DEF chars, count, k, read
<1>6. count = 2 * k
  BY <1>1, <1>2, Halves DEF k
<1>7. ASSUME NEW b \in 1 .. k, NEW half \in 1 .. 2
      PROVE  Writes(chars[2 * (b - 1) + half], read[b][half])
  <2>1. 2 * b - 1 \in DOMAIN chars /\ 2 * b \in DOMAIN chars
    BY <1>2, <1>3, <1>6
  <2>2. CASE half = 1
    <3>1. 2 * (b - 1) + half = 2 * b - 1
      BY <2>2
    <3>2. read[b][half] = hex_to_byte(chars[2 * b - 1])
      BY <1>5, <2>2
    <3> QED BY <1>4, <2>1, <3>1, <3>2
  <2>3. CASE half = 2
    <3>1. 2 * (b - 1) + half = 2 * b
      BY <2>3
    <3>2. read[b][half] = hex_to_byte(chars[2 * b])
      BY <1>5, <2>3
    <3> QED BY <1>4, <2>1, <3>1, <3>2
  <2> QED BY <2>2, <2>3
<1>8. Len(text.chars) = 2 * Len(bytes_of(text))
  BY <1>3, <1>6 DEF count, chars, read
<1> QED BY <1>1, <1>3, <1>7, <1>8 DEF EncodesBytes, chars, read

(* A text with "0x" is not read as a number.                               *)
LEMMA HexScalar ==
    ASSUME NEW text, IsScalar(text), text.hex
    PROVE  /\ text.node = "scalar" /\ text = Hex(text.chars)
           /\ text.chars \in Seq(STRING)
<1>1. text.node # "number"
  <2> SUFFICES ASSUME text.node = "number" PROVE FALSE
    OBVIOUS
  <2>1. text = Number(text.n, text.size)
    BY DEF IsScalar
  <2>2. Number(text.n, text.size).hex = FALSE
    BY DEF Number
  <2> QED BY <2>1, <2>2
<1>2. text = Hex(text.chars) /\ text.chars \in Seq(STRING)
  BY <1>1 DEF IsScalar
<1>3. Hex(text.chars).node = "scalar"
  BY DEF Hex
<1> QED BY <1>2, <1>3

(* bytelist_from_str has room for the bytes of a text it does not throw    *)
(* for; the last clause is what the vector of the text has room for.       *)
LEMMA AcceptedFits ==
    ASSUME NEW text, NEW room \in Nat, IsScalar(text), accepted(text, room)
    PROVE  /\ text.hex /\ text.chars \in Seq(STRING)
           /\ Len(text.chars) \in Nat
           /\ Len(text.chars) % 2 = 0 /\ ~(Len(text.chars) % 2 = 1)
           /\ Len(text.chars) <= 2 * room
           /\ Len(text.chars) = 2 * (Len(text.chars) \div 2)
           /\ InBounds(text, room)
           /\ vector_length(text) = Len(text.chars) \div 2
           /\ InBounds(text, vector_length(text))
<1> DEFINE count == Len(text.chars)
           k == count \div 2
<1>1. /\ text.hex /\ text.chars \in Seq(STRING)
      /\ length(text) = count + 2
      /\ (count + 2) % 2 = 0 /\ count + 2 <= 2 * room + 2
  <2>1. text.hex /\ length(text) % 2 = 0 /\ length(text) <= 2 * room + 2
    BY DEF accepted, _sanitize_hextring
  <2>2. length(text) = count + 2
    BY <2>1 DEF length
  <2>3. text.chars \in Seq(STRING)
    BY <2>1, HexScalar
  <2> QED BY <2>1, <2>2, <2>3
<1>2. count \in Nat
  BY <1>1, LenProperties
<1>3. vector_length(text) = (count + 2) \div 2 - 1
  BY <1>1 DEF vector_length
<1> HIDE DEF count
<1>4. /\ k \in Nat /\ count % 2 = 0 /\ count = 2 * k
      /\ (count + 2) \div 2 - 1 = k
  BY <1>1, <1>2, Halves
<1>5. ~(count % 2 = 1)
  BY <1>2, <1>4
<1> HIDE DEF k
<1>6. count <= 2 * room /\ k <= room /\ k <= k
  BY <1>1, <1>2, <1>4
<1>7. k = Len(text.chars) \div 2 /\ count = Len(text.chars)
  BY DEF k, count
<1>8. InBounds(text, room) /\ InBounds(text, k)
  BY <1>4, <1>6, <1>7 DEF InBounds
<1> QED BY <1>1, <1>2, <1>3, <1>4, <1>6, <1>7, <1>8, <1>5

(* A text of an even number of characters, and no more bytes than there is *)
(* room for, is accepted.                                                  *)
LEMMA FittingAccepted ==
    ASSUME NEW text, NEW room \in Nat, IsScalar(text), HexText(text),
           ByteCount(text) <= room
    PROVE  accepted(text, room)
<1> DEFINE count == Len(text.chars)
           k == count \div 2
<1>1. /\ text.hex /\ text.chars \in Seq(STRING) /\ count % 2 = 0
      /\ k <= room /\ length(text) = count + 2
  BY DEF IsScalar, HexText, ByteCount, length
<1>2. count \in Nat
  BY <1>1, LenProperties
<1> HIDE DEF count
<1>3. k \in Nat /\ count = 2 * k /\ (count + 2) % 2 = 0
  BY <1>1, <1>2, Halves
<1> HIDE DEF k
<1>4. count + 2 <= 2 * room + 2
  BY <1>1, <1>2, <1>3
<1> QED BY <1>1, <1>3, <1>4 DEF accepted, _sanitize_hextring

(* Then nothing is wrong with it.                                          *)
LEMMA AcceptedNotBad ==
    ASSUME NEW text, NEW room \in Nat, IsScalar(text), IsText(text),
           accepted(text, room)
    PROVE  ~BadText(text, room)
<1>1. /\ text.hex /\ Len(text.chars) \in Nat /\ ~(Len(text.chars) % 2 = 1)
      /\ Len(text.chars) <= 2 * room
  BY AcceptedFits
<1>2. ~(Len(text.chars) > 2 * room)
  BY <1>1
<1>3. text.node = "scalar"
  BY HexScalar DEF accepted, _sanitize_hextring
<1> QED BY <1>1, <1>2, <1>3 DEF BadText

(* Texts as long as the range leave nothing of it.                         *)
LEMMA OverlaidAll ==
    ASSUME NEW old, NEW new, DOMAIN old = DOMAIN new,
           new = [b \in DOMAIN new |-> new[b]]
    PROVE  Overlaid(old, new) = new
BY DEF Overlaid

(* Texts of any length keep the length of the range.                       *)
LEMMA OverlaidTyped ==
    ASSUME NEW S, NEW D, NEW F, NEW old \in [D -> S], NEW new \in [F -> S]
    PROVE  Overlaid(old, new) \in [D -> S]
BY DEF Overlaid

(* The list of bytes a bitlist is read as ends in a byte that is not zero. *)
LEMMA BitlistTyped ==
    ASSUME NEW read \in Seq(HexByte), read # <<>>
    PROVE  /\ BitlistOf(read) \in Seq(HexByte)
           /\ Last(read) # <<0, 0>> => BitlistOf(read) = read
<1>1. Front(read) \in Seq(HexByte)
  <2>1. Len(read) \in Nat /\ Len(read) # 0
    BY EmptySeq
  <2>2. SubSeq(read, 1, Len(read) - 1) \in Seq(HexByte)
    BY <2>1, SubSeqProperties
  <2> QED BY <2>2 DEF Front
<1>2. <<<<0, 1>>>> \in Seq(HexByte)
  BY DEF HexByte, Digit
<1> DEFINE front == Front(read)
           seal == <<<<0, 1>>>>
<1> HIDE DEF front, seal
<1>3. front \o seal \in Seq(HexByte)
  BY <1>1, <1>2, ConcatProperties DEF front, seal
<1> QED BY <1>3 DEF BitlistOf, front, seal

-----------------------------------------------------------------------------
(* One member.                                                             *)

(* The types of a node and of the value it is decoded over.                *)
LEMMA ScalarNode ==
    ASSUME NEW text, IsNode(text), IsText(text)
    PROVE  IsScalar(text) /\ text # Missing
BY DEF IsNode, IsText, Missing, Sequence

(* A number is read as it is.                                              *)
LEMMA NumberDecoded ==
    ASSUME NEW text, NEW type, NEW earlier,
           IsNode(text), type.kind = "number", text.node = "number"
    PROVE  /\ MemberDecoded(text, type, earlier, text.n)
           /\ RightKind(text, type)
<1>1. text = Number(text.n, text.size) /\ text.n \in Nat /\ text # Missing
  BY DEF IsNode, IsText, Missing, Number, Sequence, IsScalar
<1>2. IsValue(text.n, type)
  BY <1>1 DEF IsValue
<1>3. Encodes(text, text.n, type.kind)
  BY <1>1 DEF Encodes
<1>4. RightKind(text, type)
  BY DEF RightKind, IsText
<1>5. ~Refused(text, type)
  BY DEF Refused
<1> QED BY <1>1, <1>2, <1>3, <1>4, <1>5 DEF MemberDecoded

(* A node of another kind leaves the value alone.                          *)
LEMMA WrongNodeDecoded ==
    ASSUME NEW text, NEW type, NEW earlier,
           text # Missing, ~RightKind(text, type), IsValue(earlier, type),
           type.kind \in MemberKinds
    PROVE  MemberDecoded(text, type, earlier, earlier)
<1>1. ~WellFormed(text, type, earlier)
  BY DEF WellFormed, RightKind, IsText, ArrayText, HexText, MemberKinds
<1>2. ~Refused(text, type)
  BY DEF Refused
<1> QED BY <1>1, <1>2 DEF MemberDecoded

(* The bytes of a text over those of an array.                             *)
LEMMA ArrayDecoded ==
    ASSUME NEW text, NEW type, NEW earlier,
           IsNode(text), IsText(text), type.kind = "array",
           type.N \in Nat, IsValue(earlier, type), accepted(text, type.N)
    PROVE  /\ InBounds(text, type.N)
           /\ MemberDecoded(text, type, earlier,
                            Overlaid(earlier, bytes_of(text)))
           /\ RightKind(text, type)
<1> DEFINE read == bytes_of(text)
           k == Len(text.chars) \div 2
<1>1. IsScalar(text) /\ text # Missing
  BY ScalarNode
<1>2. text.chars \in Seq(STRING) /\ InBounds(text, type.N)
  BY <1>1, AcceptedFits
<1>3. read \in [1 .. k -> HexByte] /\ DOMAIN read = 1 .. k
  BY <1>2, BytesTyped
<1>4. earlier \in [1 .. type.N -> HexByte]
  BY DEF IsValue
<1>5. Overlaid(earlier, read) \in [1 .. type.N -> HexByte]
  BY <1>3, <1>4, OverlaidTyped
<1>6. IsValue(Overlaid(earlier, read), type)
  BY <1>5 DEF IsValue
<1>7. ASSUME ArrayText(text, type.N)
      PROVE  EncodesBytes(text, Overlaid(earlier, read))
  <2>1. HexText(text) /\ k = type.N
    BY <1>7 DEF ArrayText, ByteCount
  <2>2. EncodesBytes(text, read)
    BY <1>1, <2>1, BytesEncoded
  <2>3. DOMAIN earlier = DOMAIN read /\ read = [b \in DOMAIN read |-> read[b]]
    BY <1>3, <1>4, <2>1
  <2> HIDE DEF read
  <2>4. Overlaid(earlier, read) = read
    BY <2>3, OverlaidAll
  <2> QED BY <2>2, <2>4
<1>8. ~BadText(text, type.N)
  BY <1>1, AcceptedNotBad
<1> HIDE DEF read, k
<1>9. RightKind(text, type) /\ ~Refused(text, type)
  BY <1>8 DEF RightKind, IsText, Refused
<1>10. WellFormed(text, type, earlier) =>
          Encodes(text, Overlaid(earlier, read), type.kind)
  BY <1>7 DEF WellFormed, Encodes
<1> QED BY <1>1, <1>2, <1>6, <1>9, <1>10 DEF MemberDecoded, read

(* Bytes are read into a vector of their own; no text keeps the earlier    *)
(* ones.                                                                   *)
LEMMA BytesDecoded ==
    ASSUME NEW text, NEW type, NEW earlier,
           IsNode(text), IsText(text), type.kind = "bytes",
           length(text) > 2, accepted(text, vector_length(text))
    PROVE  /\ InBounds(text, vector_length(text))
           /\ MemberDecoded(text, type, earlier, bytes_of(text))
           /\ RightKind(text, type)
<1>1. IsScalar(text) /\ text # Missing
  BY ScalarNode
<1>2. vector_length(text) \in Nat
  <2>1. length(text) \in Nat
    BY <1>1, LenProperties DEF length, IsScalar, Hex, Word
  <2> DEFINE n == length(text)
  <2>2. n \in Nat /\ n > 2 /\ vector_length(text) = n \div 2 - 1
    BY <2>1 DEF vector_length
  <2> HIDE DEF n
  <2>3. n \div 2 - 1 \in Nat
    BY <2>2
  <2> QED BY <2>2, <2>3
<1>3. /\ text.hex /\ text.chars \in Seq(STRING)
      /\ Len(text.chars) \in Nat /\ ~(Len(text.chars) % 2 = 1)
      /\ InBounds(text, vector_length(text))
  BY <1>1, <1>2, AcceptedFits
<1>4. IsValue(bytes_of(text), type)
  BY <1>3, BytesTyped DEF IsValue
<1>5. HexText(text) => EncodesBytes(text, bytes_of(text))
  BY <1>1, BytesEncoded
<1>6. WellFormed(text, type, earlier) =>
         Encodes(text, bytes_of(text), type.kind)
  BY <1>5 DEF WellFormed, Encodes
<1>8. RightKind(text, type) /\ ~Refused(text, type)
  BY <1>3 DEF RightKind, IsText, Refused
<1> QED BY <1>1, <1>3, <1>4, <1>6, <1>8 DEF MemberDecoded

(* Up to two characters list no byte, and the earlier ones stay.           *)
LEMMA BytesSkipped ==
    ASSUME NEW text, NEW type, NEW earlier,
           IsNode(text), IsText(text), type.kind = "bytes",
           length(text) <= 2, IsValue(earlier, type)
    PROVE  /\ MemberDecoded(text, type, earlier, earlier)
           /\ RightKind(text, type)
<1>1. IsScalar(text) /\ text # Missing
  BY ScalarNode
<1>2. ASSUME WellFormed(text, type, earlier)
      PROVE  EncodesBytes(text, earlier)
  <2>1. HexText(text) /\ (ByteCount(text) = 0 => earlier = <<>>)
    BY <1>2 DEF WellFormed
  <2>2. text.node = "scalar" /\ text.hex /\ text.chars \in Seq(STRING)
    BY <1>1, <2>1, HexScalar DEF HexText
  <2>3. Len(text.chars) \in Nat /\ Len(text.chars) + 2 <= 2
    BY <2>2, LenProperties DEF length
  <2>4. Len(text.chars) = 0
    BY <2>3
  <2>5. earlier = <<>>
    BY <2>1, <2>4 DEF ByteCount
  <2> QED BY <2>2, <2>4, <2>5 DEF EncodesBytes
<1>3. WellFormed(text, type, earlier) => Encodes(text, earlier, type.kind)
  BY <1>2 DEF Encodes
<1>4. RightKind(text, type)
  BY DEF RightKind, IsText
<1> QED BY <1>1, <1>3, <1>4 DEF MemberDecoded

(* The bytes of a bitset; too many are ignored, too few are completed.     *)
LEMMA BitsetDecoded ==
    ASSUME NEW text, NEW type, NEW earlier, NEW value,
           IsNode(text), IsText(text), type.kind = "bitset",
           type.N \in Nat, accepted(text, type.N),
           value = [b \in 1 .. type.N \div 8 |->
                       IF b \in DOMAIN bytes_of(text) THEN bytes_of(text)[b]
                                                      ELSE <<0, 0>>]
    PROVE  /\ InBounds(text, vector_length(text))
           /\ MemberDecoded(text, type, earlier, value)
           /\ RightKind(text, type)
<1> DEFINE read == bytes_of(text)
           k == Len(text.chars) \div 2
           D == 1 .. type.N \div 8
<1>1. IsScalar(text) /\ text # Missing
  BY ScalarNode
<1>2. text.chars \in Seq(STRING) /\ InBounds(text, vector_length(text))
  BY <1>1, AcceptedFits
<1>3. read \in [1 .. k -> HexByte] /\ DOMAIN read = 1 .. k
  BY <1>2, BytesTyped
<1>4. <<0, 0>> \in HexByte
  BY DEF HexByte, Digit
<1>5. value = [b \in D |-> IF b \in DOMAIN read THEN read[b] ELSE <<0, 0>>]
  OBVIOUS
<1>6. ASSUME ArrayText(text, type.N \div 8)
      PROVE  EncodesBytes(text, read) /\ DOMAIN read = D
  <2>1. HexText(text) /\ k = type.N \div 8
    BY <1>6 DEF ArrayText, ByteCount
  <2> QED BY <1>1, <1>3, <2>1, BytesEncoded
<1> HIDE DEF read, k, D
<1>7. value \in [D -> HexByte]
  BY <1>3, <1>4, <1>5
<1>8. IsValue(value, type)
  BY <1>7 DEF IsValue, D
<1>9. DOMAIN read = D => value = read
  BY <1>3, <1>5
<1>10. WellFormed(text, type, earlier) => Encodes(text, value, type.kind)
  BY <1>6, <1>9 DEF WellFormed, Encodes
<1>11. ~BadText(text, type.N)
  BY <1>1, AcceptedNotBad
<1>12. RightKind(text, type) /\ ~Refused(text, type)
  BY <1>11 DEF RightKind, IsText, Refused
<1> QED BY <1>1, <1>2, <1>8, <1>10, <1>12 DEF MemberDecoded

(* The bytes of a bitlist.  One is needed to find its length.              *)
LEMMA BitlistDecoded ==
    ASSUME NEW text, NEW type, NEW earlier,
           IsNode(text), IsText(text), type.kind = "bitlist",
           type.N \in Nat, accepted(text, type.N),
           8 * vector_length(text) <= type.N
    PROVE  /\ InBounds(text, vector_length(text))
           /\ RightKind(text, type)
           /\ bytes_of(text) = <<>> => /\ text = Hex(<<>>)
                                       /\ ~WellFormed(text, type, earlier)
           /\ bytes_of(text) # <<>> =>
                 MemberDecoded(text, type, earlier, BitlistOf(bytes_of(text)))
<1> DEFINE read == bytes_of(text)
           count == Len(text.chars)
           k == count \div 2
           limit == type.N
<1>1. IsScalar(text) /\ text # Missing
  BY ScalarNode
<1>2. /\ text.hex /\ text.chars \in Seq(STRING)
      /\ count \in Nat /\ ~(count % 2 = 1) /\ count = 2 * k
      /\ InBounds(text, vector_length(text)) /\ vector_length(text) = k
  BY <1>1, AcceptedFits
<1>3. /\ read \in Seq(HexByte) /\ Len(read) = k
      /\ DOMAIN read = 1 .. k /\ k \in Nat
  BY <1>2, BytesTyped
<1>4. 8 * k <= limit /\ limit \in Nat
  BY <1>2
<1>5. \A b \in 1 .. k : read[b] = <<hex_to_byte(text.chars[2 * b - 1]),
                                    hex_to_byte(text.chars[2 * b])>>
  BY DEF bytes_of
<1> HIDE DEF read, count, k, limit
<1>6. k <= limit \div 8 /\ limit \div 8 \in Nat
  BY <1>3, <1>4, Eighths
<1>7. ~(count > 2 * (limit \div 8))
  BY <1>2, <1>3, <1>6
<1>8. ~BadText(text, type.N \div 8)
  <2>1. text.node = "scalar"
    BY <1>1, <1>2, HexScalar
  <2> QED BY <1>2, <1>7, <2>1 DEF BadText, count, limit
<1>9. RightKind(text, type) /\ ~Refused(text, type)
  BY <1>8 DEF RightKind, IsText, Refused
<1>10. ASSUME read = <<>>
       PROVE  text = Hex(<<>>) /\ ~WellFormed(text, type, earlier)
  <2>1. k = 0
    BY <1>3, <1>10, EmptySeq
  <2>2. count = 0
    BY <1>2, <2>1
  <2>3. text.chars = <<>>
    BY <1>2, <2>2, EmptySeq DEF count
  <2>4. text = Hex(<<>>)
    BY <1>1, <1>2, <2>3, HexScalar
  <2>5. ByteCount(text) = 0
    BY <2>1 DEF ByteCount, k, count
  <2>6. ~WellFormed(text, type, earlier)
    BY <1>4, <2>5 DEF WellFormed
  <2> QED BY <2>4, <2>6
<1>11. ASSUME read # <<>>, WellFormed(text, type, earlier)
       PROVE  BitlistOf(read) = read
  <2>1. HexText(text) /\ \E c \in {1, 2} : text.chars[count + 1 - c] # "0"
    BY <1>11 DEF WellFormed, count
  <2>2. k # 0
    BY <1>3, <1>11, EmptySeq
  <2>3. k \in 1 .. k /\ count - 1 = 2 * k - 1 /\ count = 2 * k
    BY <1>2, <1>3, <2>2
  <2>4. \/ text.chars[2 * k] # "0"
        \/ text.chars[2 * k - 1] # "0"
    <3>1. count + 1 - 1 = 2 * k /\ count + 1 - 2 = 2 * k - 1
      BY <1>2, <1>3
    <3> QED BY <2>1, <3>1
  <2>5. ASSUME NEW c \in DOMAIN text.chars, text.chars[c] # "0"
        PROVE  hex_to_byte(text.chars[c]) # 0
    <3>1. PICK d \in Digit : Writes(text.chars[c], d)
      BY <2>1 DEF HexText
    <3> QED BY <2>5, <3>1, DigitValue
  <2>6. 2 * k \in DOMAIN text.chars /\ 2 * k - 1 \in DOMAIN text.chars
    <3>1. DOMAIN text.chars = 1 .. count
      BY <1>2, LenProperties DEF count
    <3> QED BY <1>3, <2>3, <3>1
  <2>7. read[k] # <<0, 0>>
    BY <1>5, <2>3, <2>4, <2>5, <2>6
  <2>8. Last(read) # <<0, 0>>
    BY <1>3, <2>7 DEF Last
  <2> QED BY <1>3, <1>11, <2>8, BitlistTyped
<1>12. ASSUME read # <<>>
       PROVE  MemberDecoded(text, type, earlier, BitlistOf(read))
  <2>1. BitlistOf(read) \in Seq(HexByte)
    BY <1>3, <1>12, BitlistTyped
  <2>2. IsValue(BitlistOf(read), type)
    BY <2>1 DEF IsValue
  <2>3. ASSUME WellFormed(text, type, earlier)
        PROVE  EncodesBytes(text, BitlistOf(read))
    <3>1. HexText(text)
      BY <2>3 DEF WellFormed
    <3>2. EncodesBytes(text, read)
      BY <1>1, <3>1, BytesEncoded DEF read
    <3> QED BY <1>11, <1>12, <2>3, <3>2
  <2>4. WellFormed(text, type, earlier) =>
           Encodes(text, BitlistOf(read), type.kind)
    BY <2>3 DEF Encodes
  <2> QED BY <1>1, <1>9, <2>2, <2>4 DEF MemberDecoded
<1> QED BY <1>2, <1>9, <1>10, <1>12 DEF read

(* The elements of a list, whatever they were before.                      *)
LEMMA ListDecoded ==
    ASSUME NEW text, NEW type, NEW earlier, NEW value, NEW old,
           IsNode(text), text.node = "sequence", type.kind = "arrays",
           type.N \in Nat,
           \A e \in DOMAIN text.elems :
              /\ IsText(text.elems[e])
              /\ accepted(text.elems[e], type.N),
           old \in [1 .. type.N -> HexByte],
           value = [e \in DOMAIN text.elems |->
                       Overlaid(old, bytes_of(text.elems[e]))]
    PROVE  /\ \A e \in DOMAIN text.elems : InBounds(text.elems[e], type.N)
           /\ MemberDecoded(text, type, earlier, value)
           /\ RightKind(text, type)
<1> DEFINE elems == text.elems
           count == Len(elems)
           Array == [1 .. type.N -> HexByte]
           elem(e) == Overlaid(old, bytes_of(elems[e]))
<1>1. /\ text # Missing /\ elems \in Seq(Range(elems))
      /\ \A e \in DOMAIN elems : IsText(elems[e]) => IsScalar(elems[e])
  BY DEF IsNode, IsText, Missing
<1>2. count \in Nat /\ DOMAIN elems = 1 .. count
  BY <1>1, LenProperties
<1>3. ASSUME NEW e \in DOMAIN elems
      PROVE  /\ InBounds(elems[e], type.N) /\ ~BadText(elems[e], type.N)
             /\ elem(e) \in Array
             /\ ArrayText(elems[e], type.N) => EncodesBytes(elems[e], elem(e))
  <2> DEFINE t == elems[e]
             read == bytes_of(t)
             k == Len(t.chars) \div 2
  <2>1. IsScalar(t) /\ IsText(t) /\ accepted(t, type.N)
    BY <1>1
  <2> HIDE DEF t
  <2>2. t.chars \in Seq(STRING) /\ InBounds(t, type.N)
    BY <2>1, AcceptedFits
  <2>3. ~BadText(t, type.N)
    BY <2>1, AcceptedNotBad
  <2>4. read \in [1 .. k -> HexByte] /\ DOMAIN read = 1 .. k
    BY <2>2, BytesTyped
  <2>5. Overlaid(old, read) \in Array
    BY <2>4, OverlaidTyped
  <2>6. ASSUME ArrayText(t, type.N)
        PROVE  EncodesBytes(t, Overlaid(old, read))
    <3>1. HexText(t) /\ k = type.N
      BY <2>6 DEF ArrayText, ByteCount
    <3>2. EncodesBytes(t, read)
      BY <2>1, <3>1, BytesEncoded
    <3>3. DOMAIN old = DOMAIN read /\ read = [b \in DOMAIN read |-> read[b]]
      BY <2>4, <3>1
    <3> HIDE DEF read
    <3>4. Overlaid(old, read) = read
      BY <3>3, OverlaidAll
    <3> QED BY <3>2, <3>4
  <2>7. elem(e) = Overlaid(old, read)
    BY DEF t
  <2> HIDE DEF elem, read, k, Array
  <2> QED BY <2>2, <2>3, <2>5, <2>6, <2>7 DEF t
<1>4. value = [e \in 1 .. count |-> elem(e)]
  BY <1>2
<1> HIDE DEF elems, count, Array, elem
<1>5. /\ value \in [1 .. count -> Array]
      /\ \A e \in 1 .. count : value[e] = elem(e)
  BY <1>2, <1>3, <1>4
<1>6. value \in Seq(Array) /\ Len(value) = count /\ DOMAIN value = 1 .. count
  BY <1>2, <1>5
<1>7. IsValue(value, type)
  BY <1>6 DEF IsValue, Array
<1>8. ASSUME WellFormed(text, type, earlier)
      PROVE  Encodes(text, value, type.kind)
  <2>1. \A e \in DOMAIN elems : ArrayText(elems[e], type.N)
    BY <1>8 DEF WellFormed, elems
  <2>2. \A e \in DOMAIN value : EncodesBytes(elems[e], value[e])
    BY <1>2, <1>3, <1>5, <1>6, <2>1
  <2> QED BY <1>6, <2>2 DEF Encodes, elems, count
<1>9. RightKind(text, type) /\ ~Refused(text, type)
  BY <1>3 DEF RightKind, IsText, Refused, elems
<1> QED BY <1>1, <1>3, <1>7, <1>8, <1>9 DEF MemberDecoded, elems

(* A member in full is not what the call throws at.                        *)
LEMMA ArrayAccepted ==
    ASSUME NEW text, NEW type, NEW earlier,
           IsNode(text), IsText(text), type.N \in Nat,
           type.kind \in {"array", "bitset"}, WellFormed(text, type, earlier)
    PROVE  accepted(text, type.N)
<1> DEFINE limit == type.N
<1>1. IsScalar(text)
  BY ScalarNode
<1>2. /\ HexText(text)
      /\ ByteCount(text) = limit \/ ByteCount(text) = limit \div 8
  BY DEF WellFormed, ArrayText
<1>3. limit \in Nat
  OBVIOUS
<1> HIDE DEF limit
<1>4. limit \div 8 <= limit /\ limit <= limit
  BY <1>3, Eighths
<1>5. ByteCount(text) <= limit
  BY <1>2, <1>4
<1>6. accepted(text, limit)
  BY <1>1, <1>2, <1>3, <1>5, FittingAccepted
<1> QED BY <1>6 DEF limit

(* Neither is one of bytes, whatever their number,                         *)
LEMMA BytesAccepted ==
    ASSUME NEW text, NEW type, NEW earlier,
           IsNode(text), IsText(text), type.kind = "bytes",
           WellFormed(text, type, earlier)
    PROVE  accepted(text, vector_length(text))
<1> DEFINE count == Len(text.chars)
           k == count \div 2
<1>1. IsScalar(text) /\ HexText(text)
  BY ScalarNode DEF WellFormed
<1>2. /\ count \in Nat /\ vector_length(text) = (count + 2) \div 2 - 1
      /\ ByteCount(text) = k
  BY <1>1, LenProperties
     DEF IsScalar, HexText, vector_length, length, ByteCount
<1> HIDE DEF count
<1>3. k \in Nat /\ (count + 2) \div 2 - 1 = k
  BY <1>2, Halves
<1> HIDE DEF k
<1>4. vector_length(text) = k /\ k \in Nat /\ ByteCount(text) <= k
  BY <1>2, <1>3
<1> QED BY <1>1, <1>4, FittingAccepted

(* nor a bitlist within its limit,                                         *)
LEMMA BitlistAccepted ==
    ASSUME NEW text, NEW type, NEW earlier,
           IsNode(text), IsText(text), type.kind = "bitlist",
           type.N \in Nat, WellFormed(text, type, earlier)
    PROVE  accepted(text, type.N) /\ 8 * vector_length(text) <= type.N
<1> DEFINE k == ByteCount(text)
           limit == type.N
<1>1. /\ IsScalar(text) /\ HexText(text)
      /\ k \in 1 .. limit \div 8
  BY ScalarNode DEF WellFormed
<1>2. limit \in Nat /\ limit \div 8 \in Nat /\ limit \div 8 <= limit
      /\ 8 * (limit \div 8) <= limit
  BY Eighths
<1> HIDE DEF k, limit
<1>3. k <= limit /\ 8 * k <= limit
  BY <1>1, <1>2
<1>4. accepted(text, type.N)
  BY <1>1, <1>3, FittingAccepted DEF k, limit
<1>5. vector_length(text) = k
  BY <1>1, <1>4, AcceptedFits DEF k, ByteCount
<1> QED BY <1>3, <1>4, <1>5 DEF limit

(* nor a list of arrays.                                                   *)
LEMMA ListAccepted ==
    ASSUME NEW text, NEW type, NEW earlier,
           IsNode(text), text.node = "sequence", type.kind = "arrays",
           type.N \in Nat, WellFormed(text, type, earlier)
    PROVE  \A e \in DOMAIN text.elems :
              /\ IsText(text.elems[e])
              /\ accepted(text.elems[e], type.N)
<1>1. ASSUME NEW e \in DOMAIN text.elems
      PROVE  /\ IsText(text.elems[e])
             /\ accepted(text.elems[e], type.N)
  <2> DEFINE t == text.elems[e]
  <2>1. HexText(t) /\ ByteCount(t) = type.N
    BY DEF WellFormed, ArrayText
  <2>2. IsText(t)
    BY <2>1 DEF HexText, IsText
  <2>3. IsScalar(t)
    BY <2>2 DEF IsNode, IsText, Missing
  <2> HIDE DEF t
  <2>4. accepted(t, type.N)
    BY <2>1, <2>3, FittingAccepted
  <2> QED BY <2>2, <2>4 DEF t
<1> QED BY <1>1

-----------------------------------------------------------------------------
(* The invariant.                                                          *)

(* What the types and the assumption say of the member at hand.            *)
LEMMA AtHand ==
    ASSUME YamlIInv, m \in DOMAIN shape
    PROVE  /\ shape \in Seq([kind : MemberKinds, N : Nat])
           /\ DOMAIN shape = 1 .. Len(shape) /\ Len(shape) \in Nat
           /\ member.kind \in MemberKinds /\ member.N \in Nat
           /\ IsNode(node)
           /\ object[m] = before[m] /\ IsValue(object[m], member)
<1>1. /\ shape \in Seq([kind : MemberKinds, N : Nat])
      /\ IsNode(node)
  BY YamlAssumption DEF YamlIInv, YamlTypeOK, node
<1>2. DOMAIN shape = 1 .. Len(shape) /\ Len(shape) \in Nat
  BY <1>1, LenProperties
<1>3. member \in [kind : MemberKinds, N : Nat]
  BY <1>1, <1>2, ElementOfSeq DEF member
<1>4. member.kind \in MemberKinds /\ member.N \in Nat
  BY <1>3
<1>5. ~(m < m)
  BY <1>2
<1>6. object[m] = before[m]
  BY <1>5 DEF YamlIInv, MembersDecoded
<1>7. IsValue(object[m], member)
  BY DEF YamlIInv, YamlTypeOK, member
<1> QED BY <1>1, <1>2, <1>4, <1>6, <1>7

(* The invariant holds initially.                                          *)
LEMMA YamlInitInvariant == YamlInit => YamlIInv
<1> SUFFICES ASSUME YamlInit PROVE YamlIInv
  OBVIOUS
<1>1. /\ shape \in Shapes /\ nodes \in Documents(shape)
      /\ before \in Objects(shape) /\ object = before
      /\ m = 1 /\ decoded = FALSE /\ status = "decode"
  BY DEF YamlInit
<1>2. /\ shape \in Seq([kind : MemberKinds, N : Nat])
      /\ Len(shape) > 0 /\ DOMAIN object = DOMAIN shape
      /\ \A n \in DOMAIN shape : IsValue(object[n], shape[n])
  BY <1>1, YamlAssumption
<1>3. Len(shape) \in Nat /\ DOMAIN shape = 1 .. Len(shape)
  BY <1>2, LenProperties
<1>4. YamlTypeOK
  <2>1. 1 \in 1 .. Len(shape) + 1
    BY <1>3
  <2> QED BY <1>1, <1>2, <2>1 DEF YamlTypeOK
<1>5. MembersDecoded
  <2>1. \A n \in DOMAIN shape : ~(n < m)
    BY <1>1, <1>3
  <2> QED BY <1>1, <2>1 DEF MembersDecoded
<1> QED BY <1>1, <1>4, <1>5
       DEF YamlIInv, FailsOnBad, LastHeard, NoOverrun

(* A conversion that returns a value for its member that is decoded.       *)
LEMMA ReturnedStep ==
    ASSUME YamlIInv, Decoding, NEW value, NEW result,
           MemberDecoded(node, member, before[m], value),
           result = RightKind(node, member), Returned(value, result)
    PROVE  YamlIInv'
<1>1. /\ object' = [object EXCEPT ![m] = value]
      /\ decoded' = result /\ m' = m + 1 /\ shape' = shape /\ nodes' = nodes
      /\ before' = before /\ status' = "decode" /\ m \in DOMAIN shape
  BY DEF Decoding, Returned
<1>2. /\ DOMAIN shape = 1 .. Len(shape) /\ Len(shape) \in Nat
  BY <1>1, AtHand
<1>3. result \in BOOLEAN
  BY DEF RightKind, IsText
<1>4. /\ DOMAIN object = DOMAIN shape /\ DOMAIN object' = DOMAIN shape
      /\ object'[m] = value
      /\ \A n \in DOMAIN shape : n # m => object'[n] = object[n]
  BY <1>1 DEF YamlIInv, YamlTypeOK
<1>5. YamlTypeOK'
  <2>1. IsValue(value, shape[m])
    BY DEF MemberDecoded, member
  <2>2. ASSUME NEW n \in DOMAIN shape
        PROVE  IsValue(object'[n], shape[n])
    BY <1>4, <2>1 DEF YamlIInv, YamlTypeOK
  <2>3. m' \in 1 .. Len(shape) + 1
    BY <1>1, <1>2
  <2> QED BY <1>1, <1>3, <1>4, <2>2, <2>3 DEF YamlIInv, YamlTypeOK
<1>6. MembersDecoded'
  <2>1. ASSUME NEW n \in DOMAIN shape
        PROVE  IF n < m'
               THEN MemberDecoded(nodes[n], shape[n], before[n], object'[n])
               ELSE object'[n] = before[n]
    <3>1. /\ n < m' <=> n < m \/ n = m
          /\ ~(n < m') => n # m /\ ~(n < m)
      BY <1>1, <1>2
    <3>2. IF n < m THEN MemberDecoded(nodes[n], shape[n], before[n], object[n])
                   ELSE object[n] = before[n]
      BY DEF YamlIInv, MembersDecoded
    <3>3. n = m => MemberDecoded(nodes[n], shape[n], before[n], object'[n])
      BY <1>4 DEF node, member
    <3> QED BY <1>4, <3>1, <3>2, <3>3
  <2> QED BY <1>1, <2>1 DEF MembersDecoded
<1>7. FailsOnBad' /\ NoOverrun'
  BY <1>1 DEF FailsOnBad, NoOverrun
<1>8. LastHeard'
  <2>1. m' - 1 = m
    BY <1>1, <1>2
  <2> QED BY <1>1, <2>1 DEF LastHeard, node, member
<1> QED BY <1>1, <1>5, <1>6, <1>7, <1>8 DEF YamlIInv

(* The call ends, at a member that is not in full if it fails.             *)
LEMMA EndsStep ==
    ASSUME YamlIInv, NEW label \in {"done", "threw", "undefined"}, Ends(label),
           label = "done" => m \notin DOMAIN shape,
           label # "done" => /\ m \in DOMAIN shape
                             /\ ~WellFormed(node, member, before[m]),
           label = "undefined" => member.kind = "bitlist" /\ node = Hex(<<>>)
    PROVE  YamlIInv'
<1>1. /\ object' = object /\ decoded' = decoded /\ m' = m /\ shape' = shape
      /\ nodes' = nodes /\ before' = before /\ status' = label
  BY DEF Ends
<1>2. YamlTypeOK'
  BY <1>1 DEF YamlIInv, YamlTypeOK
<1>3. MembersDecoded'
  BY <1>1 DEF YamlIInv, MembersDecoded
<1>4. FailsOnBad'
  BY <1>1 DEF FailsOnBad, node, member
<1>5. LastHeard'
  BY <1>1 DEF YamlIInv, LastHeard
<1>6. NoOverrun'
  BY <1>1 DEF NoOverrun, node, member
<1>7. label = "done" => m > 1
  <2>1. shape \in Seq([kind : MemberKinds, N : Nat]) /\ Len(shape) > 0
    BY YamlAssumption DEF YamlIInv, YamlTypeOK
  <2>2. DOMAIN shape = 1 .. Len(shape) /\ Len(shape) \in Nat
    BY <2>1, LenProperties
  <2>3. m \in 1 .. Len(shape) + 1
    BY DEF YamlIInv, YamlTypeOK
  <2>4. m \notin 1 .. Len(shape) => m > 1
    BY <2>1, <2>2, <2>3
  <2> QED BY <2>2, <2>4
<1> QED BY <1>1, <1>2, <1>3, <1>4, <1>5, <1>6, <1>7 DEF YamlIInv

(* Every step keeps it: one case for each action.                          *)
LEMMA YamlStepInvariant == YamlIInv /\ [YamlNext]_yaml_vars => YamlIInv'
<1> SUFFICES ASSUME YamlIInv, [YamlNext]_yaml_vars PROVE YamlIInv'
  OBVIOUS
<1>1. ASSUME Decoding
      PROVE  /\ m \in DOMAIN shape
             /\ member.kind \in MemberKinds /\ member.N \in Nat /\ IsNode(node)
             /\ object[m] = before[m] /\ IsValue(before[m], member)
  BY <1>1, AtHand DEF Decoding
<1>2. CASE MissingThrows
  <2>1. Decoding /\ node = Missing /\ Ends("threw")
    BY <1>2 DEF MissingThrows
  <2>2. ~WellFormed(node, member, before[m])
    BY <1>1, <2>1 DEF WellFormed, Missing, ArrayText, HexText, MemberKinds
  <2> QED BY <1>1, <2>1, <2>2, EndsStep
<1>3. CASE WrongNode
  <2>1. Decoding /\ node # Missing /\ Returned(object[m], FALSE)
    BY <1>3 DEF WrongNode
  <2>2. ~RightKind(node, member)
    BY <1>1, <1>3, <2>1 DEF WrongNode, RightKind, IsText, MemberKinds
  <2>3. MemberDecoded(node, member, before[m], object[m])
    BY <1>1, <2>1, <2>2, WrongNodeDecoded
  <2>4. FALSE = RightKind(node, member)
    BY <2>2 DEF RightKind, IsText
  <2> QED BY <2>1, <2>3, <2>4, ReturnedStep
<1>4. CASE DecodeNumber
  <2>1. /\ Decoding /\ member.kind = "number" /\ node.node = "number"
        /\ Returned(node.n, TRUE)
    BY <1>4 DEF DecodeNumber
  <2>2. /\ MemberDecoded(node, member, before[m], node.n)
        /\ RightKind(node, member)
    BY <1>1, <2>1, NumberDecoded
  <2>3. TRUE = RightKind(node, member)
    BY <2>2 DEF RightKind, IsText
  <2> QED BY <2>1, <2>2, <2>3, ReturnedStep
<1>5. CASE DecodeArray
  <2>1. /\ Decoding /\ member.kind = "array" /\ IsText(node)
        /\ accepted(node, member.N)
    BY <1>5 DEF DecodeArray, TextOf
  <2> DEFINE value == Overlaid(object[m], bytes_of(node))
  <2>2. /\ InBounds(node, member.N)
        /\ MemberDecoded(node, member, before[m], value)
        /\ RightKind(node, member)
    BY <1>1, <2>1, ArrayDecoded
  <2>3. Returned(value, TRUE)
    BY <1>5, <2>2 DEF DecodeArray
  <2>4. TRUE = RightKind(node, member)
    BY <2>2 DEF RightKind, IsText
  <2> HIDE DEF value
  <2> QED BY <2>1, <2>2, <2>3, <2>4, ReturnedStep
<1>6. CASE ArrayThrows
  <2>1. /\ Decoding /\ member.kind = "array" /\ IsText(node)
        /\ ~accepted(node, member.N) /\ Ends("threw")
    BY <1>6 DEF ArrayThrows, TextOf
  <2>2. ~WellFormed(node, member, before[m])
    BY <1>1, <2>1, ArrayAccepted
  <2> QED BY <1>1, <2>1, <2>2, EndsStep
<1>7. CASE SkipBytes
  <2>1. /\ Decoding /\ member.kind = "bytes" /\ IsText(node)
        /\ length(node) <= 2 /\ Returned(object[m], TRUE)
    BY <1>7 DEF SkipBytes, TextOf
  <2>2. /\ MemberDecoded(node, member, before[m], object[m])
        /\ RightKind(node, member)
    BY <1>1, <2>1, BytesSkipped
  <2>3. TRUE = RightKind(node, member)
    BY <2>2 DEF RightKind, IsText
  <2> QED BY <2>1, <2>2, <2>3, ReturnedStep
<1>8. CASE DecodeBytes
  <2>1. /\ Decoding /\ member.kind = "bytes" /\ IsText(node)
        /\ length(node) > 2 /\ accepted(node, vector_length(node))
    BY <1>8 DEF DecodeBytes, TextOf
  <2>2. /\ InBounds(node, vector_length(node))
        /\ MemberDecoded(node, member, before[m], bytes_of(node))
        /\ RightKind(node, member)
    BY <1>1, <2>1, BytesDecoded
  <2>3. Returned(bytes_of(node), TRUE)
    BY <1>8, <2>2 DEF DecodeBytes
  <2>4. TRUE = RightKind(node, member)
    BY <2>2 DEF RightKind, IsText
  <2> QED BY <2>1, <2>2, <2>3, <2>4, ReturnedStep
<1>9. CASE BytesThrow
  <2>1. /\ Decoding /\ member.kind = "bytes" /\ IsText(node)
        /\ ~accepted(node, vector_length(node)) /\ Ends("threw")
    BY <1>9 DEF BytesThrow, TextOf
  <2>2. ~WellFormed(node, member, before[m])
    BY <1>1, <2>1, BytesAccepted
  <2> QED BY <1>1, <2>1, <2>2, EndsStep
<1>10. CASE DecodeBitset
  <2>1. /\ Decoding /\ member.kind = "bitset" /\ IsText(node)
        /\ accepted(node, member.N)
    BY <1>10 DEF DecodeBitset, TextOf, bits_accepted
  <2> DEFINE value == BitsetOf(bytes_of(node))
  <2>2. value = [b \in 1 .. member.N \div 8 |->
                    IF b \in DOMAIN bytes_of(node) THEN bytes_of(node)[b]
                                                   ELSE <<0, 0>>]
    BY DEF BitsetOf
  <2> HIDE DEF value
  <2>3. /\ InBounds(node, vector_length(node))
        /\ MemberDecoded(node, member, before[m], value)
        /\ RightKind(node, member)
    BY <1>1, <2>1, <2>2, BitsetDecoded
  <2>4. Returned(value, TRUE)
    BY <1>10, <2>3 DEF DecodeBitset, value
  <2>5. TRUE = RightKind(node, member)
    BY <2>3 DEF RightKind, IsText
  <2> QED BY <2>1, <2>3, <2>4, <2>5, ReturnedStep
<1>11. CASE DecodeBitlist
  <2>1. /\ Decoding /\ member.kind = "bitlist" /\ IsText(node)
        /\ accepted(node, member.N) /\ 8 * vector_length(node) <= member.N
    BY <1>11 DEF DecodeBitlist, TextOf, bits_accepted
  <2> DEFINE value == BitlistOf(bytes_of(node))
  <2>2. /\ InBounds(node, vector_length(node))
        /\ RightKind(node, member)
        /\ bytes_of(node) = <<>> => /\ node = Hex(<<>>)
                                    /\ ~WellFormed(node, member, before[m])
        /\ bytes_of(node) # <<>> =>
              MemberDecoded(node, member, before[m], value)
    BY <1>1, <2>1, BitlistDecoded
  <2>3. CASE bytes_of(node) # <<>>
    <3>1. Returned(value, TRUE)
      BY <1>11, <2>2, <2>3 DEF DecodeBitlist
    <3>2. TRUE = RightKind(node, member)
      BY <2>2 DEF RightKind, IsText
    <3> HIDE DEF value
    <3> QED BY <2>1, <2>2, <2>3, <3>1, <3>2, ReturnedStep
  <2>4. CASE bytes_of(node) = <<>>
    <3>1. Ends("undefined")
      BY <1>11, <2>4 DEF DecodeBitlist
    <3> QED BY <1>1, <2>1, <2>2, <2>4, <3>1, EndsStep
  <2> QED BY <2>3, <2>4
<1>12. CASE BitsThrow
  <2>1. /\ Decoding /\ member.kind \in {"bitlist", "bitset"}
        /\ IsText(node) /\ ~bits_accepted /\ Ends("threw")
    BY <1>12 DEF BitsThrow, TextOf
  <2>2. ASSUME WellFormed(node, member, before[m])
        PROVE  bits_accepted
    <3>1. CASE member.kind = "bitset"
      BY <1>1, <2>1, <2>2, <3>1, ArrayAccepted DEF bits_accepted
    <3>2. CASE member.kind = "bitlist"
      BY <1>1, <2>1, <2>2, <3>2, BitlistAccepted DEF bits_accepted
    <3> QED BY <2>1, <3>1, <3>2
  <2> QED BY <1>1, <2>1, <2>2, EndsStep
<1>13. CASE DecodeList
  <2>1. /\ Decoding /\ member.kind = "arrays" /\ node.node = "sequence"
        /\ \A e \in DOMAIN node.elems : /\ IsText(node.elems[e])
                                        /\ accepted(node.elems[e], member.N)
    BY <1>13 DEF DecodeList, ElementDecoded
  <2>2. ASSUME NEW garbage \in Garbage
        PROVE  /\ \A e \in DOMAIN node.elems :
                     InBounds(node.elems[e], member.N)
               /\ MemberDecoded(node, member, before[m],
                                Elements(node.elems, garbage))
               /\ RightKind(node, member)
    <3> DEFINE old == [b \in 1 .. member.N |-> garbage]
               value == Elements(node.elems, garbage)
    <3>1. garbage \in HexByte
      BY DEF Garbage, HexByte, Digit
    <3>2. old \in [1 .. member.N -> HexByte]
      BY <3>1
    <3>3. value = [e \in DOMAIN node.elems |->
                      Overlaid(old, bytes_of(node.elems[e]))]
      BY DEF Elements, Element
    <3> HIDE DEF old, value
    <3>4. /\ \A e \in DOMAIN node.elems : InBounds(node.elems[e], member.N)
          /\ MemberDecoded(node, member, before[m], value)
          /\ RightKind(node, member)
      BY <1>1, <2>1, <3>2, <3>3, ListDecoded
    <3> QED BY <3>4 DEF value
  <2>3. <<0, 0>> \in Garbage
    BY DEF Garbage
  <2>4. \A e \in DOMAIN node.elems : InBounds(node.elems[e], member.N)
    BY <2>2, <2>3
  <2>5. PICK garbage \in Garbage :
               Returned(Elements(node.elems, garbage), TRUE)
    BY <1>13, <2>4 DEF DecodeList
  <2>6. TRUE = RightKind(node, member)
    BY <2>2, <2>3 DEF RightKind, IsText
  <2> QED BY <2>1, <2>2, <2>5, <2>6, ReturnedStep
<1>14. CASE ListThrows
  <2>1. /\ Decoding /\ member.kind = "arrays" /\ node.node = "sequence"
        /\ \E e \in DOMAIN node.elems :
              ~(/\ IsText(node.elems[e])
                /\ accepted(node.elems[e], member.N))
        /\ Ends("threw")
    BY <1>14 DEF ListThrows, ElementDecoded
  <2>2. ~WellFormed(node, member, before[m])
    BY <1>1, <2>1, ListAccepted
  <2> QED BY <1>1, <2>1, <2>2, EndsStep
<1>15. CASE Return
  BY <1>15, EndsStep DEF Return
<1>16. CASE Ended \/ UNCHANGED yaml_vars
  BY <1>16 DEF Ended, yaml_vars, YamlIInv, YamlTypeOK, MembersDecoded,
               FailsOnBad, LastHeard, NoOverrun
<1> QED
  BY <1>2, <1>3, <1>4, <1>5, <1>6, <1>7, <1>8, <1>9, <1>10, <1>11, <1>12,
     <1>13, <1>14, <1>15, <1>16 DEF YamlNext

(* The inductive invariant holds.                                          *)
THEOREM YamlInvariance == YamlSpec => []YamlIInv
BY YamlInitInvariant, YamlStepInvariant, PTL DEF YamlSpec

-----------------------------------------------------------------------------
(* What the invariant means.                                               *)

(* Type correctness: no text changes the length of an array or a bitset.   *)
THEOREM YamlTypeCorrect == YamlSpec => []YamlTypeOK
BY YamlInvariance, PTL DEF YamlIInv

(* What is written in full is decoded, over any earlier value and next to  *)
(* any other members, and is not what the call fails on.                   *)
THEOREM DecodesWellFormed == YamlSpec => []WellFormedDecoded
<1>1. YamlIInv => WellFormedDecoded
  <2> SUFFICES ASSUME YamlIInv, NEW n \in DOMAIN shape,
                      WellFormed(nodes[n], shape[n], before[n])
               PROVE  /\ n < m => Encodes(nodes[n], object[n], shape[n].kind)
                      /\ n = m => status \notin {"threw", "undefined"}
    BY DEF WellFormedDecoded
  <2>1. n < m => MemberDecoded(nodes[n], shape[n], before[n], object[n])
    BY DEF YamlIInv, MembersDecoded
  <2>2. n = m => status \notin {"threw", "undefined"}
    BY DEF YamlIInv, FailsOnBad
  <2> QED BY <2>1, <2>2 DEF MemberDecoded
<1> QED BY <1>1, YamlInvariance, PTL

(* What is refused, or not reached, keeps its earlier value, all of it.    *)
THEOREM KeepsRefused == YamlSpec => []RefusedKept
<1>1. YamlIInv => RefusedKept
  <2> SUFFICES ASSUME YamlIInv, NEW n \in DOMAIN shape,
                      \/ n >= m
                      \/ nodes[n] = Missing
                      \/ ~RightKind(nodes[n], shape[n])
                      \/ Refused(nodes[n], shape[n])
               PROVE  object[n] = before[n]
    BY DEF RefusedKept
  <2>1. IF n < m THEN MemberDecoded(nodes[n], shape[n], before[n], object[n])
                 ELSE object[n] = before[n]
    BY DEF YamlIInv, MembersDecoded
  <2>2. n >= m => ~(n < m)
    <3>1. shape \in Seq([kind : MemberKinds, N : Nat])
      BY YamlAssumption DEF YamlIInv, YamlTypeOK
    <3>2. Len(shape) \in Nat /\ DOMAIN shape = 1 .. Len(shape)
      BY <3>1, LenProperties
    <3>3. m \in 1 .. Len(shape) + 1
      BY DEF YamlIInv, YamlTypeOK
    <3> QED BY <3>2, <3>3
  <2> QED BY <2>1, <2>2 DEF MemberDecoded
<1> QED BY <1>1, YamlInvariance, PTL

(* No bad text and no missing member is passed over in silence, but for    *)
(* what the value returned tells of the last one and the words of up to    *)
(* two characters that are read as no bytes.                               *)
THEOREM HearsRefusal == YamlSpec => []RefusalHeard
<1>1. YamlIInv => RefusalHeard
  <2> SUFFICES ASSUME YamlIInv PROVE RefusalHeard
    OBVIOUS
  <2>1. shape \in Seq([kind : MemberKinds, N : Nat])
    BY YamlAssumption DEF YamlIInv, YamlTypeOK
  <2>2. Len(shape) \in Nat /\ DOMAIN shape = 1 .. Len(shape)
    BY <2>1, LenProperties
  <2>3. m \in 1 .. Len(shape) + 1
    BY DEF YamlIInv, YamlTypeOK
  <2>4. ASSUME NEW n \in 1 .. m - 1
        PROVE  MemberDecoded(nodes[n], shape[n], before[n], object[n])
    <3>1. n \in DOMAIN shape /\ n < m
      BY <2>2, <2>3
    <3> QED BY <3>1 DEF YamlIInv, MembersDecoded
  <2>5. status = "done" => decoded = RightKind(nodes[m - 1], shape[m - 1])
    BY DEF YamlIInv, LastHeard
  <2> QED BY <2>4, <2>5 DEF RefusalHeard, MemberDecoded
<1> QED BY <1>1, YamlInvariance, PTL

(* Texts of whatever length are read and written within bounds, but for    *)
(* the bitlist without a byte.                                             *)
THEOREM StaysInBounds == YamlSpec => []NoOverrun
BY YamlInvariance, PTL DEF YamlIInv

-----------------------------------------------------------------------------
(* A bitlist in a document.                                                *)

(* What read_bitlist reads from any bytes is written as these bytes, but   *)
(* for a last one that is 0: it becomes the sentinel.                      *)
LEMMA ReadEncoded ==
    ASSUME kind = "bitlist", NEW n \in Nat \ {0},
           bytes \in [0 .. n - 1 -> Byte], bits = read_bitlist
    PROVE  Encoding = [b \in 0 .. n - 1 |->
                          IF b = n - 1 /\ bytes[b] = {} THEN {0} ELSE bytes[b]]
<1> DEFINE q == n - 1
           w == CHAR_BIT * q
           last == bytes[q]
           h == HighestBit(last)
           r == IF last = {} THEN 0 ELSE h
           front == Unpacked(q)
           back == BelowHighest(last)
<1>1. CHAR_BIT \in Nat \ {0} /\ q \in Nat /\ w \in Nat
  BY BitlistAssumption
<1>2. Length = n
  <2>1. DOMAIN bytes = 0 .. n - 1 /\ 0 \in Int /\ n - 1 \in Int
    OBVIOUS
  <2>2. Cardinality(0 .. n - 1) = IF 0 > n - 1 THEN 0 ELSE (n - 1) - 0 + 1
    BY <2>1, FS_Interval
  <2>3. Cardinality(0 .. n - 1) = n
    BY <2>2
  <2> QED BY <2>1, <2>3 DEF Length
<1>3. bits = front \o back
  BY <1>2 DEF read_bitlist
<1>4. last \in Byte /\ last \subseteq 0 .. CHAR_BIT - 1
  BY <1>1 DEF Byte
<1> HIDE DEF last
<1>5. last # {} => h \in last /\ \A y \in last : y <= h
  <2> SUFFICES ASSUME last # {} PROVE h \in last /\ \A y \in last : y <= h
    OBVIOUS
  <2>1. \E x \in last : \A y \in last : x >= y
    BY <1>4, HighestExists
  <2>2. h = Max(last)
    BY DEF HighestBit
  <2>3. h \in last /\ \A y \in last : h >= y
    BY <2>1, <2>2 DEF Max
  <2> HIDE DEF h
  <2> QED BY <1>1, <1>4, <2>3
<1>6. r \in 0 .. CHAR_BIT - 1 /\ back = [p \in 1 .. r |-> p - 1 \in last]
  <2>1. CASE last # {}
    <3> HIDE DEF h
    <3> QED BY <1>4, <1>5, <2>1 DEF BelowHighest, h
  <2>2. CASE last = {}
    <3>1. h = -1 /\ r = 0
      BY <2>2 DEF HighestBit
    <3>2. 1 .. h = {} /\ 1 .. r = {}
      BY <3>1
    <3> HIDE DEF h, r
    <3>3. [p \in 1 .. h |-> p - 1 \in last] = [p \in 1 .. r |-> p - 1 \in last]
      BY <3>2
    <3> QED BY <1>1, <3>1, <3>3 DEF BelowHighest, h
  <2> QED BY <2>1, <2>2
<1> HIDE DEF h, r
<1>7. back \in Seq(BOOLEAN) /\ Len(back) = r
  <2>1. r \in Nat /\ back \in [1 .. r -> BOOLEAN]
    BY <1>6
  <2> HIDE DEF back
  <2> QED BY <2>1
<1>8. front = [p \in 1 .. w |-> (p - 1) % CHAR_BIT
                                   \in bytes[(p - 1) \div CHAR_BIT]]
  BY DEF Unpacked
<1>9. front \in Seq(BOOLEAN) /\ Len(front) = w
  <2>1. front \in [1 .. w -> BOOLEAN]
    BY DEF Unpacked
  <2> HIDE DEF front, w
  <2> QED BY <1>1, <2>1
<1> HIDE DEF front, back
<1>10. /\ Len(bits) = w + r
       /\ \A p \in 1 .. w + r :
             bits[p] = IF p <= w THEN front[p] ELSE back[p - w]
  <2>1. /\ Len(front \o back) = Len(front) + Len(back)
        /\ \A i \in 1 .. Len(front) + Len(back) :
              (front \o back)[i] = IF i <= Len(front) THEN front[i]
                                   ELSE back[i - Len(front)]
    BY <1>7, <1>9, ConcatProperties
  <2> QED BY <1>3, <1>7, <1>9, <2>1
<1>11. Len(bits) \div CHAR_BIT = q /\ Len(bits) % CHAR_BIT = r
  BY <1>1, <1>6, <1>10, Quotient
<1>12. buffer_size = n
  <2>1. q + 1 = n
    OBVIOUS
  <2> HIDE DEF q
  <2> QED BY <1>11, <2>1 DEF buffer_size
<1>13. ASSUME NEW b \in 0 .. n - 1, b # q
       PROVE  Packed(b) = bytes[b]
  <2>1. b \in Nat /\ b + 1 <= q /\ bytes[b] \subseteq 0 .. CHAR_BIT - 1
    BY <1>13 DEF Byte
  <2>2. CHAR_BIT * b \in Nat /\ CHAR_BIT * b + CHAR_BIT <= w
    <3>1. CHAR_BIT * (b + 1) = CHAR_BIT * b + CHAR_BIT /\ CHAR_BIT * b \in Nat
      BY <1>1, <2>1
    <3>2. CHAR_BIT * (b + 1) <= CHAR_BIT * q
      BY <1>1, <2>1
    <3> QED BY <3>1, <3>2
  <2> HIDE DEF w, q
  <2>3. ASSUME NEW j \in 0 .. CHAR_BIT - 1
        PROVE  BitAt(b, j) <=> j \in bytes[b]
    <3> DEFINE x == CHAR_BIT * b + j
    <3>1. x \in Nat /\ x < w /\ x + 1 \in 1 .. w /\ (x + 1) - 1 = x
      BY <1>1, <2>2
    <3>2. x \div CHAR_BIT = b /\ x % CHAR_BIT = j
      BY <1>1, <2>1, Quotient
    <3> HIDE DEF x
    <3>3. x < w + r /\ x + 1 \in 1 .. w + r /\ x + 1 <= w
      BY <1>1, <1>6, <3>1
    <3>4. bits[x + 1] = (j \in bytes[b])
      BY <1>8, <1>10, <3>1, <3>2, <3>3
    <3>5. BitAt(b, j) = (x < Len(bits) /\ bits[x + 1])
      BY DEF BitAt, x
    <3> QED BY <1>10, <3>3, <3>4, <3>5
  <2> QED BY <2>1, <2>3 DEF Packed
<1>14. Packed(q) \cup {r} = IF last = {} THEN {0} ELSE last
  <2> HIDE DEF w, q
  <2>1. ASSUME NEW j \in 0 .. CHAR_BIT - 1
        PROVE  BitAt(q, j) <=> j < r /\ j \in last
    <3>1. w + j < w + r <=> j < r
      BY <1>1, <1>6
    <3>2. ASSUME j < r
          PROVE  bits[w + j + 1] = (j \in last)
      <4>1. w + j + 1 \in 1 .. w + r /\ ~(w + j + 1 <= w)
        BY <1>1, <1>6, <3>2
      <4>2. (w + j + 1) - w = j + 1 /\ j + 1 \in 1 .. r /\ (j + 1) - 1 = j
        BY <1>1, <1>6, <3>2
      <4>3. bits[w + j + 1] = back[j + 1]
        BY <1>10, <4>1, <4>2
      <4> QED BY <1>6, <4>2, <4>3
    <3>3. BitAt(q, j) = (w + j < Len(bits) /\ bits[w + j + 1])
      BY DEF BitAt, w
    <3> QED BY <1>10, <3>1, <3>2, <3>3
  <2>2. Packed(q) = {j \in 0 .. CHAR_BIT - 1 : j < r /\ j \in last}
    BY <2>1 DEF Packed
  <2>3. CASE last = {}
    BY <2>2, <2>3 DEF r
  <2>4. CASE last # {}
    <3>1. r = h
      BY <2>4 DEF r
    <3>2. \A j \in last : j \in 0 .. CHAR_BIT - 1 /\ (j < r \/ j = r)
      BY <1>4, <1>5, <1>6, <2>4, <3>1
    <3> QED BY <1>5, <2>2, <2>4, <3>1, <3>2
  <2> QED BY <2>3, <2>4
<1>15. Encoding = [b \in 0 .. n - 1 |-> IF b = q THEN Packed(b) \cup {r}
                                                ELSE Packed(b)]
  BY <1>11, <1>12 DEF Encoding
<1> QED
  <2>1. \A b \in 0 .. n - 1 :
           (IF b = q THEN Packed(b) \cup {r} ELSE Packed(b))
              = IF b = n - 1 /\ bytes[b] = {} THEN {0} ELSE bytes[b]
    BY <1>13, <1>14 DEF last
  <2> QED BY <1>15, <2>1

(* The bits of a digit, and of the bytes of a text as Bitlist has them.    *)
DigitBits(d) == {j \in 0 .. 3 : (d \div <<1, 2, 4, 8>>[j + 1]) % 2 = 1}
BitsOf(byte) == DigitBits(byte[2]) \cup {j + 4 : j \in DigitBits(byte[1])}
AsBytes(read) == [b \in 0 .. Len(read) - 1 |-> BitsOf(read[b + 1])]

(* 0 is the only digit without a bit.                                      *)
LEMMA DigitBitsZero ==
    /\ DigitBits(0) = {} /\ DigitBits(1) = {0}
    /\ \A d \in Digit : DigitBits(d) = {} => d = 0
<1> DEFINE W == <<1, 2, 4, 8>>
<1>1. W[1] = 1 /\ W[2] = 2 /\ W[3] = 4 /\ W[4] = 8
  OBVIOUS
<1>2. \A d \in Digit, j \in 0 .. 3 :
         j \in DigitBits(d) <=> \/ j = 0 /\ (d \div 1) % 2 = 1
                                \/ j = 1 /\ (d \div 2) % 2 = 1
                                \/ j = 2 /\ (d \div 4) % 2 = 1
                                \/ j = 3 /\ (d \div 8) % 2 = 1
  <2> SUFFICES ASSUME NEW d \in Digit, NEW j \in 0 .. 3
               PROVE  (d \div W[j + 1]) % 2 = 1
                         <=> \/ j = 0 /\ (d \div 1) % 2 = 1
                             \/ j = 1 /\ (d \div 2) % 2 = 1
                             \/ j = 2 /\ (d \div 4) % 2 = 1
                             \/ j = 3 /\ (d \div 8) % 2 = 1
    BY DEF DigitBits
  <2>1. j = 0 \/ j = 1 \/ j = 2 \/ j = 3
    OBVIOUS
  <2> HIDE DEF W
  <2> QED BY <1>1, <2>1
<1>3. \A d \in Digit : DigitBits(d) \subseteq 0 .. 3
  BY DEF DigitBits
<1>4. ASSUME NEW d \in Digit, d # 0
      PROVE  \/ (d \div 1) % 2 = 1 \/ (d \div 2) % 2 = 1
             \/ (d \div 4) % 2 = 1 \/ (d \div 8) % 2 = 1
  BY <1>4 DEF Digit
<1>5. \A d \in Digit : DigitBits(d) = {} => d = 0
  BY <1>2, <1>4
<1>6. /\ 0 \in Digit /\ (0 \div 1) % 2 = 0 /\ (0 \div 2) % 2 = 0
      /\ (0 \div 4) % 2 = 0 /\ (0 \div 8) % 2 = 0
      /\ 1 \in Digit /\ (1 \div 1) % 2 = 1 /\ (1 \div 2) % 2 = 0
      /\ (1 \div 4) % 2 = 0 /\ (1 \div 8) % 2 = 0
  BY DEF Digit
<1>7. DigitBits(0) = {} /\ DigitBits(1) = {0}
  BY <1>2, <1>3, <1>6
<1> QED BY <1>5, <1>7

(* 0 is the only byte without a bit, and the sentinel of a byte of its own *)
(* is the byte 1.                                                          *)
LEMMA BitsOfByte ==
    /\ \A byte \in HexByte : BitsOf(byte) \subseteq 0 .. 7
    /\ \A byte \in HexByte : BitsOf(byte) = {} <=> byte = <<0, 0>>
    /\ BitsOf(<<0, 1>>) = {0}
<1>1. \A d \in Digit : DigitBits(d) \subseteq 0 .. 3
  BY DEF DigitBits
<1>2. \A byte \in HexByte : /\ byte[1] \in Digit /\ byte[2] \in Digit
                            /\ byte = <<byte[1], byte[2]>>
  BY DEF HexByte
<1>3. \A byte \in HexByte : BitsOf(byte) \subseteq 0 .. 7
  <2> SUFFICES ASSUME NEW byte \in HexByte, NEW j \in BitsOf(byte)
               PROVE  j \in 0 .. 7
    OBVIOUS
  <2>1. \/ j \in DigitBits(byte[2])
        \/ \E i \in DigitBits(byte[1]) : j = i + 4
    BY DEF BitsOf
  <2>2. j \in 0 .. 3 \/ \E i \in 0 .. 3 : j = i + 4
    BY <1>1, <1>2, <2>1
  <2> QED BY <2>2
<1>4. \A byte \in HexByte : BitsOf(byte) = {} <=> byte = <<0, 0>>
  <2> SUFFICES ASSUME NEW byte \in HexByte
               PROVE  BitsOf(byte) = {} <=> byte = <<0, 0>>
    OBVIOUS
  <2>1. BitsOf(byte) = {}
           <=> DigitBits(byte[2]) = {} /\ DigitBits(byte[1]) = {}
    BY DEF BitsOf
  <2>2. DigitBits(byte[2]) = {} /\ DigitBits(byte[1]) = {}
           <=> byte[2] = 0 /\ byte[1] = 0
    BY <1>2, DigitBitsZero
  <2>3. byte[2] = 0 /\ byte[1] = 0 <=> byte = <<0, 0>>
    BY <1>2
  <2> QED BY <2>1, <2>2, <2>3
<1>5. BitsOf(<<0, 1>>) = {0}
  BY DigitBitsZero DEF BitsOf
<1> QED BY <1>3, <1>4, <1>5

(* The bytes that a bitlist is decoded to are those it is serialized to:   *)
(* what YamlDecode says of the text of a bitlist (BitlistOf) is what       *)
(* read_bitlist of Bitlist reads from its bytes, whatever they are, and    *)
(* serialize writes again.                                                 *)
THEOREM DecodedBitlist ==
    ASSUME CHAR_BIT = 8, kind = "bitlist",
           NEW read \in Seq(HexByte), read # <<>>,
           bytes = AsBytes(read), bits = read_bitlist
    PROVE  Encoding = AsBytes(BitlistOf(read))
<1> DEFINE n == Len(read)
           seal == <<<<0, 1>>>>
           front == Front(read)
<1>1. n \in Nat \ {0}
  BY EmptySeq
<1>2. \A b \in 0 .. n - 1 : b + 1 \in 1 .. Len(read)
  BY <1>1
<1>3. \A b \in 0 .. n - 1 : read[b + 1] \in HexByte
  BY <1>2, ElementOfSeq
<1>4. Byte = SUBSET (0 .. 7)
  BY DEF Byte
<1>5. bytes \in [0 .. n - 1 -> Byte]
  BY <1>3, <1>4, BitsOfByte DEF AsBytes
<1>6. Encoding = [b \in 0 .. n - 1 |->
                     IF b = n - 1 /\ bytes[b] = {} THEN {0} ELSE bytes[b]]
  BY <1>1, <1>5, ReadEncoded
<1>7. \A b \in 0 .. n - 1 :
         /\ bytes[b] = BitsOf(read[b + 1])
         /\ bytes[b] = {} <=> read[b + 1] = <<0, 0>>
  BY <1>3, BitsOfByte DEF AsBytes
<1>8. Last(read) = read[n] /\ (n - 1) + 1 = n
  BY <1>1 DEF Last
<1>9. CASE Last(read) # <<0, 0>>
  <2>1. BitlistOf(read) = read
    BY <1>9 DEF BitlistOf
  <2>2. \A b \in 0 .. n - 1 :
           (IF b = n - 1 /\ bytes[b] = {} THEN {0} ELSE bytes[b])
              = BitsOf(read[b + 1])
    BY <1>7, <1>8, <1>9
  <2> QED BY <1>6, <2>1, <2>2 DEF AsBytes
<1>10. CASE Last(read) = <<0, 0>>
  <2> DEFINE sealed == front \o seal
  <2>1. BitlistOf(read) = sealed
    BY <1>10 DEF BitlistOf
  <2>2. /\ front \in Seq(HexByte) /\ Len(front) = n - 1
        /\ \A b \in 1 .. n - 1 : front[b] = read[b]
    <3>1. front = SubSeq(read, 1, n - 1)
      BY DEF Front
    <3>2. \A i \in 1 .. n - 1 : read[i] \in HexByte
      BY <1>1, ElementOfSeq
    <3>3. 1 \in Int /\ n - 1 \in Int
      BY <1>1
    <3> HIDE DEF n, front
    <3>4. /\ SubSeq(read, 1, n - 1) \in Seq(HexByte)
          /\ Len(SubSeq(read, 1, n - 1))
                = IF 1 <= n - 1 THEN (n - 1) - 1 + 1 ELSE 0
          /\ \A i \in 1 .. (n - 1) - 1 + 1 :
                SubSeq(read, 1, n - 1)[i] = read[1 + i - 1]
      BY <3>2, <3>3, SubSeqProperties
    <3>5. /\ (n - 1) - 1 + 1 = n - 1
          /\ (IF 1 <= n - 1 THEN (n - 1) - 1 + 1 ELSE 0) = n - 1
          /\ \A i \in 1 .. n - 1 : 1 + i - 1 = i
      BY <1>1
    <3> QED BY <3>1, <3>4, <3>5
  <2>3. seal \in Seq(HexByte) /\ Len(seal) = 1 /\ seal[1] = <<0, 1>>
    BY DEF HexByte, Digit
  <2> HIDE DEF n, front, seal
  <2>4. /\ Len(sealed) = Len(front) + Len(seal)
        /\ \A i \in 1 .. Len(front) + Len(seal) :
              sealed[i] = IF i <= Len(front) THEN front[i]
                          ELSE seal[i - Len(front)]
    BY <2>2, <2>3, ConcatProperties
  <2>5. /\ Len(sealed) = n
        /\ \A i \in 1 .. n : sealed[i] = IF i <= n - 1 THEN read[i]
                                         ELSE <<0, 1>>
    <3>1. (n - 1) + 1 = n /\ \A i \in 1 .. n : ~(i <= n - 1) => i - (n - 1) = 1
      BY <1>1
    <3> HIDE DEF sealed
    <3>2. Len(sealed) = n
      BY <2>2, <2>3, <2>4, <3>1
    <3>3. ASSUME NEW i \in 1 .. n
          PROVE  sealed[i] = IF i <= n - 1 THEN read[i] ELSE <<0, 1>>
      <4>1. sealed[i] = IF i <= n - 1 THEN front[i] ELSE seal[i - (n - 1)]
        BY <2>2, <2>3, <2>4, <3>1
      <4>2. i <= n - 1 => i \in 1 .. n - 1
        BY <1>1
      <4> QED BY <2>2, <2>3, <3>1, <4>1, <4>2
    <3> QED BY <3>2, <3>3
  <2> HIDE DEF sealed
  <2>6. ASSUME NEW b \in 0 .. n - 1
        PROVE  (IF b = n - 1 /\ bytes[b] = {} THEN {0} ELSE bytes[b])
                  = BitsOf(sealed[b + 1])
    <3>1. b + 1 \in 1 .. n /\ (b + 1 <= n - 1 <=> b # n - 1)
      BY <1>1
    <3>2. CASE b # n - 1
      BY <1>7, <2>5, <3>1, <3>2
    <3>3. CASE b = n - 1
      <4>1. bytes[b] = {}
        BY <1>7, <1>8, <1>10, <3>3
      <4>2. sealed[b + 1] = <<0, 1>>
        BY <2>5, <3>1, <3>3
      <4> QED BY <3>3, <4>1, <4>2, BitsOfByte
    <3> QED BY <3>2, <3>3
  <2>7. AsBytes(sealed) = [b \in 0 .. n - 1 |-> BitsOf(sealed[b + 1])]
    BY <2>5 DEF AsBytes
  <2> QED BY <1>6, <2>1, <2>6, <2>7
<1> QED BY <1>9, <1>10

=============================================================================
