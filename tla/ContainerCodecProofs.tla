----------------------- MODULE ContainerCodecProofs ------------------------
(***************************************************************************)
(* The safety of ContainerCodec, for every container, every earlier value  *)
(* of the target and every width of the offsets.                           *)
(***************************************************************************)
EXTENDS ContainerCodec, FiniteSetTheorems, SequenceTheorems, TLAPS

(* What a byte of a buffer or a member may be.                             *)
Byte == {Zero, Stale} \cup [member : Nat, byte : Nat] \cup [word : Nat, byte : Nat]

L == Len(shape)

(* The sizes of the fixed parts and of the lists among the first n         *)
(* members, and how many lists there are.                                  *)
Fixeds[n \in Nat] ==
    IF n = 0 THEN 0 ELSE Fixeds[n - 1] + size_or_placeholder(n)
Lists[n \in Nat] ==
    IF n = 0 THEN 0 ELSE Lists[n - 1] + (IF Fixed(n) THEN 0 ELSE size(n))
Count[n \in Nat] ==
    IF n = 0 THEN 0 ELSE Count[n - 1] + (IF Fixed(n) THEN 0 ELSE 1)

AddFixed(n, v)  == v + size_or_placeholder(n)
AddList(n, v)   == v + (IF Fixed(n) THEN 0 ELSE size(n))
AddOne(n, v)    == v + (IF Fixed(n) THEN 0 ELSE 1)
AddFixed32(n, v) == (v + size_or_placeholder(n)) % UINT32_VALUES
AddTotal32(n, v) == (v + size_plus_placeholder(n)) % UINT32_VALUES

FixedSum == INSTANCE NatRecursion WITH Base <- 0, Succ <- AddFixed
ListSum  == INSTANCE NatRecursion WITH Base <- 0, Succ <- AddList
ListCount == INSTANCE NatRecursion WITH Base <- 0, Succ <- AddOne
FixedSum32 == INSTANCE NatRecursion WITH Base <- 0, Succ <- AddFixed32
TotalSum32 == INSTANCE NatRecursion WITH Base <- 0, Succ <- AddTotal32

-----------------------------------------------------------------------------
(* Sequences of bytes.                                                     *)

(* A function on 1 .. n is a sequence.                                     *)
LEMMA FunctionIsSeq ==
    ASSUME NEW T, NEW n \in Nat, NEW f, DOMAIN f = 1 .. n,
           f = [i \in DOMAIN f |-> f[i]], \A i \in 1 .. n : f[i] \in T
    PROVE  f \in Seq(T) /\ Len(f) = n
<1>1. f \in [1 .. n -> T]
  OBVIOUS
<1> QED BY <1>1

(* Where FlattenSeq puts each sequence, if c[i] is the length of the first *)
(* i of them.                                                              *)
LEMMA Flattened ==
    ASSUME NEW T, NEW n \in Nat, NEW s \in [1 .. n -> Seq(T)],
           NEW c, ListSum!AreLengths(c, s, n)
    PROVE  ListSum!AreFlat(FlattenSeq(s), s, c, n, T)
<1>1. FlattenSeq(s) = ListSum!Joined(s)
  BY DEF FlattenSeq, ListSum!Joined, ListSum!IsJoined
<1> QED BY <1>1, ListSum!JoinedFlat

-----------------------------------------------------------------------------
(* The sums.                                                               *)

(* The members are sequences of bytes.                                     *)
IsContainer == shape \in Shapes /\ source \in [Members -> Seq(Byte)]

LEMMA Shape ==
    ASSUME IsContainer
    PROVE  /\ L \in Nat /\ Members = 1 .. L
           /\ \A n \in Members : /\ source[n] \in Seq(Byte) /\ size(n) \in Nat
                                 /\ shape[n] \in {"array", "vector", "list"}
<1>1. shape \in Seq({"array", "vector", "list"})
  BY CodecAssumption DEF IsContainer
<1>2. \A n \in Members : source[n] \in Seq(Byte)
  BY DEF IsContainer
<1> QED BY <1>1, <1>2 DEF L, Members, size

(* The recursive functions satisfy their equations.                        *)
LEMMA SumsUnfold ==
    ASSUME NEW n \in Nat
    PROVE  /\ Fixeds[n] = IF n = 0 THEN 0 ELSE AddFixed(n, Fixeds[n - 1])
           /\ Lists[n] = IF n = 0 THEN 0 ELSE AddList(n, Lists[n - 1])
           /\ Count[n] = IF n = 0 THEN 0 ELSE AddOne(n, Count[n - 1])
           /\ fixed_length[n] =
                 IF n = 0 THEN 0 ELSE AddFixed32(n, fixed_length[n - 1])
           /\ total_length[n] =
                 IF n = 0 THEN 0 ELSE AddTotal32(n, total_length[n - 1])
<1>1. Fixeds = FixedSum!rec
  BY DEF Fixeds, FixedSum!rec, AddFixed
<1>2. Lists = ListSum!rec
  BY DEF Lists, ListSum!rec, AddList
<1>3. Count = ListCount!rec
  BY DEF Count, ListCount!rec, AddOne
<1>4. fixed_length = FixedSum32!rec
  BY DEF fixed_length, FixedSum32!rec, AddFixed32
<1>5. total_length = TotalSum32!rec
  BY DEF total_length, TotalSum32!rec, AddTotal32
<1>6. Fixeds[n] = IF n = 0 THEN 0 ELSE AddFixed(n, Fixeds[n - 1])
  BY <1>1, FixedSum!RecursionUnfolds
<1>7. Lists[n] = IF n = 0 THEN 0 ELSE AddList(n, Lists[n - 1])
  BY <1>2, ListSum!RecursionUnfolds
<1>8. Count[n] = IF n = 0 THEN 0 ELSE AddOne(n, Count[n - 1])
  BY <1>3, ListCount!RecursionUnfolds
<1>9. fixed_length[n] = IF n = 0 THEN 0 ELSE AddFixed32(n, fixed_length[n - 1])
  BY <1>4, FixedSum32!RecursionUnfolds
<1>10. total_length[n] = IF n = 0 THEN 0 ELSE AddTotal32(n, total_length[n - 1])
  BY <1>5, TotalSum32!RecursionUnfolds
<1> QED BY <1>6, <1>7, <1>8, <1>9, <1>10

(* What a member adds to the sums.                                         *)
LEMMA NextSum ==
    ASSUME IsContainer, NEW n \in Members
    PROVE  /\ Fixeds[n] = Fixeds[n - 1] + size_or_placeholder(n)
           /\ Lists[n] = Lists[n - 1] + (IF Fixed(n) THEN 0 ELSE size(n))
           /\ Count[n] = Count[n - 1] + (IF Fixed(n) THEN 0 ELSE 1)
           /\ size_or_placeholder(n) \in Nat
           /\ n \in Nat /\ n - 1 \in 0 .. L /\ n \in 0 .. L
<1>1. n \in Nat /\ n # 0 /\ n - 1 \in 0 .. L /\ n \in 0 .. L
  BY Shape
<1>2. size_or_placeholder(n) \in Nat
  BY Shape, CodecAssumption DEF size_or_placeholder
<1> QED BY <1>1, <1>2, SumsUnfold DEF AddFixed, AddList, AddOne

(* The sums are natural numbers that grow from member to member, the lists *)
(* only where there is one.                                                *)
LEMMA SumsGrow ==
    ASSUME IsContainer, NEW n \in 0 .. L
    PROVE  /\ Fixeds[n] \in Nat /\ Lists[n] \in Nat /\ Count[n] \in Nat
           /\ \A i \in 0 .. n :
                 /\ Fixeds[i] <= Fixeds[n]
                 /\ Lists[i] <= Lists[n]
                 /\ Count[i] <= Count[n]
                 /\ Count[i] = Count[n] => Lists[i] = Lists[n]
<1> DEFINE P(d) == /\ Fixeds[d] \in Nat /\ Lists[d] \in Nat /\ Count[d] \in Nat
                   /\ \A i \in 0 .. d :
                         /\ Fixeds[i] \in Nat /\ Lists[i] \in Nat /\ Count[i] \in Nat
                         /\ Fixeds[i] <= Fixeds[d]
                         /\ Lists[i] <= Lists[d]
                         /\ Count[i] <= Count[d]
                         /\ Count[i] = Count[d] => Lists[i] = Lists[d]
           S == {d \in Nat : d <= L => P(d)}
<1>1. 0 \in S
  <2>1. Fixeds[0] = 0 /\ Lists[0] = 0 /\ Count[0] = 0
    BY SumsUnfold
  <2>2. \A i \in 0 .. 0 : i = 0
    OBVIOUS
  <2>3. P(0)
    BY <2>1, <2>2
  <2> QED BY <2>3
<1>2. ASSUME NEW d \in Nat, d \in S PROVE d + 1 \in S
  <2> SUFFICES ASSUME d + 1 <= L PROVE P(d + 1)
    OBVIOUS
  <2>1. P(d)
    BY <1>2, Shape
  <2>2. d + 1 \in Members /\ (d + 1) - 1 = d
    BY Shape
  <2> DEFINE f == size_or_placeholder(d + 1)
             l == IF Fixed(d + 1) THEN 0 ELSE size(d + 1)
             o == IF Fixed(d + 1) THEN 0 ELSE 1
  <2>3. /\ Fixeds[d + 1] = Fixeds[d] + f /\ Lists[d + 1] = Lists[d] + l
        /\ Count[d + 1] = Count[d] + o /\ f \in Nat
    BY <2>2, NextSum
  <2>4. l \in Nat /\ o \in Nat /\ (o = 0 => l = 0)
    BY <2>2, Shape
  <2> HIDE DEF f, l, o
  <2>5. ASSUME NEW i \in 0 .. d + 1
        PROVE  /\ Fixeds[i] \in Nat /\ Lists[i] \in Nat /\ Count[i] \in Nat
               /\ Fixeds[i] <= Fixeds[d + 1]
               /\ Lists[i] <= Lists[d + 1]
               /\ Count[i] <= Count[d + 1]
               /\ Count[i] = Count[d + 1] => Lists[i] = Lists[d + 1]
    <3>1. CASE i = d + 1
      BY <2>1, <2>3, <2>4, <3>1
    <3>2. CASE i # d + 1
      <4>1. i \in 0 .. d
        BY <3>2
      <4>2. /\ Fixeds[i] \in Nat /\ Lists[i] \in Nat /\ Count[i] \in Nat
            /\ Fixeds[i] <= Fixeds[d] /\ Lists[i] <= Lists[d]
            /\ Count[i] <= Count[d] /\ (Count[i] = Count[d] => Lists[i] = Lists[d])
        BY <2>1, <4>1
      <4>3. Fixeds[d] \in Nat /\ Lists[d] \in Nat /\ Count[d] \in Nat
        BY <2>1
      <4> HIDE DEF P, S
      <4> QED BY <2>3, <2>4, <4>2, <4>3
    <3> QED BY <3>1, <3>2
  <2>6. Fixeds[d + 1] \in Nat /\ Lists[d + 1] \in Nat /\ Count[d + 1] \in Nat
    BY <2>1, <2>3, <2>4
  <2> QED BY <2>5, <2>6
<1>3. Nat \subseteq S
  <2> HIDE DEF S
  <2> QED BY <1>1, <1>2, ListSum!SetInduction
<1>4. n \in Nat /\ n <= L
  BY Shape
<1> QED BY <1>3, <1>4

-----------------------------------------------------------------------------
(* The encoding.                                                           *)

LEMMA WordIsSeq ==
    ASSUME NEW v \in Nat
    PROVE  Word(v) \in Seq(Byte) /\ Len(Word(v)) = BYTES_PER_LENGTH_OFFSET
<1>1. BYTES_PER_LENGTH_OFFSET \in Nat
  BY CodecAssumption
<1>2. \A j \in 1 .. BYTES_PER_LENGTH_OFFSET : Word(v)[j] \in Byte
  BY <1>1 DEF Word, Byte
<1>3. Word(v) = [j \in DOMAIN Word(v) |-> Word(v)[j]]
  BY DEF Word
<1>4. DOMAIN Word(v) = 1 .. BYTES_PER_LENGTH_OFFSET
  BY DEF Word
<1> HIDE DEF Word
<1> QED BY <1>1, <1>2, <1>3, <1>4, FunctionIsSeq

(* The fixed parts have the length the sum says and begin where the sums   *)
(* say, whatever the offsets are.                                          *)
FixedPart(n, offset) == IF Fixed(n) THEN source[n] ELSE Word(offset[n])

LEMMA FixedPartsAt ==
    ASSUME IsContainer, NEW offset, \A n \in Members : offset[n] \in Nat
    PROVE  /\ FixedParts(offset) \in Seq(Byte)
           /\ Len(FixedParts(offset)) = Fixeds[L]
           /\ \A n \in Members : \A j \in 1 .. size_or_placeholder(n) :
                 FixedParts(offset)[Fixeds[n - 1] + j] = FixedPart(n, offset)[j]
<1> DEFINE s == [n \in 1 .. L |-> FixedPart(n, offset)]
           c == [i \in 0 .. L |-> Fixeds[i]]
<1>1. L \in Nat /\ Members = 1 .. L
  BY Shape
<1>2. ASSUME NEW n \in 1 .. L
      PROVE  /\ s[n] = FixedPart(n, offset)
             /\ s[n] \in Seq(Byte) /\ Len(s[n]) = size_or_placeholder(n)
  BY <1>1, Shape, WordIsSeq DEF FixedPart, size_or_placeholder, size
<1>3. s \in [1 .. L -> Seq(Byte)]
  BY <1>2
<1>4. FixedParts(offset) = FlattenSeq(s)
  BY <1>1 DEF FixedParts, FixedPart
<1> HIDE DEF s
<1>5. \A i \in 0 .. L : c[i] = Fixeds[i] /\ Fixeds[i] \in Nat
  BY SumsGrow
<1>6. ASSUME NEW i \in 1 .. L
      PROVE  /\ c[i] = c[i - 1] + Len(s[i])
             /\ c[i - 1] = Fixeds[i - 1]
  BY <1>1, <1>2, <1>5, NextSum
<1>7. c[0] = 0 /\ c[L] = Fixeds[L]
  BY <1>1, SumsUnfold
<1>8. c \in [0 .. L -> Nat]
  BY <1>5
<1> HIDE DEF c
<1>9. ListSum!AreLengths(c, s, L)
  BY <1>6, <1>7, <1>8 DEF ListSum!AreLengths
<1>10. L \in Nat
  BY <1>1
<1>11. ListSum!AreFlat(FlattenSeq(s), s, c, L, Byte)
  BY <1>3, <1>9, <1>10, Flattened
<1>12. /\ FixedParts(offset) \in Seq(Byte) /\ Len(FixedParts(offset)) = c[L]
       /\ \A n \in 1 .. L : \A j \in 1 .. Len(s[n]) :
             FixedParts(offset)[c[n - 1] + j] = s[n][j]
  BY <1>4, <1>11 DEF ListSum!AreFlat
<1> HIDE DEF FixedParts
<1>13. ASSUME NEW n \in Members, NEW j \in 1 .. size_or_placeholder(n)
       PROVE  FixedParts(offset)[Fixeds[n - 1] + j] = FixedPart(n, offset)[j]
  <2>1. n \in 1 .. L
    BY <1>1
  <2>2. j \in 1 .. Len(s[n])
    BY <1>2, <2>1
  <2> QED BY <1>2, <1>6, <1>12, <2>1, <2>2
<1> QED BY <1>7, <1>12, <1>13

LEMMA VariablePartsAt ==
    ASSUME IsContainer, NEW n \in 0 .. L
    PROVE  /\ VariableParts(n) \in Seq(Byte)
           /\ Len(VariableParts(n)) = Lists[n]
           /\ \A i \in 1 .. n : ~Fixed(i) =>
                 \A j \in 1 .. size(i) :
                    VariableParts(n)[Lists[i - 1] + j] = source[i][j]
<1> DEFINE s == [i \in 1 .. n |-> IF Fixed(i) THEN <<>> ELSE source[i]]
           c == [i \in 0 .. n |-> Lists[i]]
<1>1. n \in Nat /\ (\A i \in 1 .. n : i \in Members) /\ \A i \in 0 .. n : i \in 0 .. L
  BY Shape
<1>2. ASSUME NEW i \in 1 .. n
      PROVE  /\ s[i] = IF Fixed(i) THEN <<>> ELSE source[i]
             /\ s[i] \in Seq(Byte)
             /\ Len(s[i]) = IF Fixed(i) THEN 0 ELSE size(i)
  BY <1>1, Shape DEF size
<1>3. s \in [1 .. n -> Seq(Byte)]
  BY <1>2
<1>4. VariableParts(n) = FlattenSeq(s)
  BY DEF VariableParts
<1> HIDE DEF s
<1>5. \A i \in 0 .. n : c[i] = Lists[i] /\ Lists[i] \in Nat
  BY <1>1, SumsGrow
<1>6. ASSUME NEW i \in 1 .. n
      PROVE  /\ c[i] = c[i - 1] + Len(s[i])
             /\ c[i - 1] = Lists[i - 1]
  <2>1. i \in 0 .. n /\ i - 1 \in 0 .. n
    BY <1>1
  <2> QED BY <1>1, <1>2, <1>5, <2>1, NextSum
<1>7. c[0] = 0 /\ c[n] = Lists[n]
  BY <1>1, SumsUnfold
<1>8. c \in [0 .. n -> Nat]
  BY <1>5
<1> HIDE DEF c
<1>9. ListSum!AreLengths(c, s, n)
  BY <1>6, <1>7, <1>8 DEF ListSum!AreLengths
<1>10. n \in Nat
  BY <1>1
<1>11. ListSum!AreFlat(FlattenSeq(s), s, c, n, Byte)
  BY <1>3, <1>9, <1>10, Flattened
<1>12. /\ VariableParts(n) \in Seq(Byte) /\ Len(VariableParts(n)) = c[n]
       /\ \A i \in 1 .. n : \A j \in 1 .. Len(s[i]) :
             VariableParts(n)[c[i - 1] + j] = s[i][j]
  BY <1>4, <1>11 DEF ListSum!AreFlat
<1> HIDE DEF VariableParts
<1>13. ASSUME NEW i \in 1 .. n, ~Fixed(i), NEW j \in 1 .. size(i)
       PROVE  VariableParts(n)[Lists[i - 1] + j] = source[i][j]
  <2>1. s[i] = source[i] /\ j \in 1 .. Len(s[i])
    BY <1>2, <1>13
  <2> QED BY <1>6, <1>12, <2>1
<1> QED BY <1>7, <1>12, <1>13

(* Where a member's list, and the offset of it, lead.                      *)
ListAt(n) == Fixeds[L] + Lists[n - 1]

(* The encoding: its length, and what stands where.                        *)
EncodingIs(code) ==
    /\ code \in Seq(Byte) /\ Len(code) = Fixeds[L] + Lists[L]
    /\ \A n \in Members :
          /\ Fixed(n) => \A j \in 1 .. size(n) :
                            code[Fixeds[n - 1] + j] = source[n][j]
          /\ ~Fixed(n) => /\ \A j \in 1 .. BYTES_PER_LENGTH_OFFSET :
                                code[Fixeds[n - 1] + j] = Word(ListAt(n))[j]
                          /\ \A j \in 1 .. size(n) :
                                code[ListAt(n) + j] = source[n][j]

LEMMA EncodingLayout ==
    ASSUME IsContainer
    PROVE  FixedLength = Fixeds[L] /\ EncodingIs(Encoding)
<1>1. FixedLength = Fixeds[L]
  BY FixedPartsAt DEF FixedLength
<1> DEFINE offset == [n \in Members |-> FixedLength + Len(VariableParts(n - 1))]
           f == FixedParts(offset)
           v == VariableParts(L)
<1>2. L \in Nat /\ Members = 1 .. L /\ L \in 0 .. L
  BY Shape
<1>3. ASSUME NEW n \in Members PROVE offset[n] = ListAt(n) /\ offset[n] \in Nat
  <2>1. n - 1 \in 0 .. L
    BY <1>2
  <2>2. Len(VariableParts(n - 1)) = Lists[n - 1]
    BY <2>1, VariablePartsAt
  <2>3. Fixeds[L] \in Nat /\ Lists[n - 1] \in Nat
    BY <1>2, <2>1, SumsGrow
  <2> QED BY <1>1, <2>2, <2>3 DEF ListAt
<1>4. Encoding = f \o v
  BY DEF Encoding, L
<1> HIDE DEF offset
<1>5. /\ f \in Seq(Byte) /\ Len(f) = Fixeds[L]
      /\ \A n \in Members : \A j \in 1 .. size_or_placeholder(n) :
            f[Fixeds[n - 1] + j] = FixedPart(n, offset)[j]
  BY <1>3, FixedPartsAt
<1>6. /\ v \in Seq(Byte) /\ Len(v) = Lists[L]
      /\ \A n \in Members : ~Fixed(n) =>
            \A j \in 1 .. size(n) : v[Lists[n - 1] + j] = source[n][j]
  BY <1>2, VariablePartsAt
<1> HIDE DEF f, v
<1>7. /\ f \o v \in Seq(Byte)
      /\ Len(f \o v) = Len(f) + Len(v)
      /\ \A p \in 1 .. Len(f) + Len(v) :
            (f \o v)[p] = IF p <= Len(f) THEN f[p] ELSE v[p - Len(f)]
  BY <1>5, <1>6, ConcatProperties
<1> DEFINE F == Fixeds[L]
           S == Lists[L]
<1>8. F \in Nat /\ S \in Nat
  BY <1>2, SumsGrow
<1>9. \A p \in 1 .. F + S : Encoding[p] = IF p <= F THEN f[p] ELSE v[p - F]
  BY <1>4, <1>5, <1>6, <1>7
<1>10. Encoding \in Seq(Byte) /\ Len(Encoding) = F + S
  BY <1>4, <1>5, <1>6, <1>7
<1>11. ASSUME NEW n \in Members, NEW j \in 1 .. size_or_placeholder(n)
       PROVE  Encoding[Fixeds[n - 1] + j] = FixedPart(n, offset)[j]
  <2> DEFINE p == Fixeds[n - 1] + j
  <2>1. /\ Fixeds[n - 1] \in Nat /\ Fixeds[n] \in Nat /\ Fixeds[n] <= F
        /\ Fixeds[n] = Fixeds[n - 1] + size_or_placeholder(n)
        /\ size_or_placeholder(n) \in Nat
    BY <1>2, NextSum, SumsGrow
  <2>2. p \in 1 .. F + S /\ p <= F
    BY <1>8, <2>1
  <2> HIDE DEF F, S
  <2>3. f[p] = FixedPart(n, offset)[j]
    BY <1>5
  <2> HIDE DEF p
  <2>4. Encoding[p] = FixedPart(n, offset)[j]
    BY <1>9, <2>2, <2>3
  <2> QED BY <2>4 DEF p
<1>12. ASSUME NEW n \in Members, ~Fixed(n), NEW j \in 1 .. size(n)
       PROVE  Encoding[ListAt(n) + j] = source[n][j]
  <2> DEFINE p == ListAt(n) + j
             q == Lists[n - 1] + j
  <2>1. /\ Lists[n - 1] \in Nat /\ Lists[n] \in Nat /\ Lists[n] <= S
        /\ Lists[n] = Lists[n - 1] + size(n)
        /\ size(n) \in Nat
    BY <1>2, <1>12, NextSum, SumsGrow, Shape
  <2>2. p \in 1 .. F + S /\ ~(p <= F) /\ p - F = q
    BY <1>8, <2>1 DEF ListAt
  <2>3. v[q] = source[n][j]
    BY <1>6, <1>12
  <2> HIDE DEF p, q, F, S
  <2>4. Encoding[p] = source[n][j]
    BY <1>9, <2>2, <2>3
  <2> QED BY <2>4 DEF p
<1>13. ASSUME NEW n \in Members
       PROVE  /\ Fixed(n) => FixedPart(n, offset) = source[n]
                             /\ size_or_placeholder(n) = size(n)
              /\ ~Fixed(n) => FixedPart(n, offset) = Word(ListAt(n))
                              /\ size_or_placeholder(n) = BYTES_PER_LENGTH_OFFSET
  BY <1>3 DEF FixedPart, size_or_placeholder
<1> QED BY <1>1, <1>10, <1>11, <1>12, <1>13 DEF EncodingIs

-----------------------------------------------------------------------------
(* Counting lists.                                                         *)

(* Every number up to the count is that of a list.                         *)
LEMMA ListNumber ==
    ASSUME IsContainer, NEW n \in 0 .. L, NEW j \in 1 .. Count[n]
    PROVE  \E i \in 1 .. n : ~Fixed(i) /\ Count[i] = j
<1> DEFINE P(d) == \A h \in 1 .. Count[d] : \E i \in 1 .. d : ~Fixed(i) /\ Count[i] = h
           S == {d \in Nat : d <= L => P(d)}
<1>1. 0 \in S
  <2>1. Count[0] = 0
    BY SumsUnfold
  <2>2. P(0)
    BY <2>1
  <2> QED BY <2>2
<1>2. ASSUME NEW d \in Nat, d \in S PROVE d + 1 \in S
  <2> SUFFICES ASSUME d + 1 <= L PROVE P(d + 1)
    OBVIOUS
  <2>1. P(d) /\ d \in 0 .. L /\ d + 1 \in Members /\ (d + 1) - 1 = d
    BY <1>2, Shape
  <2>2. Count[d + 1] = Count[d] + (IF Fixed(d + 1) THEN 0 ELSE 1)
    BY <2>1, NextSum
  <2>3. Count[d] \in Nat
    BY <2>1, SumsGrow
  <2>4. ASSUME NEW h \in 1 .. Count[d + 1]
        PROVE  \E i \in 1 .. d + 1 : ~Fixed(i) /\ Count[i] = h
    <3>1. CASE h \in 1 .. Count[d]
      <4>1. PICK i \in 1 .. d : ~Fixed(i) /\ Count[i] = h
        BY <2>1, <3>1
      <4>2. i \in 1 .. d + 1
        OBVIOUS
      <4> QED BY <4>1, <4>2
    <3>2. CASE h \notin 1 .. Count[d]
      <4>1. ~Fixed(d + 1) /\ h = Count[d + 1]
        BY <2>2, <2>3, <3>2
      <4>2. d + 1 \in 1 .. d + 1
        OBVIOUS
      <4> QED BY <4>1, <4>2
    <3> QED BY <3>1, <3>2
  <2> QED BY <2>4
<1>3. Nat \subseteq S
  <2> HIDE DEF S
  <2> QED BY <1>1, <1>2, ListSum!SetInduction
<1>4. n \in Nat /\ n <= L
  BY Shape
<1> QED BY <1>3, <1>4

(* The count is the number of lists.                                       *)
LEMMA CountIs ==
    ASSUME IsContainer
    PROVE  Count[L] = Cardinality({n \in Members : ~Fixed(n)})
<1> DEFINE Q(d) == {n \in 1 .. d : ~Fixed(n)}
           P(d) == IsFiniteSet(Q(d)) /\ Cardinality(Q(d)) = Count[d]
           S == {d \in Nat : d <= L => P(d)}
<1>1. 0 \in S
  <2>1. Count[0] = 0
    BY SumsUnfold
  <2>2. Q(0) = {}
    OBVIOUS
  <2>3. P(0)
    BY <2>1, <2>2, FS_EmptySet
  <2> QED BY <2>3
<1>2. ASSUME NEW d \in Nat, d \in S PROVE d + 1 \in S
  <2> SUFFICES ASSUME d + 1 <= L PROVE P(d + 1)
    OBVIOUS
  <2>1. P(d) /\ d \in 0 .. L /\ d + 1 \in Members /\ (d + 1) - 1 = d
    BY <1>2, Shape
  <2>2. Count[d + 1] = Count[d] + (IF Fixed(d + 1) THEN 0 ELSE 1)
    BY <2>1, NextSum
  <2>3. Count[d] \in Nat
    BY <2>1, SumsGrow
  <2>4. CASE Fixed(d + 1)
    <3>1. Q(d + 1) = Q(d)
      BY <2>4
    <3> QED BY <2>1, <2>2, <2>3, <2>4, <3>1
  <2>5. CASE ~Fixed(d + 1)
    <3>1. Q(d + 1) = Q(d) \cup {d + 1} /\ d + 1 \notin Q(d)
      BY <2>5
    <3>2. IsFiniteSet(Q(d)) /\ Cardinality(Q(d)) = Count[d]
      BY <2>1
    <3> HIDE DEF Q
    <3>3. IsFiniteSet(Q(d + 1)) /\ Cardinality(Q(d + 1)) = Cardinality(Q(d)) + 1
      BY <3>1, <3>2, FS_AddElement
    <3> QED BY <2>2, <2>5, <3>2, <3>3
  <2> QED BY <2>4, <2>5
<1>3. Nat \subseteq S
  <2> HIDE DEF S
  <2> QED BY <1>1, <1>2, ListSum!SetInduction
<1>4. L \in Nat /\ Members = 1 .. L
  BY Shape
<1> QED BY <1>3, <1>4

-----------------------------------------------------------------------------
(* std::uint32_t.                                                          *)

LEMMA Sums32Natural ==
    ASSUME IsContainer, NEW n \in 0 .. L
    PROVE  fixed_length[n] \in Nat /\ total_length[n] \in Nat
<1> DEFINE S == {d \in Nat : d <= L => fixed_length[d] \in Nat
                                       /\ total_length[d] \in Nat}
<1>1. 0 \in S
  BY SumsUnfold
<1>2. ASSUME NEW d \in Nat, d \in S PROVE d + 1 \in S
  <2> SUFFICES ASSUME d + 1 <= L
               PROVE  fixed_length[d + 1] \in Nat /\ total_length[d + 1] \in Nat
    OBVIOUS
  <2>1. /\ fixed_length[d] \in Nat /\ total_length[d] \in Nat
        /\ d + 1 \in Members /\ d + 1 # 0 /\ (d + 1) - 1 = d
    BY <1>2, Shape
  <2>2. size_or_placeholder(d + 1) \in Nat /\ size_plus_placeholder(d + 1) \in Nat
    BY <2>1, Shape, CodecAssumption DEF size_or_placeholder, size_plus_placeholder
  <2>3. /\ fixed_length[d + 1] = AddFixed32(d + 1, fixed_length[d])
        /\ total_length[d + 1] = AddTotal32(d + 1, total_length[d])
    BY <2>1, SumsUnfold
  <2>4. \A v \in Nat : v % UINT32_VALUES \in Nat
    BY CodecAssumption
  <2> QED BY <2>1, <2>2, <2>3, <2>4 DEF AddFixed32, AddTotal32
<1>3. Nat \subseteq S
  <2> HIDE DEF S
  <2> QED BY <1>1, <1>2, ListSum!SetInduction
<1>4. n \in Nat /\ n <= L
  BY Shape
<1> QED BY <1>3, <1>4

(* What fits is summed exactly.                                            *)
Fits32 == Fixeds[L] + Lists[L] < UINT32_VALUES

LEMMA NoOverflow ==
    ASSUME IsContainer, Fits32, NEW n \in 0 .. L
    PROVE  fixed_length[n] = Fixeds[n] /\ total_length[n] = Fixeds[n] + Lists[n]
<1> DEFINE S == {d \in Nat : d <= L => fixed_length[d] = Fixeds[d]
                                       /\ total_length[d] = Fixeds[d] + Lists[d]}
<1>1. 0 \in S
  BY SumsUnfold
<1>2. ASSUME NEW d \in Nat, d \in S PROVE d + 1 \in S
  <2> SUFFICES ASSUME d + 1 <= L
               PROVE  /\ fixed_length[d + 1] = Fixeds[d + 1]
                      /\ total_length[d + 1] = Fixeds[d + 1] + Lists[d + 1]
    OBVIOUS
  <2>1. /\ fixed_length[d] = Fixeds[d] /\ total_length[d] = Fixeds[d] + Lists[d]
        /\ d + 1 \in Members /\ d + 1 # 0 /\ (d + 1) - 1 = d
        /\ d \in 0 .. L /\ d + 1 \in 0 .. L /\ L \in 0 .. L
    BY <1>2, Shape
  <2> DEFINE f == size_or_placeholder(d + 1)
             l == IF Fixed(d + 1) THEN 0 ELSE size(d + 1)
  <2>2. f \in Nat /\ l \in Nat /\ size_plus_placeholder(d + 1) = f + l
    BY <2>1, Shape, CodecAssumption DEF size_or_placeholder, size_plus_placeholder
  <2>3. /\ fixed_length[d + 1] = (fixed_length[d] + f) % UINT32_VALUES
        /\ total_length[d + 1] = (total_length[d] + (f + l)) % UINT32_VALUES
    BY <2>1, <2>2, SumsUnfold DEF AddFixed32, AddTotal32
  <2>4. Fixeds[d + 1] = Fixeds[d] + f /\ Lists[d + 1] = Lists[d] + l
    BY <2>1, NextSum
  <2> HIDE DEF f, l
  <2>5. /\ Fixeds[d] \in Nat /\ Lists[d] \in Nat /\ Fixeds[L] \in Nat /\ Lists[L] \in Nat
        /\ Fixeds[d + 1] <= Fixeds[L] /\ Lists[d + 1] <= Lists[L]
    BY <2>1, SumsGrow
  <2>6. \A v \in Nat : v < UINT32_VALUES => v % UINT32_VALUES = v
    BY CodecAssumption
  <2>7. Fixeds[L] + Lists[L] < UINT32_VALUES /\ UINT32_VALUES \in Nat
    BY CodecAssumption DEF Fits32
  <2>8. Fixeds[d + 1] \in Nat /\ Lists[d + 1] \in Nat
    BY <2>2, <2>4, <2>5
  <2>9. /\ Fixeds[d + 1] < UINT32_VALUES
        /\ Fixeds[d + 1] + Lists[d + 1] < UINT32_VALUES
    BY <2>5, <2>7, <2>8
  <2>10. (Fixeds[d] + Lists[d]) + (f + l) = Fixeds[d + 1] + Lists[d + 1]
    BY <2>2, <2>4, <2>5
  <2>11. Fixeds[d + 1] + Lists[d + 1] \in Nat
    BY <2>8
  <2> QED BY <2>1, <2>3, <2>4, <2>6, <2>8, <2>9, <2>10, <2>11
<1>3. Nat \subseteq S
  <2> HIDE DEF S
  <2> QED BY <1>1, <1>2, ListSum!SetInduction
<1>4. n \in Nat /\ n <= L
  BY Shape
<1> QED BY <1>3, <1>4

-----------------------------------------------------------------------------
(* Writing into the buffer and reading from it.                            *)

LEMMA WrittenIs ==
    ASSUME NEW b \in Seq(Byte), NEW at \in Nat, NEW bytes \in Seq(Byte)
    PROVE  /\ Written(b, at, bytes) \in Seq(Byte)
           /\ Len(Written(b, at, bytes)) = Len(b)
           /\ \A p \in 1 .. Len(b) :
                 Written(b, at, bytes)[p] =
                    IF p - at \in 1 .. Len(bytes) THEN bytes[p - at] ELSE b[p]
<1> DEFINE w == Written(b, at, bytes)
<1>1. Len(b) \in Nat /\ DOMAIN w = 1 .. Len(b) /\ w = [p \in DOMAIN w |-> w[p]]
  BY DEF Written
<1>2. ASSUME NEW p \in 1 .. Len(b)
      PROVE  /\ w[p] = IF p - at \in 1 .. Len(bytes) THEN bytes[p - at] ELSE b[p]
             /\ w[p] \in Byte
  BY DEF Written
<1> HIDE DEF w
<1>3. w \in Seq(Byte) /\ Len(w) = Len(b)
  BY <1>1, <1>2, FunctionIsSeq
<1> QED BY <1>2, <1>3 DEF w

LEMMA SliceIs ==
    ASSUME buffer \in Seq(Byte), NEW from \in Nat, NEW to \in Nat, to <= End
    PROVE  /\ Slice(from, to) \in Seq(Byte)
           /\ Len(Slice(from, to)) = IF from <= to THEN to - from ELSE 0
           /\ \A j \in 1 .. to - from : Slice(from, to)[j] = buffer[from + j]
<1>1. \A i \in from + 1 .. to : i \in 1 .. Len(buffer)
  BY DEF End
<1>2. \A i \in from + 1 .. to : buffer[i] \in Byte
  BY <1>1
<1>3. /\ SubSeq(buffer, from + 1, to) \in Seq(Byte)
      /\ Len(SubSeq(buffer, from + 1, to)) =
            IF from + 1 <= to THEN to - (from + 1) + 1 ELSE 0
      /\ \A i \in 1 .. to - (from + 1) + 1 :
            SubSeq(buffer, from + 1, to)[i] = buffer[(from + 1) + i - 1]
  <2>1. from + 1 \in Int /\ to \in Int
    OBVIOUS
  <2> QED BY <1>2, <2>1, SubSeqProperties
<1>4. ASSUME NEW j \in 1 .. to - from PROVE (from + 1) + j - 1 = from + j
  OBVIOUS
<1>5. to - (from + 1) + 1 = to - from
  OBVIOUS
<1>6. /\ Slice(from, to) \in Seq(Byte)
      /\ \A j \in 1 .. to - from : Slice(from, to)[j] = buffer[from + j]
  BY <1>3, <1>4, <1>5 DEF Slice
<1>7. Len(Slice(from, to)) = IF from + 1 <= to THEN to - (from + 1) + 1 ELSE 0
  BY <1>3 DEF Slice
<1>8. (IF from + 1 <= to THEN to - (from + 1) + 1 ELSE 0) =
         IF from <= to THEN to - from ELSE 0
  OBVIOUS
<1> QED BY <1>6, <1>7, <1>8

(* What stands in the buffer is what a slice of it is.                     *)
LEMMA SliceFound ==
    ASSUME buffer \in Seq(Byte), NEW bytes \in Seq(Byte),
           NEW from \in Nat, NEW to \in Nat, to = from + Len(bytes), to <= End,
           \A j \in 1 .. Len(bytes) : buffer[from + j] = bytes[j]
    PROVE  Slice(from, to) = bytes
<1>1. /\ Slice(from, to) \in Seq(Byte)
      /\ Len(Slice(from, to)) = IF from <= to THEN to - from ELSE 0
      /\ \A j \in 1 .. to - from : Slice(from, to)[j] = buffer[from + j]
  BY SliceIs
<1>2. Len(bytes) \in Nat
  OBVIOUS
<1>3. to - from = Len(bytes) /\ from <= to
  BY <1>2
<1>4. Len(Slice(from, to)) = Len(bytes)
  BY <1>1, <1>3
<1>5. \A j \in 1 .. Len(bytes) : Slice(from, to)[j] = bytes[j]
  BY <1>1, <1>3
<1> QED BY <1>1, <1>4, <1>5, SeqEqual

(* An offset that is where it is read is the only number it can be.        *)
LEMMA OffsetRead ==
    ASSUME NEW v \in 0 .. UINT32_VALUES - 1, NEW at,
           Slice(at, at + BYTES_PER_LENGTH_OFFSET) = Word(v)
    PROVE  WordsAt(at) = {v}
<1>1. 1 \in 1 .. BYTES_PER_LENGTH_OFFSET
  BY CodecAssumption
<1>2. \A n : Word(n)[1].word = n
  BY <1>1 DEF Word
<1>3. \A n : Word(n) = Word(v) => n = v
  BY <1>2
<1> HIDE DEF Word
<1>4. {n \in 0 .. UINT32_VALUES - 1 : Word(n) = Word(v)} = {v}
  BY <1>3
<1> QED BY <1>4 DEF WordsAt

LEMMA OffsetsAre32 ==
    ASSUME NEW at
    PROVE  WordsAt(at) \subseteq 0 .. UINT32_VALUES - 1
BY DEF WordsAt

-----------------------------------------------------------------------------
(* The sums and the encoding are those of the container.                   *)
LEMMA SameContainer ==
    ASSUME UNCHANGED container
    PROVE  /\ shape' = shape /\ source' = source /\ held' = held
           /\ (SameVectors' <=> SameVectors) /\ \A n : size(n)' = size(n)
           /\ Fixeds' = Fixeds /\ Lists' = Lists /\ Count' = Count
           /\ L' = L /\ Members' = Members
           /\ compute_fixed_length' = compute_fixed_length
           /\ FixedLength' = FixedLength /\ Encoding' = Encoding
           /\ \A n : Fixed(n)' = Fixed(n) /\ ListAt(n)' = ListAt(n)
<1>1. UNCHANGED <<shape, source, held>>
  BY DEF container
<1>4. (SameVectors' <=> SameVectors) /\ \A n : size(n)' = size(n)
  BY <1>1 DEF SameVectors, Members, size
<1>2. UNCHANGED <<Fixeds, Lists, Count, fixed_length>>
  BY <1>1 DEF Fixeds, Lists, Count, fixed_length, Fixed, size_or_placeholder, size
<1>3. UNCHANGED <<FixedLength, Encoding>>
  BY <1>1 DEF FixedLength, Encoding, FixedParts, VariableParts, Members, Fixed
<1> QED BY <1>1, <1>2, <1>3, <1>4
        DEF L, Members, compute_fixed_length, Fixed, ListAt

-----------------------------------------------------------------------------
(* The inductive invariant.  Its parts about a container that fits in 32   *)
(* bits say how far each pass has come.                                    *)

(* The buffer and the members are sequences of bytes, and the vectors of   *)
(* the target keep the sizes they had.                                     *)
BytesOK ==
    /\ buffer \in Seq(Byte)
    /\ source \in [Members -> Seq(Byte)] /\ target \in [Members -> Seq(Byte)]
    /\ Fits32 /\ SameVectors =>
          \A n \in Members : shape[n] = "vector" => Len(target[n]) = size(n)

(* Nothing is written before the buffer is allocated or read before it is  *)
(* full, and no list is read in the first pass.                            *)
InOrder ==
    /\ pc = "allocate" => buffer = <<>> /\ result = 0 /\ m = 1
    /\ pc \in {"allocate", "serialize"} => offsets = <<>> /\ shifted = 0
    /\ pc \in {"allocate", "serialize", "fixed"} => k = 1

(* The members written.                                                    *)
written == IF pc = "serialize" THEN m - 1 ELSE L

(* The buffer is as long as the encoding, and the cursors of serialize are *)
(* where the sums over the members written say.                            *)
Cursors ==
    Fits32 /\ pc # "allocate" =>
        /\ Len(buffer) = Fixeds[L] + Lists[L]
        /\ result = Fixeds[written]
        /\ variable = Fixeds[L] + Lists[written]

(* The bytes that the cursors have passed, and no others, are written.     *)
Layout ==
    Fits32 /\ pc # "allocate" =>
        \A p \in 1 .. Len(buffer) :
           buffer[p] = IF p <= result \/ p \in Fixeds[L] + 1 .. variable
                       THEN Encoding[p] ELSE Zero

(* The members whose fixed part the first pass has read.                   *)
passed == IF pc = "fixed" THEN m - 1 ELSE L

(* The first pass has come as far as the sums say.  It has restored the    *)
(* fixed members and read the offset of every list.                        *)
FirstPass ==
    Fits32 /\ SameVectors /\ pc \in {"fixed", "variable"} =>
        /\ shifted = Fixeds[passed]
        /\ Len(offsets) = Count[passed]
        /\ \A n \in 1 .. passed :
              IF Fixed(n) THEN target[n] = source[n]
                          ELSE offsets[Count[n]] = ListAt(n)

(* The second pass is at the offset of the next list, and has restored the *)
(* lists before.                                                           *)
SecondPass ==
    Fits32 /\ SameVectors /\ pc = "variable" =>
        /\ Len(offsets) > 0
        /\ k = Count[m - 1] + 1
        /\ \A n \in 1 .. m - 1 : ~Fixed(n) => target[n] = source[n]

RoundTrip32 ==
    Fits32 /\ SameVectors =>
        /\ pc \notin {"threw", "undefined"}
        /\ pc = "done" => \A n \in Members : target[n] = source[n]

IInv ==
    /\ Typed /\ BytesOK /\ InOrder /\ Cursors /\ Layout
    /\ FirstPass /\ SecondPass /\ RoundTrip32

(* Counts that are equal have equal lists before them.                     *)
LEMMA EqualCounts ==
    ASSUME IsContainer, NEW a \in 0 .. L, NEW b \in 0 .. L, Count[a] = Count[b]
    PROVE  Lists[a] = Lists[b]
<1>1. CASE a <= b
  <2>1. a \in 0 .. b
    BY <1>1
  <2> QED BY <2>1, SumsGrow
<1>2. CASE b <= a
  <2>1. b \in 0 .. a
    BY <1>2
  <2> QED BY <2>1, SumsGrow
<1>3. L \in Nat
  BY Shape
<1> QED BY <1>1, <1>2, <1>3

(* A member's sums lie within those of the whole container.                *)
LEMMA Within ==
    ASSUME IsContainer, NEW n \in Members
    PROVE  /\ Fixeds[n - 1] \in Nat /\ Fixeds[n] \in Nat /\ Fixeds[L] \in Nat
           /\ Lists[n - 1] \in Nat /\ Lists[n] \in Nat /\ Lists[L] \in Nat
           /\ Count[n - 1] \in Nat /\ Count[n] \in Nat /\ Count[L] \in Nat
           /\ Fixeds[n] <= Fixeds[L] /\ Lists[n] <= Lists[L] /\ Count[n] <= Count[L]
           /\ Fixeds[n] = Fixeds[n - 1] + size_or_placeholder(n)
           /\ Fixed(n) => /\ size_or_placeholder(n) = size(n)
                          /\ Lists[n] = Lists[n - 1] /\ Count[n] = Count[n - 1]
           /\ ~Fixed(n) => /\ size_or_placeholder(n) = BYTES_PER_LENGTH_OFFSET
                           /\ Lists[n] = Lists[n - 1] + size(n)
                           /\ Count[n] = Count[n - 1] + 1
           /\ size(n) \in Nat
<1>1. n \in 0 .. L /\ n - 1 \in 0 .. L /\ L \in 0 .. L /\ size(n) \in Nat
  BY Shape
<1>2. /\ Fixeds[n - 1] \in Nat /\ Lists[n - 1] \in Nat /\ Count[n - 1] \in Nat
      /\ Fixeds[n] \in Nat /\ Lists[n] \in Nat /\ Count[n] \in Nat
  BY <1>1, SumsGrow
<1>3. /\ Fixeds[L] \in Nat /\ Lists[L] \in Nat /\ Count[L] \in Nat
      /\ Fixeds[n] <= Fixeds[L] /\ Lists[n] <= Lists[L] /\ Count[n] <= Count[L]
  BY <1>1, SumsGrow
<1> QED BY <1>1, <1>2, <1>3, NextSum DEF size_or_placeholder

(* The types, and where the member at hand is.                             *)
LEMMA Facts ==
    ASSUME IInv
    PROVE  /\ IsContainer /\ L \in Nat /\ Members = 1 .. L
           /\ m \in 1 .. L + 1
           /\ m \notin Members => m - 1 = L
           /\ buffer \in Seq(Byte) /\ End \in Nat
           /\ variable \in Nat /\ shifted \in 0 .. End
           /\ target \in [Members -> Seq(Byte)]
           /\ offsets \in Seq(0 .. UINT32_VALUES - 1)
           /\ k \in 1 .. Len(offsets) + 1
           /\ result \in Nat
           /\ UINT32_VALUES \in Nat \ {0} /\ BYTES_PER_LENGTH_OFFSET \in Nat \ {0}
<1>1. IsContainer
  BY DEF IInv, Typed, BytesOK, IsContainer
<1>2. L \in Nat /\ Members = 1 .. L
  BY <1>1, Shape
<1>3. m \in 1 .. L + 1
  BY DEF IInv, Typed, L
<1>4. buffer \in Seq(Byte) /\ target \in [Members -> Seq(Byte)]
  BY DEF IInv, BytesOK
<1>5. End \in Nat
  BY <1>4 DEF End
<1>6. UINT32_VALUES \in Nat \ {0} /\ BYTES_PER_LENGTH_OFFSET \in Nat \ {0}
  BY CodecAssumption
<1>7. /\ variable \in Nat /\ shifted \in 0 .. End
      /\ offsets \in Seq(0 .. UINT32_VALUES - 1)
      /\ k \in 1 .. Len(offsets) + 1
      /\ result \in Nat
  BY DEF IInv, Typed
<1>8. m \notin Members => m - 1 = L
  BY <1>2, <1>3
<1> QED BY <1>1, <1>2, <1>3, <1>4, <1>5, <1>6, <1>7, <1>8

(* A container that fits is a representable one.                           *)
LEMMA FitsIsRepresentable ==
    ASSUME IsContainer
    PROVE  Representable <=> Fits32
BY EncodingLayout DEF Representable, Fits32, EncodingIs

(* Once it is written the buffer is the encoding.                          *)
LEMMA BufferIsEncoding ==
    ASSUME IInv, Fits32, pc \notin {"allocate", "serialize"}
    PROVE  /\ EncodingIs(buffer)
           /\ result = Fixeds[L] /\ variable = Fixeds[L] + Lists[L]
           /\ Len(buffer) = Fixeds[L] + Lists[L]
<1> DEFINE F == Fixeds[L]
           S == Lists[L]
<1>1. IsContainer /\ L \in 0 .. L /\ buffer \in Seq(Byte)
  BY Facts
<1>2. F \in Nat /\ S \in Nat
  BY <1>1, SumsGrow
<1>3. Len(buffer) = F + S /\ result = F /\ variable = F + S
  BY DEF IInv, Cursors, written
<1>4. EncodingIs(Encoding)
  BY <1>1, EncodingLayout
<1>5. ASSUME NEW p \in 1 .. Len(buffer) PROVE buffer[p] = Encoding[p]
  <2>1. buffer[p] = IF p <= result \/ p \in F + 1 .. variable
                    THEN Encoding[p] ELSE Zero
    BY DEF IInv, Layout
  <2> HIDE DEF F, S
  <2>2. p <= result \/ p \in F + 1 .. variable
    BY <1>2, <1>3
  <2> QED BY <2>1, <2>2
<1>6. Encoding \in Seq(Byte) /\ Len(Encoding) = Len(buffer)
  BY <1>3, <1>4 DEF EncodingIs
<1>7. buffer = Encoding
  BY <1>1, <1>5, <1>6, SeqEqual
<1> QED BY <1>3, <1>4, <1>7

(* Where the members are read from.                                        *)
LEMMA FixedRead ==
    ASSUME IInv, Fits32, pc \notin {"allocate", "serialize"},
           NEW n \in Members
    PROVE  /\ Fixeds[n - 1] + size_or_placeholder(n) <= End
           /\ Fixed(n) =>
                 Slice(Fixeds[n - 1], Fixeds[n - 1] + size(n)) = source[n]
           /\ ~Fixed(n) => WordsAt(Fixeds[n - 1]) = {ListAt(n)}
<1>1. IsContainer /\ buffer \in Seq(Byte) /\ UINT32_VALUES \in Nat
  BY Facts
<1>2. EncodingIs(buffer) /\ End = Fixeds[L] + Lists[L]
  BY BufferIsEncoding DEF End
<1>3. Fixeds[n - 1] + size_or_placeholder(n) <= End
  BY <1>1, <1>2, Within
<1>4. source[n] \in Seq(Byte) /\ Fixeds[n - 1] \in Nat
  BY <1>1, Shape, Within
<1>5. CASE Fixed(n)
  <2>1. \A j \in 1 .. Len(source[n]) : buffer[Fixeds[n - 1] + j] = source[n][j]
    BY <1>2, <1>5 DEF EncodingIs, size
  <2> DEFINE to == Fixeds[n - 1] + size(n)
  <2>2. to \in Nat /\ to = Fixeds[n - 1] + Len(source[n]) /\ to <= End
    BY <1>1, <1>3, <1>4, <1>5, Shape DEF size_or_placeholder, size
  <2> HIDE DEF to
  <2>3. Slice(Fixeds[n - 1], to) = source[n]
    BY <1>1, <1>4, <2>1, <2>2, SliceFound
  <2> QED BY <1>3, <1>5, <2>3 DEF to
<1>6. CASE ~Fixed(n)
  <2> DEFINE v == ListAt(n)
             to == Fixeds[n - 1] + BYTES_PER_LENGTH_OFFSET
  <2>1. v \in Nat /\ v < UINT32_VALUES
    BY <1>1, <1>6, Within DEF ListAt, Fits32
  <2>2. \A j \in 1 .. BYTES_PER_LENGTH_OFFSET : buffer[Fixeds[n - 1] + j] = Word(v)[j]
    BY <1>2, <1>6 DEF EncodingIs
  <2> HIDE DEF v
  <2>3. Word(v) \in Seq(Byte) /\ Len(Word(v)) = BYTES_PER_LENGTH_OFFSET
    BY <2>1, WordIsSeq
  <2>4. BYTES_PER_LENGTH_OFFSET \in Nat
    BY Facts
  <2>5. to \in Nat /\ to <= End /\ to = Fixeds[n - 1] + Len(Word(v))
    BY <1>3, <1>4, <1>6, <2>3, <2>4 DEF size_or_placeholder
  <2> HIDE DEF to
  <2>6. Slice(Fixeds[n - 1], to) = Word(v)
    BY <1>1, <1>4, <2>2, <2>3, <2>5, SliceFound
  <2>7. v \in 0 .. UINT32_VALUES - 1
    BY <1>1, <2>1
  <2>8. WordsAt(Fixeds[n - 1]) = {v}
    BY <2>6, <2>7, OffsetRead DEF to
  <2> QED BY <1>3, <1>6, <2>8 DEF v
<1> QED BY <1>5, <1>6

LEMMA ListRead ==
    ASSUME IInv, Fits32, pc \notin {"allocate", "serialize"},
           NEW n \in Members, ~Fixed(n)
    PROVE  /\ ListAt(n) \in Nat /\ ListAt(n) + size(n) <= End
           /\ Slice(ListAt(n), ListAt(n) + size(n)) = source[n]
<1>1. IsContainer /\ buffer \in Seq(Byte)
  BY Facts
<1>2. EncodingIs(buffer) /\ End = Fixeds[L] + Lists[L]
  BY BufferIsEncoding DEF End
<1>3. ListAt(n) \in Nat /\ ListAt(n) + size(n) <= End
  BY <1>1, <1>2, Within DEF ListAt
<1>4. source[n] \in Seq(Byte)
  BY <1>1, Shape
<1>5. \A j \in 1 .. Len(source[n]) : buffer[ListAt(n) + j] = source[n][j]
  BY <1>2 DEF EncodingIs, size
<1> DEFINE to == ListAt(n) + size(n)
<1>6. to \in Nat /\ to = ListAt(n) + Len(source[n]) /\ to <= End
  BY <1>1, <1>3, Shape DEF size
<1> HIDE DEF to
<1>7. Slice(ListAt(n), to) = source[n]
  BY <1>1, <1>3, <1>4, <1>5, <1>6, SliceFound
<1> QED BY <1>3, <1>7 DEF to

-----------------------------------------------------------------------------
(* The invariant holds initially.                                          *)
LEMMA InitInvariant == ASSUME Init PROVE IInv
<1>1. /\ shape \in Shapes /\ buffer = <<>> /\ result = 0 /\ variable = 0
      /\ shifted = 0 /\ offsets = <<>> /\ k = 1 /\ m = 1 /\ pc = "allocate"
  BY DEF Init
<1>2. L \in Nat /\ Members = 1 .. L
  <2>1. shape \in Seq({"array", "vector", "list"})
    BY <1>1, CodecAssumption
  <2> QED BY <2>1 DEF L, Members
<1>3. PICK sizes \in [Members -> Sizes], old \in [Members -> Sizes] :
         /\ \A n \in Members :
               shape[n] = "array" => sizes[n] > 0 /\ old[n] = sizes[n]
         /\ source = [n \in Members |-> Payload(n, sizes[n])]
         /\ held = old
         /\ target = [n \in Members |-> [j \in 1 .. old[n] |-> Stale]]
  BY DEF Init
<1>4. \A n \in Members : sizes[n] \in Sizes /\ sizes[n] \in Nat /\ old[n] \in Nat
  BY <1>3, CodecAssumption
<1>5. ASSUME NEW n \in Members
      PROVE  /\ source[n] \in Seq(Byte) /\ Len(source[n]) = sizes[n]
             /\ target[n] \in Seq(Byte) /\ Len(target[n]) = old[n]
  <2>1. sizes[n] \in Nat /\ old[n] \in Nat /\ n \in Nat
    BY <1>2, <1>4
  <2>2. source[n] = Payload(n, sizes[n])
    BY <1>3
  <2>3. target[n] = [j \in 1 .. old[n] |-> Stale]
    BY <1>3
  <2>4. \A j \in 1 .. sizes[n] : source[n][j] \in Byte
    BY <2>1, <2>2 DEF Payload, Byte
  <2>5. \A j \in 1 .. old[n] : target[n][j] \in Byte
    BY <2>3 DEF Byte
  <2>6. /\ DOMAIN source[n] = 1 .. sizes[n] /\ DOMAIN target[n] = 1 .. old[n]
        /\ source[n] = [j \in DOMAIN source[n] |-> source[n][j]]
        /\ target[n] = [j \in DOMAIN target[n] |-> target[n][j]]
    BY <2>2, <2>3 DEF Payload
  <2>7. source[n] \in Seq(Byte) /\ Len(source[n]) = sizes[n]
    BY <2>1, <2>4, <2>6, FunctionIsSeq
  <2>8. target[n] \in Seq(Byte) /\ Len(target[n]) = old[n]
    <3> DEFINE t == target[n]
               o == old[n]
    <3>1. /\ o \in Nat /\ DOMAIN t = 1 .. o /\ t = [j \in DOMAIN t |-> t[j]]
          /\ \A j \in 1 .. o : t[j] \in Byte
      BY <2>1, <2>5, <2>6
    <3> HIDE DEF t, o
    <3>2. t \in Seq(Byte) /\ Len(t) = o
      BY <3>1, FunctionIsSeq
    <3> QED BY <3>2 DEF t, o
  <2> QED BY <2>7, <2>8
<1>6. source \in [Members -> Seq(Byte)] /\ target \in [Members -> Seq(Byte)]
  <2>1. source = [n \in Members |-> source[n]] /\ target = [n \in Members |-> target[n]]
    BY <1>3
  <2> QED BY <1>5, <2>1
<1>7. BytesOK
  <2>1. buffer \in Seq(Byte)
    BY <1>1
  <2>2. ASSUME SameVectors
        PROVE  \A n \in Members : shape[n] = "vector" => Len(target[n]) = size(n)
    BY <1>3, <1>5, <2>2 DEF SameVectors
  <2> QED BY <1>6, <2>1, <2>2 DEF BytesOK
<1>8. Typed
  <2>1. Len(source) = L /\ Len(target) = L
    BY <1>2, <1>6
  <2>2. \A n \in Members : Len(source[n]) \in Sizes
    BY <1>4, <1>5
  <2>3. End = 0 /\ offsets \in Seq(0 .. UINT32_VALUES - 1) /\ Len(offsets) = 0
    BY <1>1 DEF End
  <2>4. m \in 1 .. L + 1 /\ k \in 1 .. Len(offsets) + 1 /\ shifted \in 0 .. End
    BY <1>1, <1>2, <2>3
  <2>5. /\ held \in [Members -> Sizes]
        /\ \A n \in Members : shape[n] = "array" => Len(target[n]) = size(n)
    BY <1>3, <1>5 DEF size
  <2> QED BY <1>1, <2>1, <2>2, <2>3, <2>4, <2>5 DEF Typed, L
<1>9. InOrder /\ Cursors /\ Layout /\ FirstPass /\ SecondPass /\ RoundTrip32
  BY <1>1 DEF InOrder, Cursors, Layout, FirstPass, SecondPass, RoundTrip32
<1> QED BY <1>7, <1>8, <1>9 DEF IInv

-----------------------------------------------------------------------------
(* serialize.                                                              *)

(* What no action of serialize changes.                                    *)
LEMMA StillSerializing ==
    ASSUME IInv, UNCHANGED <<container, target, reading>>,
           buffer' \in Seq(Byte), Len(buffer') \in Nat,
           pc \in {"allocate", "serialize"}, pc' = "serialize"
    PROVE  BytesOK' /\ InOrder' /\ FirstPass' /\ SecondPass' /\ RoundTrip32'
<1>1. BytesOK'
  <2>1. UNCHANGED <<shape, source, target, Members>>
    BY DEF container, Members
  <2>2. /\ Fits32' <=> Fits32
        /\ SameVectors' <=> SameVectors
        /\ \A n : size(n)' = size(n)
    BY SameContainer DEF Fits32
  <2> QED BY <2>1, <2>2 DEF IInv, BytesOK
<1>2. InOrder'
  BY DEF IInv, InOrder, reading
<1> QED BY <1>1, <1>2 DEF FirstPass, SecondPass, RoundTrip32

LEMMA AllocateInvariant == ASSUME IInv, Allocate PROVE IInv'
<1>1. /\ pc = "allocate" /\ pc' = "serialize" /\ m' = 1 /\ result' = result
      /\ UNCHANGED <<container, target, reading>>
      /\ buffer' = [p \in 1 .. compute_total_length |-> Zero]
      /\ variable' = compute_fixed_length
  BY DEF Allocate, Goto
<1>2. IsContainer /\ L \in 0 .. L /\ L \in Nat
  BY Facts
<1>3. compute_total_length \in Nat /\ compute_fixed_length \in Nat
  BY <1>2, Sums32Natural DEF compute_total_length, compute_fixed_length, L
<1>4. /\ result = 0 /\ offsets = <<>> /\ shifted = 0 /\ k = 1
  BY <1>1 DEF IInv, InOrder
<1>5. buffer' \in Seq(Byte) /\ Len(buffer') = compute_total_length
  <2> DEFINE b == [p \in 1 .. compute_total_length |-> Zero]
  <2>1. /\ DOMAIN b = 1 .. compute_total_length /\ b = [p \in DOMAIN b |-> b[p]]
        /\ \A p \in 1 .. compute_total_length : b[p] \in Byte
    BY DEF Byte
  <2> HIDE DEF b
  <2>2. b \in Seq(Byte) /\ Len(b) = compute_total_length
    BY <1>3, <2>1, FunctionIsSeq
  <2> QED BY <1>1, <2>2 DEF b
<1>6. /\ BytesOK' /\ InOrder' /\ FirstPass' /\ SecondPass' /\ RoundTrip32'
  BY <1>1, <1>3, <1>5, StillSerializing
<1>7. /\ UNCHANGED <<shape, source, held, target, shifted, offsets, k>>
      /\ L' = L /\ Members' = Members
  BY <1>1 DEF container, reading, L, Members
<1>8. Typed'
  <2>1. End' \in Nat /\ result' = 0 /\ shifted' = 0
    BY <1>1, <1>3, <1>4, <1>5, <1>7 DEF End
  <2>2. result' \in Nat /\ shifted' \in 0 .. End' /\ m' \in 1 .. L' + 1
    BY <1>1, <1>2, <1>7, <2>1
  <2>3. variable' \in Nat
    BY <1>1, <1>3
  <2>4. \A n : size(n)' = size(n)
    BY <1>1, SameContainer
  <2> QED BY <1>1, <1>7, <2>2, <2>3, <2>4 DEF IInv, Typed, L
<1>9. ASSUME Fits32'
      PROVE  /\ Len(buffer') = Fixeds[L] + Lists[L]
             /\ variable' = Fixeds[L]
  <2>1. Fits32
    BY <1>1, <1>9, SameContainer DEF Fits32
  <2> QED BY <1>1, <1>2, <1>5, <2>1, NoOverflow
          DEF compute_total_length, compute_fixed_length, L
<1>10. written' = 0
  BY <1>1 DEF written
<1>11. Fixeds[0] = 0 /\ Lists[0] = 0 /\ Fixeds[L] \in Nat
  BY <1>2, SumsUnfold, SumsGrow
<1>12. Cursors'
  <2>1. Fixeds' = Fixeds /\ Lists' = Lists /\ L' = L
    BY <1>1, SameContainer
  <2>2. ASSUME Fits32'
        PROVE  /\ Len(buffer') = Fixeds'[L'] + Lists'[L']
               /\ result' = Fixeds'[written'] /\ variable' = Fixeds'[L'] + Lists'[written']
    <3>1. Len(buffer') = Fixeds[L] + Lists[L] /\ variable' = Fixeds[L]
      BY <1>9, <2>2
    <3>2. result' = 0
      BY <1>1, <1>4
    <3> QED BY <1>10, <1>11, <2>1, <3>1, <3>2
  <2> QED BY <2>2 DEF Cursors
<1>13. Layout'
  <2> SUFFICES ASSUME Fits32', NEW p \in 1 .. Len(buffer')
               PROVE  buffer'[p] = IF p <= result' \/ p \in Fixeds'[L'] + 1 .. variable'
                                   THEN Encoding'[p] ELSE Zero
    BY DEF Layout
  <2>1. Fixeds' = Fixeds /\ L' = L
    BY <1>1, SameContainer
  <2>2. p \in Nat /\ p > 0 /\ p \in 1 .. compute_total_length
    BY <1>5
  <2>3. ~ (p <= result') /\ p \notin Fixeds'[L'] + 1 .. variable'
    BY <1>1, <1>4, <1>9, <1>11, <2>1, <2>2
  <2>4. buffer'[p] = Zero
    BY <1>1, <2>2
  <2> QED BY <2>3, <2>4
<1> QED BY <1>6, <1>8, <1>12, <1>13 DEF IInv

(* Where the cursors are in serialize.                                     *)
LEMMA CursorsAt ==
    ASSUME IInv, Fits32, pc = "serialize", m \in Members
    PROVE  /\ result = Fixeds[m - 1] /\ variable = ListAt(m)
           /\ End = Fixeds[L] + Lists[L]
BY DEF IInv, Cursors, written, ListAt, End

(* The types after a member is written.                                    *)
LEMMA StillTyped ==
    ASSUME IInv, UNCHANGED <<container, target, reading>>,
           Len(buffer') = Len(buffer), result' \in Nat, variable' \in Nat,
           pc = "serialize", pc' = pc, m \in Members, m' = m + 1
    PROVE  Typed'
<1>1. L \in Nat /\ Members = 1 .. L
  BY Facts
<1>2. /\ UNCHANGED <<shape, source, held, target, shifted, offsets, k>>
      /\ L' = L /\ Members' = Members /\ End' = End
  BY DEF container, reading, L, Members, End
<1>3. m' \in 1 .. L' + 1
  BY <1>1, <1>2
<1>4. \A n : size(n)' = size(n)
  BY SameContainer
<1> QED BY <1>2, <1>3, <1>4 DEF IInv, Typed, L

LEMMA SerializeFixedInvariant == ASSUME IInv, SerializeFixed PROVE IInv'
<1>1. /\ pc = "serialize" /\ pc' = pc /\ m' = m + 1 /\ m \in Members /\ Fixed(m)
      /\ variable' = variable
      /\ result + size(m) <= End /\ result' = result + size(m)
      /\ UNCHANGED <<container, target, reading>>
      /\ buffer' = Written(buffer, result, source[m])
  BY DEF SerializeFixed, FitsAt
<1>2. /\ IsContainer /\ buffer \in Seq(Byte) /\ result \in Nat /\ variable \in Nat
      /\ End \in Nat /\ source[m] \in Seq(Byte) /\ size(m) \in Nat /\ m \in Nat
  BY <1>1, Facts, Shape
<1>3. /\ buffer' \in Seq(Byte) /\ Len(buffer') = Len(buffer)
      /\ \A p \in 1 .. Len(buffer) :
            buffer'[p] = IF p - result \in 1 .. size(m) THEN source[m][p - result]
                                                        ELSE buffer[p]
  <2> DEFINE w == Written(buffer, result, source[m])
  <2>1. /\ w \in Seq(Byte) /\ Len(w) = Len(buffer)
        /\ \A p \in 1 .. Len(buffer) :
              w[p] = IF p - result \in 1 .. Len(source[m])
                     THEN source[m][p - result] ELSE buffer[p]
    BY <1>2, WrittenIs
  <2> HIDE DEF w
  <2>2. buffer' = w
    BY <1>1 DEF w
  <2>3. Len(source[m]) = size(m)
    BY DEF size
  <2> QED BY <2>1, <2>2, <2>3, Zenon
<1>4. BytesOK' /\ InOrder' /\ FirstPass' /\ SecondPass' /\ RoundTrip32'
  BY <1>1, <1>2, <1>3, StillSerializing DEF End
<1>5. Typed'
  <2>1. result' \in Nat /\ variable' \in Nat
    BY <1>1, <1>2
  <2> QED BY <1>1, <1>3, <2>1, StillTyped
<1>6. /\ Fixeds' = Fixeds /\ Lists' = Lists /\ L' = L /\ Encoding' = Encoding
      /\ (Fits32' => Fits32) /\ written' = m
  BY <1>1, <1>2, SameContainer DEF Fits32, written
<1>7. ASSUME Fits32
      PROVE  /\ result = Fixeds[m - 1] /\ variable = ListAt(m)
             /\ result' = Fixeds[m] /\ variable = Fixeds[L] + Lists[m]
             /\ End = Fixeds[L] + Lists[L]
  BY <1>1, <1>2, <1>7, CursorsAt, Within DEF ListAt
<1>8. Cursors'
  BY <1>1, <1>3, <1>6, <1>7 DEF Cursors, End
<1>9. Layout'
  <2> SUFFICES ASSUME Fits32, NEW p \in 1 .. Len(buffer)
               PROVE  buffer'[p] = IF p <= result' \/ p \in Fixeds[L] + 1 .. variable
                                   THEN Encoding[p] ELSE Zero
    BY <1>1, <1>3, <1>6 DEF Layout
  <2>1. buffer[p] = IF p <= result \/ p \in Fixeds[L] + 1 .. variable
                    THEN Encoding[p] ELSE Zero
    BY <1>1 DEF IInv, Layout
  <2>2. p \in Nat
    OBVIOUS
  <2>3. CASE p - result \in 1 .. size(m)
    <3> DEFINE j == p - result
    <3>1. j \in 1 .. size(m)
      BY <2>3
    <3>2. Fixeds[m - 1] + j = p
      BY <1>2, <1>7, <2>2
    <3>3. Encoding[Fixeds[m - 1] + j] = source[m][j]
      BY <1>1, <1>2, <3>1, EncodingLayout DEF EncodingIs
    <3>4. p <= result'
      BY <1>1, <1>2, <2>2, <3>1
    <3> QED BY <1>3, <3>1, <3>2, <3>3, <3>4
  <2>4. CASE p - result \notin 1 .. size(m)
    <3>1. p <= result' <=> p <= result
      BY <1>1, <1>2, <2>2, <2>4
    <3> QED BY <1>3, <2>1, <2>4, <3>1
  <2> QED BY <2>3, <2>4
<1> QED BY <1>4, <1>5, <1>8, <1>9 DEF IInv

LEMMA SerializeListInvariant == ASSUME IInv, SerializeList PROVE IInv'
<1> DEFINE B == BYTES_PER_LENGTH_OFFSET
           offset == Word(variable % UINT32_VALUES)
           half == Written(buffer, result, offset)
<1>1. /\ pc = "serialize" /\ pc' = pc /\ m' = m + 1 /\ m \in Members /\ ~Fixed(m)
      /\ result + B <= End /\ variable + size(m) <= End
      /\ result' = result + B /\ variable' = variable + size(m)
      /\ UNCHANGED <<container, target, reading>>
      /\ buffer' = Written(half, variable, source[m])
  BY DEF SerializeList, FitsAt
<1>2. /\ IsContainer /\ buffer \in Seq(Byte) /\ result \in Nat /\ variable \in Nat
      /\ End \in Nat /\ source[m] \in Seq(Byte) /\ size(m) \in Nat /\ m \in Nat
      /\ B \in Nat
  <2>1. /\ IsContainer /\ buffer \in Seq(Byte) /\ variable \in Nat /\ End \in Nat
        /\ B \in Nat /\ L \in Nat /\ m \in 1 .. L + 1
        /\ result \in Nat
    BY Facts
  <2>2. source[m] \in Seq(Byte) /\ size(m) \in Nat
    BY <1>1, <2>1, Shape
  <2>3. result \in Nat /\ m \in Nat
    BY <1>1, <2>1
  <2> QED BY <2>1, <2>2, <2>3
<1>3. variable % UINT32_VALUES \in Nat
  BY <1>2, CodecAssumption
<1>4. offset \in Seq(Byte) /\ Len(offset) = B
  BY <1>3, WordIsSeq
<1> HIDE DEF offset
<1>5. /\ half \in Seq(Byte) /\ Len(half) = Len(buffer)
      /\ \A p \in 1 .. Len(buffer) :
            half[p] = IF p - result \in 1 .. B THEN offset[p - result]
                                               ELSE buffer[p]
  BY <1>2, <1>4, WrittenIs
<1> HIDE DEF half
<1>6. /\ buffer' \in Seq(Byte) /\ Len(buffer') = Len(buffer)
      /\ \A p \in 1 .. Len(buffer) :
            buffer'[p] = IF p - variable \in 1 .. size(m)
                         THEN source[m][p - variable] ELSE half[p]
  <2> DEFINE w == Written(half, variable, source[m])
  <2>1. /\ w \in Seq(Byte) /\ Len(w) = Len(half)
        /\ \A p \in 1 .. Len(half) :
              w[p] = IF p - variable \in 1 .. Len(source[m])
                     THEN source[m][p - variable] ELSE half[p]
    BY <1>2, <1>5, WrittenIs
  <2> HIDE DEF w
  <2>2. buffer' = w
    BY <1>1 DEF w
  <2>3. Len(half) = Len(buffer) /\ Len(source[m]) = size(m)
    BY <1>5 DEF size
  <2> QED BY <2>1, <2>2, <2>3, Zenon
<1>7. BytesOK' /\ InOrder' /\ FirstPass' /\ SecondPass' /\ RoundTrip32'
  BY <1>1, <1>2, <1>6, StillSerializing DEF End
<1>8. Typed'
  <2>1. result' \in Nat /\ variable' \in Nat
    BY <1>1, <1>2
  <2> QED BY <1>1, <1>6, <2>1, StillTyped
<1>9. /\ Fixeds' = Fixeds /\ Lists' = Lists /\ L' = L /\ Encoding' = Encoding
      /\ (Fits32' => Fits32) /\ written' = m
  BY <1>1, <1>2, SameContainer DEF Fits32, written
<1>10. ASSUME Fits32
       PROVE  /\ result = Fixeds[m - 1] /\ variable = ListAt(m)
              /\ result' = Fixeds[m] /\ variable' = Fixeds[L] + Lists[m]
              /\ result' <= Fixeds[L] /\ Fixeds[L] <= variable /\ Fixeds[L] \in Nat
              /\ End = Fixeds[L] + Lists[L]
              /\ offset = Word(ListAt(m))
  <2>1. /\ result = Fixeds[m - 1] /\ variable = ListAt(m)
        /\ End = Fixeds[L] + Lists[L]
    BY <1>1, <1>10, CursorsAt
  <2>2. /\ result' = Fixeds[m] /\ variable' = Fixeds[L] + Lists[m]
        /\ result' <= Fixeds[L] /\ Fixeds[L] <= variable /\ Fixeds[L] \in Nat
    <3>1. /\ Fixeds[m - 1] \in Nat /\ Fixeds[m] = Fixeds[m - 1] + B
          /\ Fixeds[m] <= Fixeds[L] /\ Fixeds[L] \in Nat /\ Lists[m - 1] \in Nat
          /\ Lists[m] = Lists[m - 1] + size(m)
      BY <1>1, <1>2, Within
    <3>2. result' = Fixeds[m] /\ result' <= Fixeds[L]
      BY <1>1, <2>1, <3>1
    <3>3. variable = Fixeds[L] + Lists[m - 1]
      BY <2>1 DEF ListAt
    <3>4. variable' = variable + size(m) /\ size(m) \in Nat
      BY <1>1, <1>2
    <3>5. variable' = Fixeds[L] + Lists[m] /\ Fixeds[L] <= variable
      BY <3>1, <3>3, <3>4
    <3> QED BY <3>1, <3>2, <3>5
  <2>3. variable < UINT32_VALUES
    BY <1>1, <1>2, <1>10, <2>1, CodecAssumption DEF Fits32
  <2>4. variable % UINT32_VALUES = variable
    BY <1>2, <2>3, CodecAssumption
  <2> QED BY <2>1, <2>2, <2>4 DEF offset
<1>11. Cursors'
  BY <1>1, <1>6, <1>9, <1>10 DEF Cursors, End
<1>12. Layout'
  <2> SUFFICES ASSUME Fits32, NEW p \in 1 .. Len(buffer)
               PROVE  buffer'[p] = IF p <= result' \/ p \in Fixeds[L] + 1 .. variable'
                                   THEN Encoding[p] ELSE Zero
    BY <1>1, <1>6, <1>9 DEF Layout
  <2>1. buffer[p] = IF p <= result \/ p \in Fixeds[L] + 1 .. variable
                    THEN Encoding[p] ELSE Zero
    BY <1>1 DEF IInv, Layout
  <2>2. p \in Nat
    OBVIOUS
  <2>3. CASE p - variable \in 1 .. size(m)
    <3> DEFINE j == p - variable
    <3>1. j \in 1 .. size(m)
      BY <2>3
    <3>2. ListAt(m) + j = p
      BY <1>2, <1>10, <2>2
    <3>3. Encoding[ListAt(m) + j] = source[m][j]
      BY <1>1, <1>2, <3>1, EncodingLayout DEF EncodingIs
    <3>4. p \in Fixeds[L] + 1 .. variable'
      <4> DEFINE f == Fixeds[L]
                 v == variable
                 w == variable'
                 s == size(m)
      <4>1. /\ w = v + s /\ f \in Nat /\ v \in Nat /\ s \in Nat /\ f <= v
        BY <1>1, <1>2, <1>10
      <4>2. p - v \in 1 .. s
        BY <3>1
      <4> HIDE DEF f, v, w, s
      <4>3. p \in f + 1 .. w
        BY <2>2, <4>1, <4>2
      <4> QED BY <4>3 DEF f, w
    <3> QED BY <1>6, <3>1, <3>2, <3>3, <3>4
  <2>4. CASE p - variable \notin 1 .. size(m) /\ p - result \in 1 .. B
    <3> DEFINE j == p - result
    <3>1. j \in 1 .. B
      BY <2>4
    <3>2. Fixeds[m - 1] + j = p
      BY <1>2, <1>10, <2>2
    <3>3. Encoding[Fixeds[m - 1] + j] = Word(ListAt(m))[j]
      BY <1>1, <1>2, <3>1, EncodingLayout DEF EncodingIs
    <3>4. p <= result'
      BY <1>1, <1>2, <2>2, <3>1
    <3>5. buffer'[p] = offset[j]
      BY <1>5, <1>6, <2>4
    <3> QED BY <1>10, <3>2, <3>3, <3>4, <3>5
  <2>5. CASE p - variable \notin 1 .. size(m) /\ p - result \notin 1 .. B
    <3>1. p <= result' <=> p <= result
      BY <1>1, <1>2, <2>2, <2>5
    <3>2. p \in Fixeds[L] + 1 .. variable' <=> p \in Fixeds[L] + 1 .. variable
      BY <1>1, <1>2, <1>10, <2>2, <2>5
    <3>3. buffer'[p] = buffer[p]
      BY <1>5, <1>6, <2>5
    <3> QED BY <2>1, <3>1, <3>2, <3>3
  <2> QED BY <2>3, <2>4, <2>5
<1> QED BY <1>7, <1>8, <1>11, <1>12 DEF IInv

-----------------------------------------------------------------------------
(* deserialize.                                                            *)

(* What no action after serialize changes.                                 *)
LEMMA ReadingStep ==
    ASSUME IInv, UNCHANGED <<container, writing>>,
           pc # "allocate", pc' \in {"fixed", "variable"} \cup Finished,
           written' = written \/ ~Fits32,
           target' \in [Members -> Seq(Byte)],
           \A n \in Members : \/ ~Fixed(n)
                              \/ Len(target'[n]) = Len(target[n])
                              \/ shape[n] = "vector" /\ ~(Fits32 /\ SameVectors),
           shifted' \in 0 .. End, offsets' \in Seq(0 .. UINT32_VALUES - 1),
           k' \in 1 .. Len(offsets') + 1, m' \in 1 .. L + 1
    PROVE  /\ Typed' /\ BytesOK' /\ Cursors' /\ Layout'
           /\ (Fits32' <=> Fits32) /\ (SameVectors' <=> SameVectors)
<1>1. /\ UNCHANGED <<shape, source, held, buffer, result, variable>>
      /\ L' = L /\ Members' = Members /\ End' = End
  BY DEF container, writing, L, Members, End
<1>10. \A n : size(n)' = size(n)
  BY SameContainer
<1>2. L \in Nat /\ Members = 1 .. L
  BY Facts
<1>3. pc' \notin {"allocate", "serialize"} /\ pc' \in {"allocate", "serialize", "fixed", "variable"} \cup Finished
  BY DEF Finished
<1>4. Typed'
  <2>1. Len(target') = L
    BY <1>2
  <2>2. Len(source') = L' /\ Len(target') = L' /\ \A n \in Members' : Len(source'[n]) \in Sizes
    BY <1>1, <2>1 DEF IInv, Typed, L
  <2>3. /\ shape' \in Shapes /\ result' \in Nat /\ variable' \in Nat
        /\ held' \in [Members' -> Sizes]
    BY <1>1 DEF IInv, Typed
  <2>4. \A n \in Members' : shape'[n] = "array" => Len(target'[n]) = size(n)'
    BY <1>1, <1>10 DEF IInv, Typed, Fixed
  <2> QED BY <1>1, <1>3, <2>2, <2>3, <2>4 DEF Typed, L
<1>6. /\ Fixeds' = Fixeds /\ Lists' = Lists /\ Encoding' = Encoding
      /\ (Fits32' <=> Fits32)
  BY SameContainer DEF Fits32
<1>7. SameVectors' <=> SameVectors
  BY SameContainer
<1>5. BytesOK'
  BY <1>1, <1>6, <1>7, <1>10 DEF IInv, BytesOK, Fixed
<1>8. Cursors'
  BY <1>1, <1>6 DEF IInv, Cursors
<1>9. Layout'
  BY <1>1, <1>6 DEF IInv, Layout
<1> QED BY <1>4, <1>5, <1>6, <1>7, <1>8, <1>9

(* An action that leaves the target and the offsets alone.                 *)
LEMMA ControlStep ==
    ASSUME IInv, UNCHANGED <<container, writing, target, reading>>,
           pc # "allocate", pc' \in {"fixed", "variable"} \cup Finished,
           written' = written \/ ~Fits32, m' \in 1 .. L + 1
    PROVE  /\ Typed' /\ BytesOK' /\ Cursors' /\ Layout'
           /\ (Fits32' <=> Fits32) /\ (SameVectors' <=> SameVectors)
<1>1. UNCHANGED <<target, shifted, offsets, k>>
  BY DEF reading
<1>2. /\ target' \in [Members -> Seq(Byte)] /\ shifted' \in 0 .. End
      /\ offsets' \in Seq(0 .. UINT32_VALUES - 1) /\ k' \in 1 .. Len(offsets') + 1
  BY <1>1, Facts
<1> QED BY <1>1, <1>2, ReadingStep

(* One that gives up, which no container that fits makes it do.            *)
LEMMA GivingUp ==
    ASSUME IInv, UNCHANGED <<container, writing, target, reading>>,
           pc # "allocate", pc' \in {"threw", "undefined"}, m' = 1,
           written' = written \/ ~Fits32, ~(Fits32 /\ SameVectors)
    PROVE  IInv'
<1>1. L \in Nat
  BY Facts
<1>2. /\ Typed' /\ BytesOK' /\ Cursors' /\ Layout'
      /\ (Fits32' <=> Fits32) /\ (SameVectors' <=> SameVectors)
  BY <1>1, ControlStep DEF Finished
<1>3. InOrder' /\ FirstPass' /\ SecondPass' /\ RoundTrip32'
  BY <1>2 DEF InOrder, FirstPass, SecondPass, RoundTrip32
<1> QED BY <1>2, <1>3 DEF IInv

LEMMA SerializedInvariant == ASSUME IInv, Serialized PROVE IInv'
<1>1. /\ pc = "serialize" /\ m \notin Members /\ pc' = "fixed" /\ m' = 1
      /\ UNCHANGED <<container, target, writing, reading>>
  BY DEF Serialized, Goto
<1>2. L \in Nat /\ m - 1 = L /\ IsContainer
  BY <1>1, Facts
<1>3. written' = written
  BY <1>1, <1>2, SameContainer DEF written
<1>4. Typed' /\ BytesOK' /\ Cursors' /\ Layout'
  BY <1>1, <1>2, <1>3, ControlStep
<1>5. offsets' = <<>> /\ shifted' = 0 /\ k' = 1
  BY <1>1 DEF IInv, InOrder, reading
<1>6. InOrder'
  BY <1>1, <1>5 DEF InOrder
<1>7. FirstPass'
  <2>1. passed' = 0
    BY <1>1 DEF passed
  <2>2. Fixeds'[0] = 0 /\ Count'[0] = 0
    BY <1>1, SameContainer, SumsUnfold
  <2>3. \A n \in 1 .. passed' : FALSE
    BY <2>1
  <2>4. shifted' = Fixeds'[passed'] /\ Len(offsets') = Count'[passed']
    BY <1>5, <2>1, <2>2
  <2> QED BY <2>3, <2>4 DEF FirstPass
<1>8. SecondPass' /\ RoundTrip32'
  BY <1>1 DEF SecondPass, RoundTrip32
<1> QED BY <1>4, <1>6, <1>7, <1>8 DEF IInv

(* What the first pass knows before it reads the fixed part of a member.   *)
LEMMA FirstPassAt ==
    ASSUME IInv, Fits32, SameVectors, pc = "fixed"
    PROVE  /\ shifted = Fixeds[m - 1] /\ Len(offsets) = Count[m - 1]
           /\ \A n \in 1 .. m - 1 :
                 IF Fixed(n) THEN target[n] = source[n]
                             ELSE offsets[Count[n]] = ListAt(n)
           /\ m \in Members /\ Fixed(m) => Len(target[m]) = size(m)
<1>1. passed = m - 1
  BY DEF passed
<1>2. /\ shifted = Fixeds[m - 1] /\ Len(offsets) = Count[m - 1]
      /\ \A n \in 1 .. m - 1 :
            IF Fixed(n) THEN target[n] = source[n]
                        ELSE offsets[Count[n]] = ListAt(n)
  BY <1>1 DEF IInv, FirstPass
<1>3. ASSUME m \in Members, Fixed(m) PROVE Len(target[m]) = size(m)
  <2>1. shape[m] = "array" \/ shape[m] = "vector"
    BY <1>3, Facts, Shape DEF Fixed
  <2>2. CASE shape[m] = "array"
    BY <1>3, <2>2 DEF IInv, Typed
  <2>3. CASE shape[m] = "vector"
    BY <1>3, <2>3 DEF IInv, BytesOK
  <2> QED BY <2>1, <2>2, <2>3
<1> QED BY <1>2, <1>3

LEMMA DeserializeFixedInvariant == ASSUME IInv, DeserializeFixed PROVE IInv'
<1> DEFINE to == shifted + Len(target[m])
<1>1. /\ pc = "fixed" /\ pc' = pc /\ m' = m + 1 /\ m \in Members /\ Fixed(m)
      /\ to <= End /\ shifted' = to
      /\ target' = [target EXCEPT ![m] = Slice(shifted, to)]
      /\ UNCHANGED <<container, writing, offsets, k>>
  BY DEF DeserializeFixed, FitsAt
<1>2. /\ IsContainer /\ L \in Nat /\ Members = 1 .. L /\ buffer \in Seq(Byte)
      /\ End \in Nat /\ shifted \in Nat /\ target \in [Members -> Seq(Byte)]
  BY Facts
<1>3. Len(target[m]) \in Nat /\ to \in Nat /\ shifted <= to /\ to - shifted = Len(target[m])
  <2>1. Len(target[m]) \in Nat
    BY <1>1, <1>2
  <2> QED BY <1>2, <2>1
<1>4. Slice(shifted, to) \in Seq(Byte) /\ Len(Slice(shifted, to)) = Len(target[m])
  <2> HIDE DEF to
  <2> QED BY <1>1, <1>2, <1>3, SliceIs
<1>5. /\ target'[m] = Slice(shifted, to)
      /\ \A n \in Members : n # m => target'[n] = target[n]
      /\ target' \in [Members -> Seq(Byte)]
  <2> HIDE DEF to
  <2> QED BY <1>1, <1>2, <1>4
<1>6. \A n \in Members : Len(target'[n]) = Len(target[n])
  BY <1>4, <1>5
<1>7. /\ Typed' /\ BytesOK' /\ Cursors' /\ Layout'
      /\ (Fits32' <=> Fits32) /\ (SameVectors' <=> SameVectors)
  <2>1. shifted' \in 0 .. End /\ m' \in 1 .. L + 1 /\ written' = written
    BY <1>1, <1>2, <1>3, SameContainer DEF written
  <2>2. offsets' \in Seq(0 .. UINT32_VALUES - 1) /\ k' \in 1 .. Len(offsets') + 1
    BY <1>1, Facts
  <2> QED BY <1>1, <1>5, <1>6, <2>1, <2>2, ReadingStep
<1>8. InOrder'
  BY <1>1 DEF IInv, InOrder
<1>9. FirstPass'
  <2>1. /\ Fixeds' = Fixeds /\ Count' = Count /\ source' = source
        /\ \A n : Fixed(n)' = Fixed(n) /\ ListAt(n)' = ListAt(n)
    BY <1>1, SameContainer
  <2>2. passed' = m
    BY <1>1, <1>2 DEF passed
  <2> SUFFICES ASSUME Fits32, SameVectors
               PROVE  /\ shifted' = Fixeds[m] /\ Len(offsets) = Count[m]
                      /\ \A n \in 1 .. m : IF Fixed(n) THEN target'[n] = source[n]
                                           ELSE offsets[Count[n]] = ListAt(n)
    BY <1>1, <1>7, <2>1, <2>2 DEF FirstPass
  <2>3. /\ shifted = Fixeds[m - 1] /\ Len(offsets) = Count[m - 1]
        /\ \A n \in 1 .. m - 1 : IF Fixed(n) THEN target[n] = source[n]
                                 ELSE offsets[Count[n]] = ListAt(n)
        /\ Len(target[m]) = size(m)
    BY <1>1, FirstPassAt
  <2>4. shifted' = Fixeds[m] /\ Len(offsets) = Count[m]
    BY <1>1, <1>2, <2>3, Within
  <2>5. to = Fixeds[m - 1] + size(m)
    BY <2>3
  <2> HIDE DEF to
  <2>6. target'[m] = source[m]
    BY <1>1, <1>5, <2>3, <2>5, FixedRead
  <2>7. ASSUME NEW n \in 1 .. m
        PROVE  IF Fixed(n) THEN target'[n] = source[n]
                           ELSE offsets[Count[n]] = ListAt(n)
    <3>1. CASE n = m
      BY <1>1, <2>6, <3>1
    <3>2. CASE n # m
      <4>1. n \in 1 .. m - 1 /\ n \in Members
        BY <1>1, <1>2, <3>2
      <4> QED BY <1>5, <2>3, <3>2, <4>1
    <3> QED BY <3>1, <3>2
  <2> QED BY <2>4, <2>7
<1>10. SecondPass' /\ RoundTrip32'
  BY <1>1 DEF SecondPass, RoundTrip32
<1> QED BY <1>7, <1>8, <1>9, <1>10 DEF IInv

(* No container that fits runs out of bytes.                               *)
LEMMA DeserializeShortInvariant == ASSUME IInv, DeserializeShort PROVE IInv'
<1> DEFINE lacking == IF shape[m] = "vector" THEN 0
                      ELSE Len(target[m]) - (End - shifted)
           taken == Slice(shifted, End)
<1>1. PICK rest \in [1 .. lacking -> {Zero, Stale}] :
         /\ pc = "fixed" /\ pc' = pc /\ m' = m + 1 /\ m \in Members /\ Fixed(m)
         /\ ~(shifted + Len(target[m]) <= End) /\ shifted' = End
         /\ target' = [target EXCEPT ![m] = taken \o rest]
         /\ UNCHANGED <<container, writing, offsets, k>>
  BY DEF DeserializeShort, FitsAt
<1>2. /\ IsContainer /\ L \in Nat /\ Members = 1 .. L /\ buffer \in Seq(Byte)
      /\ End \in Nat /\ shifted \in 0 .. End /\ target \in [Members -> Seq(Byte)]
  BY Facts
<1>3. ASSUME Fits32, SameVectors PROVE FALSE
  <2>1. shifted = Fixeds[m - 1] /\ Len(target[m]) = size(m)
    BY <1>1, <1>3, FirstPassAt
  <2>2. Fixeds[m - 1] + size(m) <= End
    BY <1>1, <1>3, FixedRead DEF size_or_placeholder
  <2> QED BY <1>1, <2>1, <2>2
<1>4. taken \in Seq(Byte) /\ Len(taken) = End - shifted
  <2>1. shifted \in Nat /\ End \in Nat /\ End <= End /\ shifted <= End
    BY <1>2
  <2>2. /\ taken \in Seq(Byte)
        /\ Len(taken) = IF shifted <= End THEN End - shifted ELSE 0
    BY <1>2, <2>1, SliceIs
  <2> QED BY <2>1, <2>2
<1>5. Len(target[m]) \in Nat /\ lacking \in Nat
  <2>1. Len(target[m]) \in Nat
    BY <1>1, <1>2
  <2> QED BY <1>1, <1>2, <2>1
<1>6. rest \in Seq(Byte) /\ Len(rest) = lacking
  <2> HIDE DEF lacking
  <2>1. rest \in [1 .. lacking -> Byte]
    BY <1>1 DEF Byte
  <2> QED BY <1>5, <2>1
<1> HIDE DEF taken
<1>7. taken \o rest \in Seq(Byte) /\ Len(taken \o rest) = Len(taken) + Len(rest)
  BY <1>4, <1>6
<1>8. shape[m] = "vector" \/ Len(taken \o rest) = Len(target[m])
  <2>1. CASE shape[m] = "vector"
    BY <2>1
  <2>2. CASE shape[m] # "vector"
    <3>1. Len(taken \o rest) = (End - shifted) + (Len(target[m]) - (End - shifted))
      BY <1>4, <1>6, <1>7, <2>2
    <3> QED BY <1>2, <1>5, <3>1
  <2> QED BY <2>1, <2>2
<1> DEFINE b == taken \o rest
<1> HIDE DEF b
<1>9. /\ target' \in [Members -> Seq(Byte)] /\ target'[m] = b
      /\ \A n \in Members : n # m => target'[n] = target[n]
  BY <1>1, <1>2, <1>7 DEF b
<1>10. ASSUME NEW n \in Members
       PROVE  \/ ~Fixed(n)
              \/ Len(target'[n]) = Len(target[n])
              \/ shape[n] = "vector" /\ ~(Fits32 /\ SameVectors)
  <2>1. CASE n = m
    BY <1>3, <1>8, <1>9, <2>1 DEF b
  <2>2. CASE n # m
    BY <1>9, <2>2
  <2> QED BY <2>1, <2>2
<1>11. /\ Typed' /\ BytesOK' /\ Cursors' /\ Layout'
       /\ (Fits32' <=> Fits32) /\ (SameVectors' <=> SameVectors)
  <2>1. shifted' \in 0 .. End /\ m' \in 1 .. L + 1 /\ written' = written
    BY <1>1, <1>2, SameContainer DEF written
  <2>2. offsets' \in Seq(0 .. UINT32_VALUES - 1) /\ k' \in 1 .. Len(offsets') + 1
    BY <1>1, Facts
  <2> QED BY <1>1, <1>9, <1>10, <2>1, <2>2, ReadingStep
<1>12. InOrder'
  BY <1>1 DEF IInv, InOrder
<1>13. FirstPass' /\ SecondPass' /\ RoundTrip32'
  BY <1>3, <1>11 DEF FirstPass, SecondPass, RoundTrip32
<1> QED BY <1>11, <1>12, <1>13 DEF IInv

LEMMA ReadOffsetInvariant == ASSUME IInv, ReadOffset PROVE IInv'
<1> DEFINE B == BYTES_PER_LENGTH_OFFSET
<1>1. PICK v \in WordsAt(shifted) :
         /\ pc = "fixed" /\ pc' = pc /\ m' = m + 1 /\ m \in Members /\ ~Fixed(m)
         /\ shifted + B <= End /\ shifted' = shifted + B
         /\ offsets' = Append(offsets, v)
         /\ UNCHANGED <<container, target, writing, k>>
  BY DEF ReadOffset, FitsAt
<1>2. /\ IsContainer /\ L \in Nat /\ Members = 1 .. L /\ B \in Nat
      /\ End \in Nat /\ shifted \in Nat /\ target \in [Members -> Seq(Byte)]
  BY Facts
<1>3. v \in 0 .. UINT32_VALUES - 1 /\ offsets \in Seq(0 .. UINT32_VALUES - 1)
  BY <1>1, OffsetsAre32, Facts
<1>4. /\ offsets' \in Seq(0 .. UINT32_VALUES - 1)
      /\ Len(offsets') = Len(offsets) + 1 /\ Len(offsets) \in Nat
      /\ \A i \in 1 .. Len(offsets) : offsets'[i] = offsets[i]
      /\ offsets'[Len(offsets) + 1] = v
  BY <1>1, <1>3, AppendProperties
<1>5. /\ Typed' /\ BytesOK' /\ Cursors' /\ Layout'
      /\ (Fits32' <=> Fits32) /\ (SameVectors' <=> SameVectors)
  <2>1. shifted' \in 0 .. End /\ m' \in 1 .. L + 1 /\ written' = written
    BY <1>1, <1>2, SameContainer DEF written
  <2>2. k' \in 1 .. Len(offsets') + 1
    <3>1. k' = k /\ k \in 1 .. Len(offsets) + 1
      BY <1>1, Facts
    <3> QED BY <1>4, <3>1
  <2> QED BY <1>1, <1>2, <1>4, <2>1, <2>2, ReadingStep
<1>6. InOrder'
  BY <1>1 DEF IInv, InOrder
<1>7. FirstPass'
  <2>1. /\ Fixeds' = Fixeds /\ Count' = Count /\ source' = source
        /\ \A n : Fixed(n)' = Fixed(n) /\ ListAt(n)' = ListAt(n)
    BY <1>1, SameContainer
  <2>2. passed' = m
    BY <1>1, <1>2 DEF passed
  <2> SUFFICES ASSUME Fits32, SameVectors
               PROVE  /\ shifted' = Fixeds[m] /\ Len(offsets') = Count[m]
                      /\ \A n \in 1 .. m : IF Fixed(n) THEN target[n] = source[n]
                                           ELSE offsets'[Count[n]] = ListAt(n)
    BY <1>1, <1>5, <2>1, <2>2 DEF FirstPass
  <2>3. /\ shifted = Fixeds[m - 1] /\ Len(offsets) = Count[m - 1]
        /\ \A n \in 1 .. m - 1 : IF Fixed(n) THEN target[n] = source[n]
                                 ELSE offsets[Count[n]] = ListAt(n)
    BY <1>1, FirstPassAt
  <2>4. /\ Fixeds[m] = Fixeds[m - 1] + B /\ Count[m] = Count[m - 1] + 1
        /\ Count[m - 1] \in Nat
    BY <1>1, <1>2, Within
  <2>5. shifted' = Fixeds[m] /\ Len(offsets') = Count[m]
    BY <1>1, <1>4, <2>3, <2>4
  <2>6. v = ListAt(m)
    <3>1. WordsAt(Fixeds[m - 1]) = {ListAt(m)}
      BY <1>1, FixedRead
    <3> QED BY <1>1, <2>3, <3>1
  <2>7. ASSUME NEW n \in 1 .. m
        PROVE  IF Fixed(n) THEN target[n] = source[n]
                           ELSE offsets'[Count[n]] = ListAt(n)
    <3>1. CASE n = m
      BY <1>1, <1>4, <2>3, <2>4, <2>6, <3>1
    <3>2. CASE n # m
      <4>1. n \in 1 .. m - 1 /\ n \in Members /\ n \in 0 .. m - 1 /\ m - 1 \in 0 .. L
        BY <1>1, <1>2, <3>2
      <4>2. CASE ~Fixed(n)
        <5>1. Count[n] = Count[n - 1] + 1 /\ Count[n - 1] \in Nat
          BY <1>2, <4>1, <4>2, Within
        <5>2. Count[n] <= Count[m - 1]
          BY <1>2, <4>1, SumsGrow
        <5>3. Count[n] \in 1 .. Len(offsets)
          BY <2>3, <2>4, <5>1, <5>2
        <5> QED BY <1>4, <2>3, <4>1, <4>2, <5>3
      <4> QED BY <2>3, <4>1, <4>2
    <3> QED BY <3>1, <3>2
  <2> QED BY <2>5, <2>7
<1>8. SecondPass' /\ RoundTrip32'
  BY <1>1 DEF SecondPass, RoundTrip32
<1> QED BY <1>5, <1>6, <1>7, <1>8 DEF IInv

LEMMA DeserializeThrowsInvariant == ASSUME IInv, DeserializeThrows PROVE IInv'
<1>1. /\ pc = "fixed" /\ pc' = "threw" /\ m' = 1 /\ m \in Members /\ Fixed(m)
      /\ shifted + Len(target[m]) <= End
            => Slice(shifted, shifted + Len(target[m])) # source[m]
      /\ UNCHANGED <<container, target, writing, reading>>
  BY DEF DeserializeThrows, Goto, FitsAt, Fixed
<1>2. ASSUME Fits32, SameVectors PROVE FALSE
  <2>1. shifted = Fixeds[m - 1] /\ Len(target[m]) = size(m)
    BY <1>1, <1>2, FirstPassAt
  <2>2. /\ Fixeds[m - 1] + size(m) <= End
        /\ Slice(Fixeds[m - 1], Fixeds[m - 1] + size(m)) = source[m]
    BY <1>1, <1>2, FixedRead DEF size_or_placeholder
  <2> QED BY <1>1, <2>1, <2>2
<1>3. written' = written
  BY <1>1, SameContainer DEF written
<1> QED BY <1>1, <1>2, <1>3, GivingUp

LEMMA FixedDoneInvariant == ASSUME IInv, FixedDone PROVE IInv'
<1>1. /\ pc = "fixed" /\ m \notin Members /\ m' = 1
      /\ pc' = IF offsets = <<>> THEN "done" ELSE "variable"
      /\ UNCHANGED <<container, target, writing, reading>>
  BY DEF FixedDone, Goto
<1>2. /\ IsContainer /\ L \in Nat /\ Members = 1 .. L /\ m - 1 = L
      /\ offsets \in Seq(0 .. UINT32_VALUES - 1)
  BY <1>1, Facts
<1>3. written' = written
  BY <1>1, SameContainer DEF written
<1>4. /\ Typed' /\ BytesOK' /\ Cursors' /\ Layout'
      /\ (Fits32' <=> Fits32) /\ (SameVectors' <=> SameVectors)
  BY <1>1, <1>2, <1>3, ControlStep DEF Finished
<1>5. /\ Fixeds' = Fixeds /\ Count' = Count /\ source' = source
      /\ L' = L /\ Members' = Members
      /\ \A n : Fixed(n)' = Fixed(n) /\ ListAt(n)' = ListAt(n)
  BY <1>1, SameContainer
<1>6. UNCHANGED <<target, shifted, offsets, k>>
  BY <1>1 DEF reading
<1>7. ASSUME Fits32, SameVectors
      PROVE  /\ shifted = Fixeds[L] /\ Len(offsets) = Count[L]
             /\ \A n \in 1 .. L : IF Fixed(n) THEN target[n] = source[n]
                                  ELSE offsets[Count[n]] = ListAt(n)
  BY <1>1, <1>2, <1>7, FirstPassAt
<1>8. InOrder'
  BY <1>1 DEF InOrder
<1>9. passed' = L
  BY <1>1, <1>5 DEF passed
<1>10. FirstPass'
  BY <1>1, <1>4, <1>5, <1>6, <1>7, <1>9 DEF FirstPass
<1>11. SecondPass'
  <2> SUFFICES ASSUME pc' = "variable"
               PROVE  /\ Len(offsets') > 0 /\ k' = Count'[m' - 1] + 1
                      /\ \A n \in 1 .. m' - 1 : FALSE
    BY DEF SecondPass
  <2>1. offsets # <<>>
    BY <1>1
  <2>2. Len(offsets') > 0
    BY <1>2, <1>6, <2>1
  <2>3. Count[0] = 0 /\ k = 1 /\ m' - 1 = 0
    BY <1>1, SumsUnfold DEF IInv, InOrder
  <2> QED BY <1>5, <1>6, <2>2, <2>3
<1>12. RoundTrip32'
  <2> SUFFICES ASSUME Fits32, SameVectors, offsets = <<>>, NEW n \in Members
               PROVE  target[n] = source[n]
    BY <1>1, <1>4, <1>5, <1>6 DEF RoundTrip32
  <2>1. Count[L] = 0
    BY <1>7
  <2>2. Fixed(n)
    <3>1. /\ Count[n] <= 0 /\ Count[n - 1] \in Nat
          /\ ~Fixed(n) => Count[n] = Count[n - 1] + 1
      BY <1>2, <2>1, Within
    <3> QED BY <3>1
  <2> QED BY <1>2, <1>7, <2>2
<1> QED BY <1>4, <1>8, <1>10, <1>11, <1>12 DEF IInv

LEMMA OffsetNatural ==
    ASSUME IInv, NEW i \in 1 .. Len(offsets)
    PROVE  offsets[i] \in Nat
<1> DEFINE T == 0 .. UINT32_VALUES - 1
<1>1. offsets \in Seq(T)
  BY Facts
<1>2. T \subseteq Nat
  BY CodecAssumption
<1> HIDE DEF T
<1>3. offsets[i] \in T
  BY <1>1
<1> QED BY <1>2, <1>3

(* What the second pass knows before it reads a member: every offset is    *)
(* that of a list, and the next one is where this list ends.               *)
LEMMA OffsetsAt ==
    ASSUME IInv, Fits32, SameVectors, pc = "variable"
    PROVE  /\ shifted = Fixeds[L] /\ Len(offsets) = Count[L] /\ Len(offsets) > 0
           /\ k = Count[m - 1] + 1
           /\ \A n \in Members : Fixed(n) => target[n] = source[n]
           /\ \A n \in 1 .. m - 1 : ~Fixed(n) => target[n] = source[n]
           /\ \A n \in Members : ~Fixed(n) => offsets[Count[n]] = ListAt(n)
<1>1. passed = L
  BY DEF passed
<1>2. Members = 1 .. L
  BY Facts
<1>3. /\ shifted = Fixeds[L] /\ Len(offsets) = Count[L]
      /\ \A n \in Members : IF Fixed(n) THEN target[n] = source[n]
                                        ELSE offsets[Count[n]] = ListAt(n)
  BY <1>1, <1>2 DEF IInv, FirstPass
<1>4. /\ Len(offsets) > 0 /\ k = Count[m - 1] + 1
      /\ \A n \in 1 .. m - 1 : ~Fixed(n) => target[n] = source[n]
  BY DEF IInv, SecondPass
<1> QED BY <1>3, <1>4

LEMMA NextOffset ==
    ASSUME IInv, Fits32, SameVectors, pc = "variable",
           NEW n \in Members, ~Fixed(n)
    PROVE  /\ Count[n] < Len(offsets) =>
                 offsets[Count[n] + 1] = ListAt(n) + size(n)
           /\ Count[n] = Len(offsets) => End = ListAt(n) + size(n)
           /\ offsets[Count[n]] = ListAt(n)
           /\ Count[n] \in 1 .. Len(offsets)
<1>1. IsContainer /\ L \in Nat /\ Members = 1 .. L
  BY Facts
<1>2. /\ n \in 0 .. L /\ L \in 0 .. L /\ Count[n] \in Nat /\ Count[L] \in Nat
      /\ Count[n] = Count[n - 1] + 1 /\ Count[n - 1] \in Nat
      /\ Lists[n - 1] \in Nat /\ Fixeds[L] \in Nat /\ size(n) \in Nat
      /\ Lists[n] = Lists[n - 1] + size(n)
      /\ Count[n] <= Count[L]
  BY <1>1, Within
<1>3. Len(offsets) = Count[L] /\ offsets[Count[n]] = ListAt(n)
  BY OffsetsAt
<1>4. ListAt(n) + size(n) = Fixeds[L] + Lists[n]
  BY <1>2 DEF ListAt
<1>5. ASSUME Count[n] < Count[L]
      PROVE  offsets[Count[n] + 1] = ListAt(n) + size(n)
  <2>1. Count[n] + 1 \in 1 .. Count[L]
    BY <1>2, <1>5
  <2>2. PICK i \in 1 .. L : ~Fixed(i) /\ Count[i] = Count[n] + 1
    BY <1>1, <1>2, <2>1, ListNumber
  <2>3. /\ i - 1 \in 0 .. L /\ Count[i] = Count[i - 1] + 1
        /\ Count[i - 1] \in Nat
    BY <1>1, <2>2, Within
  <2>4. Count[i - 1] = Count[n]
    BY <1>2, <2>2, <2>3
  <2>5. Lists[i - 1] = Lists[n]
    BY <1>1, <1>2, <2>3, <2>4, EqualCounts
  <2>6. offsets[Count[i]] = ListAt(i)
    BY <1>1, <2>2, OffsetsAt
  <2> QED BY <1>4, <2>2, <2>5, <2>6 DEF ListAt
<1>6. ASSUME Count[n] = Count[L]
      PROVE  End = ListAt(n) + size(n)
  <2>1. Lists[n] = Lists[L]
    BY <1>1, <1>2, <1>6, EqualCounts
  <2>2. End = Fixeds[L] + Lists[L]
    BY BufferIsEncoding DEF End
  <2> QED BY <1>4, <2>1, <2>2
<1>7. Count[n] \in 1 .. Count[L]
  BY <1>2
<1> QED BY <1>3, <1>5, <1>6, <1>7

(* The list at hand has the offset the iterator is at.                     *)
LEMMA IteratorAt ==
    ASSUME IInv, Fits32, SameVectors, pc = "variable", m \in Members, ~Fixed(m)
    PROVE  k = Count[m] /\ offsets[k] = ListAt(m)
<1>1. IsContainer
  BY Facts
<1>2. Count[m] = Count[m - 1] + 1
  BY <1>1, Within
<1> QED BY <1>2, OffsetsAt

LEMMA SkipInvariant == ASSUME IInv, Skip PROVE IInv'
<1>1. /\ pc = "variable" /\ pc' = pc /\ m \in Members /\ Fixed(m) /\ m' = m + 1
      /\ UNCHANGED <<container, target, writing, reading>>
  BY DEF Skip
<1>2. IsContainer /\ L \in Nat /\ Members = 1 .. L
  BY Facts
<1>3. written' = written /\ m' \in 1 .. L + 1
  BY <1>1, <1>2, SameContainer DEF written
<1>4. /\ Typed' /\ BytesOK' /\ Cursors' /\ Layout'
      /\ (Fits32' <=> Fits32) /\ (SameVectors' <=> SameVectors)
  BY <1>1, <1>3, ControlStep
<1>5. /\ Fixeds' = Fixeds /\ Count' = Count /\ source' = source
      /\ L' = L /\ Members' = Members
      /\ \A n : Fixed(n)' = Fixed(n) /\ ListAt(n)' = ListAt(n)
  BY <1>1, SameContainer
<1>6. UNCHANGED <<target, shifted, offsets, k>>
  BY <1>1 DEF reading
<1>7. passed' = L /\ passed = L
  BY <1>1, <1>5 DEF passed
<1>8. FirstPass'
  BY <1>1, <1>4, <1>5, <1>6, <1>7 DEF IInv, FirstPass
<1>9. SecondPass'
  <2> SUFFICES ASSUME Fits32, SameVectors
               PROVE  /\ Len(offsets) > 0 /\ k = Count[m] + 1
                      /\ \A n \in 1 .. m : ~Fixed(n) => target[n] = source[n]
    <3>1. m' - 1 = m
      BY <1>1, <1>2
    <3> QED BY <1>1, <1>4, <1>5, <1>6, <3>1 DEF SecondPass
  <2>1. Count[m] = Count[m - 1]
    BY <1>1, <1>2, Within
  <2>2. /\ Len(offsets) > 0 /\ k = Count[m - 1] + 1
        /\ \A n \in 1 .. m - 1 : ~Fixed(n) => target[n] = source[n]
    BY <1>1, OffsetsAt
  <2>3. \A n \in 1 .. m : n = m \/ n \in 1 .. m - 1
    BY <1>1, <1>2
  <2> QED BY <1>1, <2>1, <2>2, <2>3
<1>10. InOrder' /\ RoundTrip32'
  BY <1>1 DEF InOrder, RoundTrip32
<1> QED BY <1>4, <1>8, <1>9, <1>10 DEF IInv

(* Both actions that read a list: from the offset the iterator is at to    *)
(* the end of the list.                                                    *)
LEMMA ListStep ==
    ASSUME IInv, NEW to \in 0 .. End,
           pc = "variable", pc' = pc, m \in Members, ~Fixed(m),
           k \in 1 .. Len(offsets),
           target' = [target EXCEPT ![m] = Slice(offsets[k], to)],
           Fits32 /\ SameVectors => to = ListAt(m) + size(m),
           k' = k + 1, m' = m + 1,
           UNCHANGED <<container, writing, shifted, offsets>>
    PROVE  IInv'
<1>1. /\ IsContainer /\ L \in Nat /\ Members = 1 .. L /\ buffer \in Seq(Byte)
      /\ End \in Nat /\ shifted \in 0 .. End /\ target \in [Members -> Seq(Byte)]
      /\ offsets \in Seq(0 .. UINT32_VALUES - 1)
  BY Facts
<1>2. offsets[k] \in Nat
  BY OffsetNatural
<1>3. Slice(offsets[k], to) \in Seq(Byte)
  <2>1. to \in Nat /\ to <= End
    BY <1>1
  <2> QED BY <1>1, <1>2, <2>1, SliceIs
<1>4. /\ target'[m] = Slice(offsets[k], to)
      /\ \A n \in Members : n # m => target'[n] = target[n]
      /\ target' \in [Members -> Seq(Byte)]
  BY <1>1, <1>3
<1>5. \A n \in Members : Fixed(n) => target'[n] = target[n]
  BY <1>4
<1>6. /\ Typed' /\ BytesOK' /\ Cursors' /\ Layout'
      /\ (Fits32' <=> Fits32) /\ (SameVectors' <=> SameVectors)
  <2>1. m' \in 1 .. L + 1 /\ written' = written
    BY <1>1, SameContainer DEF written
  <2>2. offsets' \in Seq(0 .. UINT32_VALUES - 1) /\ k' \in 1 .. Len(offsets') + 1
    <3>1. Len(offsets) \in Nat
      BY <1>1
    <3>2. k + 1 \in 1 .. Len(offsets) + 1
      BY <3>1
    <3> QED BY <1>1, <3>2
  <2>3. shifted' \in 0 .. End
    BY <1>1
  <2> QED BY <1>4, <1>5, <2>1, <2>2, <2>3, ReadingStep
<1>7. /\ Fixeds' = Fixeds /\ Count' = Count /\ source' = source
      /\ L' = L /\ Members' = Members
      /\ \A n : Fixed(n)' = Fixed(n) /\ ListAt(n)' = ListAt(n)
  BY SameContainer
<1>8. FirstPass'
  <2> SUFFICES ASSUME Fits32, SameVectors
               PROVE  /\ shifted = Fixeds[L] /\ Len(offsets) = Count[L]
                      /\ \A n \in Members : IF Fixed(n) THEN target'[n] = source[n]
                                            ELSE offsets[Count[n]] = ListAt(n)
    <3>1. passed' = L
      BY <1>7 DEF passed
    <3> QED BY <1>1, <1>6, <1>7, <3>1 DEF FirstPass
  <2> QED BY <1>5, OffsetsAt
<1>9. SecondPass'
  <2> SUFFICES ASSUME Fits32, SameVectors
               PROVE  /\ Len(offsets) > 0 /\ k + 1 = Count[m] + 1
                      /\ \A n \in 1 .. m : ~Fixed(n) => target'[n] = source[n]
    <3>1. m' - 1 = m
      BY <1>1
    <3> QED BY <1>6, <1>7, <3>1 DEF SecondPass
  <2>1. k = Count[m] /\ offsets[k] = ListAt(m)
    BY IteratorAt
  <2>2. target'[m] = source[m]
    BY <1>4, <2>1, ListRead
  <2>3. ASSUME NEW n \in 1 .. m, ~Fixed(n) PROVE target'[n] = source[n]
    <3>1. CASE n = m
      BY <2>2, <3>1
    <3>2. CASE n # m
      <4>1. n \in 1 .. m - 1 /\ n \in Members
        BY <1>1, <3>2
      <4> QED BY <1>4, <2>3, <3>2, <4>1, OffsetsAt
    <3> QED BY <3>1, <3>2
  <2> QED BY <2>1, <2>3, OffsetsAt
<1>10. InOrder' /\ RoundTrip32'
  BY DEF InOrder, RoundTrip32
<1> QED BY <1>6, <1>8, <1>9, <1>10 DEF IInv

LEMMA DeserializeListInvariant == ASSUME IInv, DeserializeList PROVE IInv'
<1>1. /\ pc = "variable" /\ pc' = pc /\ m \in Members /\ ~Fixed(m)
      /\ k < Len(offsets) /\ offsets[k + 1] <= End
      /\ target' = [target EXCEPT ![m] = Slice(offsets[k], offsets[k + 1])]
      /\ k' = k + 1 /\ m' = m + 1
      /\ UNCHANGED <<container, writing, shifted, offsets>>
  BY DEF DeserializeList
<1>2. offsets \in Seq(0 .. UINT32_VALUES - 1) /\ k \in 1 .. Len(offsets) + 1 /\ End \in Nat
  BY Facts
<1>3. Len(offsets) \in Nat
  BY <1>2
<1>4. k \in 1 .. Len(offsets) /\ k + 1 \in 1 .. Len(offsets)
  BY <1>1, <1>2, <1>3
<1>5. offsets[k + 1] \in Nat
  BY <1>4, OffsetNatural
<1>6. offsets[k + 1] \in 0 .. End
  BY <1>1, <1>2, <1>5
<1>7. ASSUME Fits32, SameVectors PROVE offsets[k + 1] = ListAt(m) + size(m)
  <2>1. k = Count[m]
    BY <1>1, <1>7, IteratorAt
  <2> QED BY <1>1, <1>7, <2>1, NextOffset
<1> QED BY <1>1, <1>4, <1>6, <1>7, ListStep

LEMMA DeserializeLastInvariant == ASSUME IInv, DeserializeLast PROVE IInv'
<1>1. /\ pc = "variable" /\ pc' = pc /\ m \in Members /\ ~Fixed(m)
      /\ k = Len(offsets)
      /\ target' = [target EXCEPT ![m] = Slice(offsets[k], End)]
      /\ k' = k + 1 /\ m' = m + 1
      /\ UNCHANGED <<container, writing, shifted, offsets>>
  BY DEF DeserializeLast
<1>2. k \in 1 .. Len(offsets) + 1 /\ End \in Nat
  BY Facts
<1>3. k \in 1 .. Len(offsets) /\ End \in 0 .. End
  BY <1>1, <1>2
<1>4. ASSUME Fits32, SameVectors PROVE End = ListAt(m) + size(m)
  <2>1. k = Count[m]
    BY <1>1, <1>4, IteratorAt
  <2> QED BY <1>1, <1>4, <2>1, NextOffset
<1> QED BY <1>1, <1>3, <1>4, ListStep

LEMMA VariableDoneInvariant == ASSUME IInv, VariableDone PROVE IInv'
<1>1. /\ pc = "variable" /\ pc' = "done" /\ m \notin Members /\ m' = 1
      /\ UNCHANGED <<container, target, writing, reading>>
  BY DEF VariableDone, Goto
<1>2. IsContainer /\ L \in Nat /\ Members = 1 .. L /\ m - 1 = L
  BY <1>1, Facts
<1>3. written' = written
  BY <1>1, SameContainer DEF written
<1>4. /\ Typed' /\ BytesOK' /\ Cursors' /\ Layout'
      /\ (Fits32' <=> Fits32) /\ (SameVectors' <=> SameVectors)
  BY <1>1, <1>2, <1>3, ControlStep DEF Finished
<1>5. RoundTrip32'
  <2> SUFFICES ASSUME Fits32, SameVectors
               PROVE  \A n \in Members : target[n] = source[n]
    BY <1>1, <1>4, SameContainer DEF RoundTrip32
  <2> QED BY <1>1, <1>2, OffsetsAt
<1>6. InOrder' /\ FirstPass' /\ SecondPass'
  BY <1>1 DEF InOrder, FirstPass, SecondPass
<1> QED BY <1>4, <1>5, <1>6 DEF IInv

LEMMA OutsideInvariant == ASSUME IInv, Outside PROVE IInv'
<1>1. /\ m \in Members /\ pc' = "undefined" /\ m' = 1
      /\ UNCHANGED <<container, target, writing, reading>>
      /\ \/ /\ pc = "serialize"
            /\ \/ ~(result + size_or_placeholder(m) <= End)
               \/ ~Fixed(m) /\ ~(variable + size(m) <= End)
         \/ /\ pc = "fixed" /\ ~Fixed(m)
            /\ ~(shifted + BYTES_PER_LENGTH_OFFSET <= End)
         \/ /\ pc = "variable" /\ ~Fixed(m) /\ k < Len(offsets)
            /\ ~(offsets[k] <= offsets[k + 1] /\ offsets[k + 1] <= End)
  BY DEF Outside, Goto, FitsAt
<1>2. IsContainer
  BY Facts
<1>3. CASE pc = "serialize"
  <2>1. ASSUME Fits32 PROVE FALSE
    <3>1. /\ result = Fixeds[m - 1] /\ variable = ListAt(m)
          /\ End = Fixeds[L] + Lists[L]
      BY <1>1, <1>3, <2>1, CursorsAt
    <3>2. result + size_or_placeholder(m) <= End
      BY <1>1, <1>2, <3>1, Within
    <3>3. ~Fixed(m) => variable + size(m) <= End
      BY <1>1, <1>2, <3>1, Within DEF ListAt
    <3> QED BY <1>1, <1>3, <3>2, <3>3
  <2> QED BY <1>1, <1>3, <2>1, GivingUp
<1>4. CASE pc = "fixed"
  <2>1. ASSUME Fits32, SameVectors PROVE FALSE
    <3>1. shifted = Fixeds[m - 1]
      BY <1>1, <1>4, <2>1, FirstPassAt
    <3>2. Fixeds[m - 1] + size_or_placeholder(m) <= End
      BY <1>1, <1>4, <2>1, FixedRead
    <3> QED BY <1>1, <1>4, <3>1, <3>2 DEF size_or_placeholder
  <2>2. written' = written
    BY <1>1, <1>4, SameContainer DEF written
  <2> QED BY <1>1, <1>4, <2>1, <2>2, GivingUp
<1>5. CASE pc = "variable"
  <2>1. ASSUME Fits32, SameVectors PROVE FALSE
    <3>1. ~Fixed(m) /\ k < Len(offsets)
      BY <1>1, <1>5
    <3>2. k = Count[m] /\ offsets[k] = ListAt(m)
      BY <1>1, <1>5, <2>1, <3>1, IteratorAt
    <3>3. offsets[k + 1] = ListAt(m) + size(m)
      BY <1>1, <1>5, <2>1, <3>1, <3>2, NextOffset
    <3>4. ListAt(m) \in Nat /\ ListAt(m) + size(m) <= End
      BY <1>1, <1>5, <2>1, <3>1, ListRead
    <3>5. size(m) \in Nat
      BY <1>1, <1>2, Shape
    <3>6. offsets[k] <= offsets[k + 1] /\ offsets[k + 1] <= End
      BY <3>2, <3>3, <3>4, <3>5
    <3> QED BY <1>1, <1>5, <3>6
  <2>2. written' = written
    BY <1>1, <1>5, SameContainer DEF written
  <2> QED BY <1>1, <1>5, <2>1, <2>2, GivingUp
<1> QED BY <1>1, <1>3, <1>4, <1>5

LEMMA StutterInvariant == ASSUME IInv, UNCHANGED vars PROVE IInv'
<1>1. UNCHANGED <<shape, source, held, target, buffer, result, variable,
                  shifted, offsets, k, m, pc>>
  BY DEF vars, container, writing, reading
<1>2. UNCHANGED container
  BY DEF vars
<1>3. /\ Fixeds' = Fixeds /\ Lists' = Lists /\ Count' = Count
      /\ L' = L /\ Members' = Members /\ Encoding' = Encoding
      /\ \A n : Fixed(n)' = Fixed(n) /\ ListAt(n)' = ListAt(n)
  BY <1>2, SameContainer
<1>4. Typed' /\ InOrder'
  BY <1>1 DEF IInv, Typed, InOrder, End, Members, size
<1>5. /\ (Fits32' <=> Fits32) /\ (SameVectors' <=> SameVectors)
      /\ written' = written /\ passed' = passed
  <2>1. SameVectors' <=> SameVectors
    BY <1>2, SameContainer
  <2>2. Fits32' <=> Fits32
    BY <1>3 DEF Fits32
  <2>3. written' = written /\ passed' = passed
    BY <1>1, <1>3 DEF written, passed
  <2> QED BY <2>1, <2>2, <2>3
<1>6. BytesOK' /\ Cursors' /\ Layout'
  BY <1>1, <1>3, <1>5 DEF IInv, BytesOK, Cursors, Layout, size
<1>7. FirstPass' /\ SecondPass' /\ RoundTrip32'
  BY <1>1, <1>3, <1>5 DEF IInv, FirstPass, SecondPass, RoundTrip32
<1> QED BY <1>4, <1>6, <1>7 DEF IInv

LEMMA StepInvariant == ASSUME IInv, [Next]_vars PROVE IInv'
BY AllocateInvariant, SerializeFixedInvariant, SerializeListInvariant,
   SerializedInvariant, DeserializeFixedInvariant,
   DeserializeShortInvariant, ReadOffsetInvariant,
   DeserializeThrowsInvariant, FixedDoneInvariant, SkipInvariant,
   DeserializeListInvariant, DeserializeLastInvariant, VariableDoneInvariant,
   OutsideInvariant, StutterInvariant
DEF Next, Terminating

-----------------------------------------------------------------------------
(* The theorems.                                                           *)

(* The inductive invariant is one.                                         *)
THEOREM Invariance == Spec => []IInv
<1> QED BY InitInvariant, StepInvariant, PTL DEF Spec

(* Every variable has its type; and the cursors of serialize keep to the   *)
(* fixed and to the variable parts of the buffer for every container whose *)
(* encoding is shorter than 2^32 bytes, though no line checks them.        *)
THEOREM TypeCorrect == Spec => []TypeOK
<1>1. ASSUME IInv PROVE TypeOK
  <2> SUFFICES ASSUME Representable, pc # "allocate"
               PROVE  result \in 0 .. FixedLength /\ variable \in FixedLength .. End
    BY <1>1 DEF IInv, TypeOK
  <2> DEFINE F == Fixeds[L]
             S == Lists[L]
             f == Fixeds[written]
             s == Lists[written]
  <2>1. IsContainer /\ L \in Nat /\ m \in 1 .. L + 1
    BY <1>1, Facts
  <2>2. FixedLength = F /\ Fits32
    BY <2>1, EncodingLayout, FitsIsRepresentable DEF EncodingIs
  <2>3. written \in 0 .. L /\ L \in 0 .. L
    BY <2>1 DEF written
  <2>4. /\ F \in Nat /\ S \in Nat /\ f \in Nat /\ s \in Nat
        /\ f <= F /\ s <= S
    BY <2>1, <2>3, SumsGrow
  <2>5. End = F + S /\ result = f /\ variable = F + s
    BY <1>1, <2>2 DEF IInv, Cursors, End
  <2> HIDE DEF F, S, f, s
  <2> QED BY <2>2, <2>4, <2>5
<1> QED BY <1>1, Invariance, PTL

(* serialize writes the SSZ encoding of every representable container:     *)
(* every byte of a buffer of exactly its length, nothing twice.            *)
THEOREM SerializesExactly == Spec => []LayoutExact
<1>1. ASSUME IInv PROVE LayoutExact
  <2> SUFFICES ASSUME Representable, pc # "allocate"
               PROVE  /\ Len(buffer) = Len(Encoding)
                      /\ \A p \in 1 .. End :
                            buffer[p] = IF p <= result \/ p \in FixedLength + 1 .. variable
                                        THEN Encoding[p] ELSE Zero
                      /\ pc # "serialize" => result = FixedLength /\ variable = End
    BY DEF LayoutExact
  <2>1. IsContainer
    BY <1>1, Facts
  <2>2. FixedLength = Fixeds[L] /\ Len(Encoding) = Fixeds[L] + Lists[L] /\ Fits32
    BY <2>1, EncodingLayout, FitsIsRepresentable DEF EncodingIs
  <2>3. Len(buffer) = Fixeds[L] + Lists[L]
    BY <1>1, <2>2 DEF IInv, Cursors
  <2>4. \A p \in 1 .. End :
           buffer[p] = IF p <= result \/ p \in Fixeds[L] + 1 .. variable
                       THEN Encoding[p] ELSE Zero
    BY <1>1, <2>2 DEF IInv, Layout, End
  <2>5. pc # "serialize" => result = Fixeds[L] /\ variable = End
    BY <1>1, <2>2, BufferIsEncoding DEF End
  <2> QED BY <2>2, <2>3, <2>4, <2>5
<1> QED BY <1>1, Invariance, PTL

(* The pass over the fixed parts reads every offset where serialize put    *)
(* it, and they are those of the lists, in order and inside the buffer.    *)
THEOREM FirstPassSuffices == Spec => []PassesMeet
<1>1. ASSUME IInv PROVE PassesMeet
  <2> SUFFICES ASSUME Representable, SameVectors, pc = "variable"
               PROVE  /\ offsets[1] = shifted
                      /\ Len(offsets) = Cardinality({n \in Members : ~Fixed(n)})
                      /\ \A j \in 1 .. Len(offsets) : offsets[j] <= End
                      /\ \A j \in 1 .. Len(offsets) - 1 : offsets[j] <= offsets[j + 1]
    BY DEF PassesMeet
  <2>1. IsContainer /\ L \in Nat /\ Members = 1 .. L /\ L \in 0 .. L
    BY <1>1, Facts
  <2>2. Fits32
    BY <2>1, FitsIsRepresentable
  <2>3. shifted = Fixeds[L] /\ Len(offsets) = Count[L] /\ Len(offsets) > 0
    BY <1>1, <2>2, OffsetsAt
  <2>4. Len(offsets) \in Nat
    BY <1>1, Facts
  <2>5. ASSUME NEW j \in 1 .. Len(offsets)
        PROVE  \E n \in Members : ~Fixed(n) /\ Count[n] = j
    BY <2>1, <2>3, ListNumber
  <2>6. ASSUME NEW j \in 1 .. Len(offsets)
        PROVE  offsets[j] <= End
    <3>1. PICK n \in Members : ~Fixed(n) /\ Count[n] = j
      BY <2>5
    <3>2. offsets[j] = ListAt(n)
      BY <1>1, <2>2, <3>1, NextOffset
    <3>3. ListAt(n) \in Nat /\ ListAt(n) + size(n) <= End /\ size(n) \in Nat
      BY <1>1, <2>1, <2>2, <3>1, ListRead, Shape
    <3>4. End \in Nat
      BY <1>1, Facts
    <3> QED BY <3>2, <3>3, <3>4
  <2>7. ASSUME NEW j \in 1 .. Len(offsets) - 1
        PROVE  offsets[j] <= offsets[j + 1]
    <3>1. j \in 1 .. Len(offsets) /\ j < Len(offsets)
      BY <2>4
    <3>2. PICK n \in Members : ~Fixed(n) /\ Count[n] = j
      BY <2>5, <3>1
    <3>3. offsets[j] = ListAt(n) /\ offsets[j + 1] = ListAt(n) + size(n)
      BY <1>1, <2>2, <3>1, <3>2, NextOffset
    <3>4. ListAt(n) \in Nat /\ size(n) \in Nat
      BY <1>1, <2>1, <2>2, <3>2, ListRead, Shape
    <3> QED BY <3>3, <3>4
  <2>8. offsets[1] = Fixeds[L]
    <3>1. 1 \in 1 .. Len(offsets)
      BY <2>3, <2>4
    <3>2. PICK n \in Members : ~Fixed(n) /\ Count[n] = 1
      BY <2>5, <3>1
    <3>3. Count[n - 1] = 0 /\ n - 1 \in 0 .. L /\ 0 \in 0 .. L
      BY <2>1, <3>2, Within
    <3>4. Count[0] = 0 /\ Lists[0] = 0
      BY SumsUnfold
    <3>5. Lists[n - 1] = 0
      BY <2>1, <3>3, <3>4, EqualCounts
    <3>6. offsets[1] = Fixeds[L] + 0
      BY <1>1, <2>2, <3>2, <3>5, NextOffset DEF ListAt
    <3>7. Fixeds[L] \in Nat
      BY <2>1, SumsGrow
    <3> QED BY <3>6, <3>7
  <2> QED BY <2>1, <2>3, <2>6, <2>7, <2>8, CountIs
<1> QED BY <1>1, Invariance, PTL

(* Deserializing what was serialized gives the container back, whatever    *)
(* the target held, if its vectors had the sizes of the source's.          *)
THEOREM ComesBack == Spec => []RoundTrip
<1>1. ASSUME IInv PROVE RoundTrip
  <2>1. IsContainer
    BY <1>1, Facts
  <2>2. Representable => Fits32
    BY <2>1, FitsIsRepresentable
  <2>3. ASSUME \A n \in Members : target[n] = source[n] PROVE target = source
    <3>1. source \in [Members -> Seq(Byte)] /\ target \in [Members -> Seq(Byte)]
      BY <1>1 DEF IInv, BytesOK
    <3> QED BY <2>3, <3>1
  <2> QED BY <1>1, <2>2, <2>3 DEF IInv, RoundTrip32, RoundTrip
<1> QED BY <1>1, Invariance, PTL
=============================================================================
