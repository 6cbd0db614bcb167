-------------------------- MODULE ListCodecProofs ---------------------------
(***************************************************************************)
(* The safety of ListCodec, for every list, every position in the buffer,  *)
(* every number of bytes lost and every width of the offsets.              *)
(***************************************************************************)
EXTENDS ListCodec, SequenceTheorems, TLAPS

(* What a byte of a buffer or an element may be, and what a list is.       *)
Byte == {Zero, Stale, Other} \cup [element : Nat, byte : Nat] \cup [word : Nat, byte : Nat]

IsList(list) == list \in Seq(Seq(Byte))

AddSize(n, v)  == v + BYTES_PER_LENGTH_OFFSET + Len(source[n])
AddTotal(n, v) == (v % UINT32_VALUES) + BYTES_PER_LENGTH_OFFSET + Len(source[n])

Sums   == INSTANCE NatRecursion WITH Base <- 0, Succ <- AddSize
Totals == INSTANCE NatRecursion WITH Base <- 0, Succ <- AddTotal

(* The lengths of the first elements of a list, 0 to all of them.          *)
Before(list) == CHOOSE c : Sums!AreLengths(c, list, Len(list))

-----------------------------------------------------------------------------
(* Arithmetic.                                                             *)

LEMMA TimesGrows ==
    ASSUME NEW a \in Nat, NEW b \in Nat, NEW w \in Nat, a <= b
    PROVE  a * w <= b * w /\ a * w \in Nat /\ b * w \in Nat
OBVIOUS

LEMMA TimesCancels ==
    ASSUME NEW a \in Nat, NEW b \in Nat, NEW w \in Nat \ {0}, a * w <= b * w
    PROVE  a <= b
OBVIOUS

LEMMA TimesNext ==
    ASSUME NEW a \in Nat, NEW w \in Nat
    PROVE  (a + 1) * w = a * w + w /\ a * w \in Nat
OBVIOUS

LEMMA TimesLess ==
    ASSUME NEW a \in Nat, NEW w \in Nat \ {0}
    PROVE  a * w < (a + 1) * w
OBVIOUS

LEMMA Below ==
    ASSUME NEW a \in Nat, NEW b \in Nat, NEW w \in Nat \ {0}, a * w < b * w
    PROVE  a < b
OBVIOUS

LEMMA Quotient ==
    ASSUME NEW x \in Nat, NEW w \in Nat \ {0}
    PROVE  /\ x \div w \in Nat
           /\ x = (x \div w) * w + (x % w)
           /\ x % w \in 0 .. w - 1
OBVIOUS

LEMMA QuotientExact ==
    ASSUME NEW a \in Nat, NEW w \in Nat \ {0}
    PROVE  (a * w) \div w = a /\ (a * w) % w = 0
OBVIOUS

LEMMA Remainder ==
    ASSUME NEW x \in Nat, NEW w \in Nat \ {0}
    PROVE  /\ x % w \in 0 .. w - 1 /\ x % w <= x
           /\ x < w => x % w = x
OBVIOUS

-----------------------------------------------------------------------------
(* Sequences.                                                              *)

(* A function on 1 .. n is a sequence.                                     *)
LEMMA FunctionIsSeq ==
    ASSUME NEW T, NEW n \in Nat, NEW f, DOMAIN f = 1 .. n,
           f = [i \in DOMAIN f |-> f[i]], \A i \in 1 .. n : f[i] \in T
    PROVE  f \in Seq(T) /\ Len(f) = n
<1>1. f \in [1 .. n -> T]
  OBVIOUS
<1> QED BY <1>1

(* Where FlattenSeq puts each sequence, if c[i] is the length of the first *)
(* i of them.                                                              *)
LEMMA Flattened ==
    ASSUME NEW T, NEW n \in Nat, NEW s \in [1 .. n -> Seq(T)],
           NEW c, Sums!AreLengths(c, s, n)
    PROVE  Sums!AreFlat(FlattenSeq(s), s, c, n, T)
<1>1. FlattenSeq(s) = Sums!Joined(s)
  BY DEF FlattenSeq, Sums!Joined, Sums!IsJoined
<1> QED BY <1>1, Sums!JoinedFlat

(* The lengths exist.                                                      *)
LEMMA BeforeExists ==
    ASSUME NEW list, IsList(list)
    PROVE  /\ Len(list) \in Nat /\ list \in [1 .. Len(list) -> Seq(Byte)]
           /\ Sums!AreLengths(Before(list), list, Len(list))
<1>1. Len(list) \in Nat /\ list \in [1 .. Len(list) -> Seq(Byte)]
  BY DEF IsList
<1>2. \E c : Sums!AreLengths(c, list, Len(list))
  BY <1>1, Sums!LengthsExist
<1> QED BY <1>1, <1>2 DEF Before

LEMMA BeforeNext ==
    ASSUME NEW list, IsList(list), NEW n \in 1 .. Len(list)
    PROVE  /\ Before(list)[n - 1] \in Nat /\ Before(list)[n] \in Nat
           /\ Before(list)[n] = Before(list)[n - 1] + Len(list[n])
           /\ Before(list)[Len(list)] \in Nat
           /\ Before(list)[n] <= Before(list)[Len(list)]
           /\ Before(list)[n - 1] <= Before(list)[Len(list)]
           /\ list[n] \in Seq(Byte) /\ Len(list[n]) \in Nat
<1> DEFINE l == Len(list)
           c == Before(list)
<1>1. l \in Nat /\ list \in [1 .. l -> Seq(Byte)] /\ Sums!AreLengths(c, list, l)
  BY BeforeExists
<1>2. list[n] \in Seq(Byte) /\ Len(list[n]) \in Nat
  BY <1>1
<1>3. c[n] = c[n - 1] + Len(list[n])
  BY <1>1 DEF Sums!AreLengths
<1> HIDE DEF c
<1>4. l \in 0 .. l /\ n \in 0 .. l /\ n - 1 \in 0 .. l
  BY <1>1
<1> HIDE DEF l
<1>5. c[l] \in Nat /\ \A h \in 0 .. l : c[h] \in Nat /\ c[h] <= c[l]
  BY <1>1, <1>4, Sums!LengthsGrow
<1> QED BY <1>2, <1>3, <1>4, <1>5 DEF c, l

LEMMA BeforeGrows ==
    ASSUME NEW list, IsList(list), NEW n \in 0 .. Len(list)
    PROVE  /\ Before(list)[n] \in Nat /\ Before(list)[0] = 0
           /\ Before(list)[n] <= Before(list)[Len(list)]
           /\ \A i \in 0 .. n : Before(list)[i] <= Before(list)[n]
<1> DEFINE l == Len(list)
           c == Before(list)
<1>1. l \in Nat /\ list \in [1 .. l -> Seq(Byte)] /\ Sums!AreLengths(c, list, l)
  BY BeforeExists
<1>2. c[0] = 0
  BY <1>1 DEF Sums!AreLengths
<1> HIDE DEF c
<1>3. l \in 0 .. l /\ n \in 0 .. l
  BY <1>1
<1> HIDE DEF l
<1>4. c[l] \in Nat /\ \A h \in 0 .. l : c[h] \in Nat /\ c[h] <= c[l]
  BY <1>1, <1>3, Sums!LengthsGrow
<1>5. c[n] \in Nat /\ \A h \in 0 .. n : c[h] \in Nat /\ c[h] <= c[n]
  BY <1>1, <1>3, Sums!LengthsGrow
<1> QED BY <1>2, <1>3, <1>4, <1>5 DEF c, l

(* Elements that all have the same size.                                   *)
LEMMA BeforeUniform ==
    ASSUME NEW list, IsList(list), NEW w \in Nat,
           \A n \in 1 .. Len(list) : Len(list[n]) = w,
           NEW n \in 0 .. Len(list)
    PROVE  Before(list)[n] = n * w
<1> DEFINE S == {d \in Nat : d <= Len(list) => Before(list)[d] = d * w}
<1>1. Len(list) \in Nat
  BY BeforeExists
<1>2. 0 \in S
  <2>1. 0 \in 0 .. Len(list)
    BY <1>1
  <2> QED BY <2>1, BeforeGrows
<1>3. ASSUME NEW d \in Nat, d \in S PROVE d + 1 \in S
  <2> SUFFICES ASSUME d + 1 <= Len(list)
               PROVE  Before(list)[d + 1] = (d + 1) * w
    OBVIOUS
  <2>1. d + 1 \in 1 .. Len(list) /\ (d + 1) - 1 = d
    BY <1>1
  <2>2. Before(list)[d] = d * w
    BY <1>1, <1>3
  <2>3. Before(list)[d + 1] = Before(list)[d] + w
    BY <2>1, BeforeNext
  <2> QED BY <2>2, <2>3, TimesNext
<1>4. Nat \subseteq S
  <2> HIDE DEF S
  <2> QED BY <1>2, <1>3, Sums!SetInduction
<1>5. n \in Nat /\ n <= Len(list)
  BY <1>1
<1> QED BY <1>4, <1>5

(* A part from the beginning has the same lengths.                         *)
LEMMA FirstElements ==
    ASSUME NEW list, IsList(list), NEW n \in 0 .. Len(list)
    PROVE  Len(FlattenSeq(SubSeq(list, 1, n))) = Before(list)[n]
<1> DEFINE s == SubSeq(list, 1, n)
           c == Before(list)
           d == [i \in 0 .. n |-> c[i]]
<1>1. Len(list) \in Nat /\ n \in Nat /\ Sums!AreLengths(c, list, Len(list))
  BY BeforeExists
<1>2. /\ s \in Seq(Seq(Byte)) /\ Len(s) = n /\ \A i \in 1 .. n : s[i] = list[i]
  <2>1. \A i \in 1 .. n : list[i] \in Seq(Byte)
    BY <1>1 DEF IsList
  <2>2. /\ s \in Seq(Seq(Byte)) /\ Len(s) = (IF 1 <= n THEN n - 1 + 1 ELSE 0)
        /\ \A i \in 1 .. n - 1 + 1 : s[i] = list[1 + i - 1]
    <3>1. 1 \in Int /\ n \in Int
      BY <1>1
    <3> QED BY <2>1, <3>1, SubSeqProperties
  <2>3. n - 1 + 1 = n /\ \A i \in 1 .. n : 1 + i - 1 = i
    BY <1>1
  <2>4. Len(s) = n
    BY <1>1, <2>2
  <2> HIDE DEF s
  <2> QED BY <2>2, <2>3, <2>4
<1>3. s \in [1 .. n -> Seq(Byte)]
  <2> HIDE DEF s
  <2> QED BY <1>2
<1> HIDE DEF s
<1>4. /\ c[0] = 0 /\ (\A i \in 0 .. n : c[i] \in Nat)
      /\ \A i \in 1 .. n : c[i] = c[i - 1] + Len(list[i])
  BY <1>1 DEF Sums!AreLengths
<1> HIDE DEF c
<1>5. d \in [0 .. n -> Nat] /\ \A i \in 0 .. n : d[i] = c[i]
  BY <1>4
<1> HIDE DEF d
<1>6. ASSUME NEW i \in 1 .. n PROVE d[i] = d[i - 1] + Len(s[i])
  <2>1. i \in 0 .. n /\ i - 1 \in 0 .. n
    BY <1>1
  <2> QED BY <1>2, <1>4, <1>5, <2>1
<1>7. 0 \in 0 .. n /\ n \in 0 .. n
  BY <1>1
<1>8. Sums!AreLengths(d, s, n)
  BY <1>4, <1>5, <1>6, <1>7 DEF Sums!AreLengths
<1>9. Sums!AreFlat(FlattenSeq(s), s, d, n, Byte)
  BY <1>1, <1>3, <1>8, Flattened
<1>10. Len(FlattenSeq(s)) = c[n]
  BY <1>5, <1>7, <1>9 DEF Sums!AreFlat
<1> QED BY <1>10 DEF s, c

-----------------------------------------------------------------------------
(* The encoding.                                                           *)

LEMMA WordIsSeq ==
    ASSUME NEW v \in Nat
    PROVE  Word(v) \in Seq(Byte) /\ Len(Word(v)) = BYTES_PER_LENGTH_OFFSET
<1>1. BYTES_PER_LENGTH_OFFSET \in Nat
  BY ListAssumption
<1>2. \A j \in 1 .. BYTES_PER_LENGTH_OFFSET : Word(v)[j] \in Byte
  BY <1>1 DEF Word, Byte
<1>3. Word(v) = [j \in DOMAIN Word(v) |-> Word(v)[j]]
  BY DEF Word
<1>4. DOMAIN Word(v) = 1 .. BYTES_PER_LENGTH_OFFSET
  BY DEF Word
<1> HIDE DEF Word
<1> QED BY <1>1, <1>2, <1>3, <1>4, FunctionIsSeq

(* The size of the table of offsets, and where element n + 1 begins.       *)
TableSize(list) ==
    IF element = "variable" THEN Len(list) * BYTES_PER_LENGTH_OFFSET ELSE 0
At(list, n) == TableSize(list) + Before(list)[n]

LEMMA AtNext ==
    ASSUME NEW list, IsList(list), NEW n \in 1 .. Len(list)
    PROVE  /\ At(list, n - 1) \in Nat /\ At(list, n) \in Nat
           /\ At(list, n) = At(list, n - 1) + Len(list[n])
           /\ At(list, n) <= At(list, Len(list)) /\ At(list, Len(list)) \in Nat
           /\ At(list, n - 1) <= At(list, Len(list))
           /\ TableSize(list) \in Nat /\ TableSize(list) <= At(list, n - 1)
           /\ list[n] \in Seq(Byte) /\ Len(list[n]) \in Nat
<1>1. TableSize(list) \in Nat
  <2>1. Len(list) \in Nat /\ BYTES_PER_LENGTH_OFFSET \in Nat
    BY BeforeExists, ListAssumption
  <2> QED BY <2>1, TimesNext DEF TableSize
<1> DEFINE c == Before(list)
           l == Len(list)
<1>2. /\ c[n - 1] \in Nat /\ c[n] \in Nat /\ c[n] = c[n - 1] + Len(list[n])
      /\ c[l] \in Nat /\ c[n] <= c[l] /\ c[n - 1] <= c[l]
      /\ list[n] \in Seq(Byte) /\ Len(list[n]) \in Nat
  BY BeforeNext
<1> HIDE DEF c, l
<1> DEFINE T == TableSize(list)
           s == Len(list[n])
           a == At(list, n - 1)
           b == At(list, n)
           z == At(list, l)
           x == c[n - 1]
           y == c[n]
           e == c[l]
<1>3. /\ a = T + x /\ b = T + y /\ z = T + e /\ T \in Nat
      /\ x \in Nat /\ s \in Nat /\ y = x + s /\ e \in Nat /\ y <= e
  BY <1>1, <1>2 DEF At, c
<1> HIDE DEF T, s, a, b, z, x, y, e
<1>4. /\ a \in Nat /\ b \in Nat /\ z \in Nat
      /\ b = a + s /\ b <= z /\ a <= z /\ T <= a
  BY <1>3
<1> QED BY <1>1, <1>2, <1>4 DEF l, T, s, a, b, z

LEMMA AtEnds ==
    ASSUME NEW list, IsList(list)
    PROVE  /\ Len(list) \in Nat /\ TableSize(list) \in Nat
           /\ At(list, 0) = TableSize(list)
           /\ TableSize(list) <= At(list, Len(list)) /\ At(list, Len(list)) \in Nat
<1>1. TableSize(list) \in Nat
  <2>1. Len(list) \in Nat /\ BYTES_PER_LENGTH_OFFSET \in Nat
    BY BeforeExists, ListAssumption
  <2> QED BY <2>1, TimesNext DEF TableSize
<1>2. Len(list) \in Nat /\ 0 \in 0 .. Len(list) /\ Len(list) \in 0 .. Len(list)
  BY BeforeExists
<1>3. Before(list)[0] = 0 /\ Before(list)[Len(list)] \in Nat
  BY <1>2, BeforeGrows
<1> QED BY <1>1, <1>2, <1>3 DEF At

LEMMA OffsetIs ==
    ASSUME NEW list, IsList(list), element = "variable", NEW n \in 1 .. Len(list)
    PROVE  OffsetOf(list, n) = At(list, n - 1)
<1>1. n - 1 \in 0 .. Len(list)
  BY BeforeExists
<1> QED BY <1>1, FirstElements DEF OffsetOf, At, TableSize

(* A sequence that has the table of offsets and the elements in its place. *)
HasOffsets(code, list) ==
    element = "variable" =>
        \A n \in 1 .. Len(list) : \A j \in 1 .. BYTES_PER_LENGTH_OFFSET :
           code[(n - 1) * BYTES_PER_LENGTH_OFFSET + j] = Word(At(list, n - 1))[j]
HasElements(code, list) ==
    \A n \in 1 .. Len(list) : \A j \in 1 .. Len(list[n]) :
       code[At(list, n - 1) + j] = list[n][j]
IsEncoding(code, list) ==
    /\ code \in Seq(Byte) /\ Len(code) = At(list, Len(list))
    /\ HasOffsets(code, list) /\ HasElements(code, list)

(* The words of the table, one after the other.                            *)
words(list) == [n \in 1 .. Len(list) |-> Word(OffsetOf(list, n))]
places(list) == [n \in 0 .. Len(list) |-> n * BYTES_PER_LENGTH_OFFSET]

LEMMA TableIs ==
    ASSUME NEW list, IsList(list), element = "variable"
    PROVE  /\ words(list) \in [1 .. Len(list) -> Seq(Byte)]
           /\ Sums!AreLengths(places(list), words(list), Len(list))
           /\ Sums!AreFlat(Table(list), words(list), places(list), Len(list), Byte)
           /\ places(list)[Len(list)] = TableSize(list)
<1> DEFINE l == Len(list)
           w == words(list)
           c == places(list)
           B == BYTES_PER_LENGTH_OFFSET
<1>1. l \in Nat /\ B \in Nat
  BY BeforeExists, ListAssumption
<1>2. ASSUME NEW n \in 1 .. l
      PROVE  w[n] \in Seq(Byte) /\ Len(w[n]) = B
  <2>1. OffsetOf(list, n) \in Nat
    BY <1>2, OffsetIs, AtNext
  <2>2. w[n] = Word(OffsetOf(list, n))
    BY DEF words
  <2> QED BY <2>1, <2>2, WordIsSeq
<1>3. w \in [1 .. l -> Seq(Byte)]
  BY <1>2 DEF words
<1>4. \A n \in 0 .. l : c[n] = n * B /\ n * B \in Nat
  BY <1>1, TimesNext DEF places
<1>5. c \in [0 .. l -> Nat]
  BY <1>4 DEF places
<1>6. Table(list) = FlattenSeq(w)
  <2>1. DOMAIN list = 1 .. Len(list)
    BY BeforeExists
  <2> QED BY <2>1 DEF Table, words
<1> HIDE DEF w, c
<1>7. ASSUME NEW n \in 1 .. l PROVE c[n] = c[n - 1] + Len(w[n])
  <2>1. n \in 0 .. l /\ n - 1 \in 0 .. l /\ n - 1 \in Nat /\ (n - 1) + 1 = n
    BY <1>1
  <2>2. c[n] = n * B /\ c[n - 1] = (n - 1) * B
    BY <1>4, <2>1
  <2>3. ((n - 1) + 1) * B = (n - 1) * B + B
    BY <1>1, <2>1, TimesNext
  <2> QED BY <1>2, <2>1, <2>2, <2>3
<1>8. c[0] = 0 /\ c[l] = l * B
  <2>1. 0 \in 0 .. l /\ l \in 0 .. l /\ 0 * B = 0
    BY <1>1
  <2> QED BY <1>4, <2>1
<1>9. Sums!AreLengths(c, w, l)
  BY <1>5, <1>7, <1>8 DEF Sums!AreLengths
<1> HIDE DEF l
<1>10. Sums!AreFlat(FlattenSeq(w), w, c, l, Byte)
  BY <1>1, <1>3, <1>9, Flattened
<1> QED BY <1>3, <1>6, <1>8, <1>9, <1>10 DEF w, c, l, TableSize

LEMMA ElementsAre ==
    ASSUME NEW list, IsList(list)
    PROVE  Sums!AreFlat(FlattenSeq(list), list, Before(list), Len(list), Byte)
BY BeforeExists, Flattened

(* The encoding is such a sequence,                                        *)
LEMMA EncodingIs ==
    ASSUME NEW list, IsList(list)
    PROVE  IsEncoding(Encoding(list), list)
<1> DEFINE l == Len(list)
           c == Before(list)
           v == FlattenSeq(list)
<1>1. /\ v \in Seq(Byte) /\ Len(v) = c[l]
      /\ \A n \in 1 .. l : \A j \in 1 .. Len(list[n]) : v[c[n - 1] + j] = list[n][j]
  BY ElementsAre DEF Sums!AreFlat
<1>2. l \in Nat /\ TableSize(list) \in Nat /\ c[l] \in Nat
  <2>1. l \in Nat /\ l \in 0 .. l
    BY BeforeExists
  <2> QED BY <2>1, AtEnds, BeforeGrows
<1>3. CASE element # "variable"
  <2>1. Encoding(list) = v /\ TableSize(list) = 0
    BY <1>3 DEF Encoding, TableSize
  <2>2. ASSUME NEW n \in 1 .. l PROVE At(list, n - 1) = c[n - 1]
    <3>1. c[n - 1] \in Nat
      BY BeforeNext
    <3> QED BY <2>1, <3>1 DEF At
  <2>3. At(list, l) = c[l]
    BY <1>2, <2>1 DEF At
  <2>4. HasElements(v, list)
    BY <1>1, <2>2 DEF HasElements
  <2>5. HasOffsets(v, list)
    BY <1>3 DEF HasOffsets
  <2> QED BY <1>1, <2>1, <2>3, <2>4, <2>5 DEF IsEncoding
<1>4. CASE element = "variable"
  <2> DEFINE t == Table(list)
             T == TableSize(list)
             B == BYTES_PER_LENGTH_OFFSET
  <2>1. /\ t \in Seq(Byte) /\ Len(t) = T
        /\ \A n \in 1 .. l : \A j \in 1 .. Len(words(list)[n]) :
              t[places(list)[n - 1] + j] = words(list)[n][j]
    BY <1>4, TableIs DEF Sums!AreFlat
  <2>2. Encoding(list) = t \o v
    BY <1>4 DEF Encoding
  <2>3. T = l * B /\ B \in Nat
    BY <1>4, ListAssumption DEF TableSize
  <2>4. ASSUME NEW n \in 1 .. l, NEW j \in 1 .. B
        PROVE  /\ t[(n - 1) * B + j] = Word(At(list, n - 1))[j]
               /\ (n - 1) * B + j \in 1 .. T
    <3>1. n - 1 \in 0 .. l /\ n - 1 \in Nat /\ n \in Nat /\ n <= l /\ (n - 1) + 1 = n
      BY <1>2
    <3>2. words(list)[n] = Word(At(list, n - 1))
      BY <1>4, OffsetIs DEF words
    <3>3. Len(words(list)[n]) = B
      <4>1. At(list, n - 1) \in Nat
        BY AtNext
      <4> QED BY <3>2, <4>1, WordIsSeq
    <3>4. places(list)[n - 1] = (n - 1) * B
      BY <3>1 DEF places
    <3>5. t[(n - 1) * B + j] = Word(At(list, n - 1))[j]
      BY <2>1, <3>2, <3>3, <3>4
    <3>6. /\ (n - 1) * B + B = n * B /\ n * B <= l * B
          /\ (n - 1) * B \in Nat /\ n * B \in Nat /\ l * B \in Nat
      BY <1>2, <2>3, <3>1, TimesNext, TimesGrows
    <3>7. (n - 1) * B + j \in 1 .. T
      BY <2>3, <3>6
    <3> QED BY <3>5, <3>7
  <2> HIDE DEF t, v, T, l
  <2>5. /\ t \o v \in Seq(Byte) /\ Len(t \o v) = Len(t) + Len(v)
        /\ \A p \in 1 .. Len(t) + Len(v) :
              (t \o v)[p] = IF p <= Len(t) THEN t[p] ELSE v[p - Len(t)]
    BY <1>1, <2>1, ConcatProperties
  <2> DEFINE code == Encoding(list)
  <2>6. /\ code \in Seq(Byte) /\ Len(code) = T + c[l]
        /\ \A p \in 1 .. T + c[l] :
              code[p] = IF p <= T THEN t[p] ELSE v[p - T]
    BY <1>1, <2>1, <2>2, <2>5
  <2> HIDE DEF code
  <2>7. T \in Nat
    BY <1>2 DEF T
  <2>8. ASSUME NEW n \in 1 .. l, NEW j \in 1 .. B
        PROVE  code[(n - 1) * B + j] = Word(At(list, n - 1))[j]
    <3> DEFINE p == (n - 1) * B + j
    <3>1. p \in 1 .. T /\ t[p] = Word(At(list, n - 1))[j]
      BY <2>4
    <3> HIDE DEF p
    <3>2. p \in 1 .. T + c[l] /\ p <= T
      BY <1>2, <2>7, <3>1
    <3>3. code[p] = Word(At(list, n - 1))[j]
      BY <2>6, <3>1, <3>2
    <3> QED BY <3>3 DEF p
  <2>9. ASSUME NEW n \in 1 .. l, NEW j \in 1 .. Len(list[n])
        PROVE  code[At(list, n - 1) + j] = list[n][j]
    <3> DEFINE p == At(list, n - 1) + j
               q == c[n - 1] + j
    <3>1. v[q] = list[n][j]
      BY <1>1
    <3>2. /\ c[n - 1] \in Nat /\ c[n] = c[n - 1] + Len(list[n]) /\ c[n] <= c[l]
          /\ Len(list[n]) \in Nat /\ c[n] \in Nat
      BY BeforeNext DEF l
    <3>3. At(list, n - 1) = T + c[n - 1]
      BY DEF At, T
    <3>4. p \in 1 .. T + c[l] /\ ~(p <= T) /\ p - T = q
      <4> DEFINE a == c[n - 1]
                 b == c[n]
                 s == Len(list[n])
                 z == c[l]
      <4>1. /\ a \in Nat /\ b = a + s /\ b <= z /\ s \in Nat /\ z \in Nat
            /\ p = T + a + j /\ q = a + j /\ j \in 1 .. s
        BY <1>2, <3>2, <3>3
      <4> HIDE DEF a, b, s, z, p, q
      <4>2. p \in 1 .. T + z /\ ~(p <= T) /\ p - T = q
        BY <2>7, <4>1
      <4> QED BY <4>2 DEF z
    <3> HIDE DEF p, q
    <3>5. code[p] = list[n][j]
      BY <2>6, <3>1, <3>4
    <3> QED BY <3>5 DEF p
  <2>10. HasOffsets(code, list) /\ HasElements(code, list)
    BY <2>8, <2>9 DEF HasOffsets, HasElements, l
  <2>11. Len(code) = At(list, l)
    BY <2>6 DEF At, T
  <2> QED BY <2>6, <2>10, <2>11 DEF IsEncoding, code, l
<1> QED BY <1>3, <1>4

(* and the only one.                                                       *)
LEMMA OnlyEncoding ==
    ASSUME NEW list, IsList(list), NEW code, IsEncoding(code, list)
    PROVE  code = Encoding(list)
<1> DEFINE l == Len(list)
           c == Before(list)
           e == Encoding(list)
           T == TableSize(list)
           B == BYTES_PER_LENGTH_OFFSET
<1>1. IsEncoding(e, list)
  BY EncodingIs
<1>2. l \in Nat /\ T \in Nat /\ c[l] \in Nat /\ At(list, l) = T + c[l]
  <2>1. l \in Nat /\ l \in 0 .. l
    BY BeforeExists
  <2> QED BY <2>1, AtEnds, BeforeGrows DEF At
<1>3. /\ list \in [1 .. l -> Seq(Byte)] /\ Sums!AreLengths(c, list, l)
  BY BeforeExists
<1>4. ASSUME NEW p \in 1 .. At(list, l) PROVE code[p] = e[p]
  <2>1. p \in Nat /\ p > 0 /\ p <= T + c[l]
    BY <1>2
  <2>2. CASE p <= T
    <3>1. element = "variable"
      BY <2>1, <2>2 DEF TableSize
    <3>2. p \in 1 .. places(list)[l]
      BY <2>1, <2>2, <3>1, TableIs
    <3>3. /\ words(list) \in [1 .. l -> Seq(Byte)]
          /\ Sums!AreLengths(places(list), words(list), l)
      BY <3>1, TableIs
    <3>4. Sums!IsAPosition(p, words(list), places(list), l)
      <4> HIDE DEF l
      <4> QED BY <1>2, <3>2, <3>3, Sums!EveryPosition
    <3>5. PICK n \in 1 .. l : \E j \in 1 .. Len(words(list)[n]) :
                                p = places(list)[n - 1] + j
      BY <3>4 DEF Sums!IsAPosition
    <3>6. PICK j \in 1 .. Len(words(list)[n]) : p = places(list)[n - 1] + j
      BY <3>5
    <3>7. Len(words(list)[n]) = B
      <4>1. words(list)[n] = Word(At(list, n - 1)) /\ At(list, n - 1) \in Nat
        BY <3>1, OffsetIs, AtNext DEF words
      <4> QED BY <4>1, WordIsSeq
    <3>8. places(list)[n - 1] = (n - 1) * B
      BY <1>2 DEF places
    <3>9. HasOffsets(code, list) /\ HasOffsets(e, list)
      BY <1>1 DEF IsEncoding
    <3>10. /\ code[(n - 1) * B + j] = Word(At(list, n - 1))[j]
           /\ e[(n - 1) * B + j] = Word(At(list, n - 1))[j]
      <4>1. j \in 1 .. B
        BY <3>7
      <4> HIDE DEF e
      <4> QED BY <3>1, <3>9, <4>1 DEF HasOffsets
    <3> QED BY <3>6, <3>8, <3>10
  <2>3. CASE ~(p <= T)
    <3> DEFINE q == p - T
    <3>1. q \in 1 .. c[l] /\ p = T + q
      BY <1>2, <2>1, <2>3
    <3> HIDE DEF q
    <3>2. Sums!IsAPosition(q, list, c, l)
      <4> HIDE DEF c, l
      <4> QED BY <1>2, <1>3, <3>1, Sums!EveryPosition
    <3>3. PICK n \in 1 .. l : \E j \in 1 .. Len(list[n]) : q = c[n - 1] + j
      BY <3>2 DEF Sums!IsAPosition
    <3>4. PICK j \in 1 .. Len(list[n]) : q = c[n - 1] + j
      BY <3>3
    <3>5. p = At(list, n - 1) + j
      <4>1. c[n - 1] \in Nat /\ Len(list[n]) \in Nat
        BY BeforeNext
      <4> QED BY <1>2, <3>1, <3>4, <4>1 DEF At
    <3>6. HasElements(code, list) /\ HasElements(e, list)
      BY <1>1 DEF IsEncoding
    <3>7. code[At(list, n - 1) + j] = list[n][j] /\ e[At(list, n - 1) + j] = list[n][j]
      <4> HIDE DEF e
      <4> QED BY <3>6 DEF HasElements
    <3> QED BY <3>5, <3>7
  <2> QED BY <2>2, <2>3
<1>5. /\ code \in Seq(Byte) /\ e \in Seq(Byte)
      /\ Len(code) = At(list, l) /\ Len(e) = At(list, l)
  BY <1>1 DEF IsEncoding
<1> HIDE DEF e
<1>6. code = e
  BY <1>4, <1>5, SeqEqual
<1> QED BY <1>6 DEF e

-----------------------------------------------------------------------------
(* The size.                                                               *)

(* The recursive functions satisfy their equations.                        *)
LEMMA SumsUnfold ==
    ASSUME NEW n \in Nat
    PROVE  /\ sizes_to[n] = IF n = 0 THEN 0 ELSE AddSize(n, sizes_to[n - 1])
           /\ totals[n] = IF n = 0 THEN 0 ELSE AddTotal(n, totals[n - 1])
<1>1. sizes_to = Sums!rec
  BY DEF sizes_to, Sums!rec, AddSize
<1>2. totals = Totals!rec
  BY DEF totals, Totals!rec, AddTotal
<1>3. sizes_to[n] = IF n = 0 THEN 0 ELSE AddSize(n, sizes_to[n - 1])
  BY <1>1, Sums!RecursionUnfolds
<1>4. totals[n] = IF n = 0 THEN 0 ELSE AddTotal(n, totals[n - 1])
  BY <1>2, Totals!RecursionUnfolds
<1> QED BY <1>3, <1>4

(* The sum in 32 bits is never more than the other one, and is the same if *)
(* that fits.                                                              *)
LEMMA TotalNext ==
    ASSUME NEW a \in Nat, NEW t \in Nat, NEW w \in Nat, NEW l \in Nat, NEW u \in Nat \ {0},
           t <= a, a < u => t = a
    PROVE  /\ (t % u) + w + l \in Nat /\ (t % u) + w + l <= a + w + l
           /\ a + w + l < u => (t % u) + w + l = a + w + l
<1> DEFINE r == t % u
<1>1. r \in 0 .. u - 1 /\ r <= t /\ (t < u => r = t)
  BY Remainder
<1> HIDE DEF r
<1>2. /\ r + w + l \in Nat /\ r + w + l <= a + w + l
      /\ a + w + l < u => r + w + l = a + w + l
  BY <1>1
<1> QED BY <1>2 DEF r

LEMMA SizesAre ==
    ASSUME IsList(source), NEW n \in 0 .. Len(source)
    PROVE  /\ sizes_to[n] = n * BYTES_PER_LENGTH_OFFSET + Before(source)[n]
           /\ sizes_to[n] \in Nat /\ totals[n] \in Nat /\ totals[n] <= sizes_to[n]
           /\ sizes_to[n] < UINT32_VALUES => totals[n] = sizes_to[n]
<1> DEFINE B == BYTES_PER_LENGTH_OFFSET
           U == UINT32_VALUES
           c == Before(source)
           P(d) == /\ sizes_to[d] = d * B + c[d]
                   /\ sizes_to[d] \in Nat /\ totals[d] \in Nat
                   /\ totals[d] <= sizes_to[d]
                   /\ sizes_to[d] < U => totals[d] = sizes_to[d]
           S == {d \in Nat : d <= Len(source) => P(d)}
<1>1. Len(source) \in Nat /\ B \in Nat /\ U \in Nat \ {0} /\ n \in Nat
  BY BeforeExists, ListAssumption
<1>2. 0 \in S
  <2>1. 0 \in 0 .. Len(source) /\ 0 \in Nat
    BY <1>1
  <2>2. c[0] = 0
    BY <2>1, BeforeGrows
  <2>3. sizes_to[0] = 0 /\ totals[0] = 0
    BY <2>1, SumsUnfold
  <2>4. 0 * B = 0
    BY <1>1
  <2> HIDE DEF c
  <2> QED BY <2>2, <2>3, <2>4
<1>3. ASSUME NEW d \in Nat, d \in S PROVE d + 1 \in S
  <2> SUFFICES ASSUME d + 1 <= Len(source) PROVE P(d + 1)
    OBVIOUS
  <2>1. d + 1 \in 1 .. Len(source) /\ (d + 1) - 1 = d /\ d + 1 \in Nat /\ d + 1 # 0
    BY <1>1
  <2>2. P(d)
    BY <1>1, <1>3
  <2> DEFINE a == sizes_to[d]
             t == totals[d]
             l == Len(source[d + 1])
             x == c[d]
             y == c[d + 1]
             a2 == sizes_to[d + 1]
             t2 == totals[d + 1]
  <2>3. x \in Nat /\ y \in Nat /\ y = x + l /\ l \in Nat
    BY <2>1, BeforeNext
  <2>4. a2 = a + B + l /\ t2 = (t % U) + B + l
    BY <2>1, SumsUnfold DEF AddSize, AddTotal
  <2>5. (d + 1) * B = d * B + B /\ d * B \in Nat
    BY <1>1, TimesNext
  <2>6. a = d * B + x /\ a \in Nat /\ t \in Nat /\ t <= a /\ (a < U => t = a)
    BY <2>2
  <2> HIDE DEF a, t, l, x, y, a2, t2
  <2>7. t2 \in Nat /\ t2 <= a + B + l /\ (a + B + l < U => t2 = a + B + l)
    <3>1. B \in Nat /\ U \in Nat \ {0}
      BY <1>1
    <3> HIDE DEF B, U
    <3>2. /\ (t % U) + B + l \in Nat /\ (t % U) + B + l <= a + B + l
          /\ a + B + l < U => (t % U) + B + l = a + B + l
      BY <2>3, <2>6, <3>1, TotalNext
    <3> QED BY <2>4, <3>2, Zenon
  <2> HIDE DEF B, U
  <2>8. /\ a2 = (d + 1) * B + y /\ a2 \in Nat /\ t2 \in Nat /\ t2 <= a2
        /\ (a2 < U => t2 = a2)
    BY <1>1, <2>3, <2>4, <2>5, <2>6, <2>7
  <2> QED BY <2>8 DEF a2, t2, y
<1>4. Nat \subseteq S
  <2> HIDE DEF S
  <2> QED BY <1>2, <1>3, Sums!SetInduction
<1>5. n \in Nat /\ n <= Len(source)
  BY <1>1
<1>6. n \in S
  BY <1>4, <1>5
<1> QED BY <1>5, <1>6
-----------------------------------------------------------------------------
(* The inductive invariant.                                                *)

(* The bytes are in b from position at on.                                 *)
Holds(b, at, bytes) == \A j \in 1 .. Len(bytes) : b[at + j] = bytes[j]

(* Element n is in b, and so is its offset.                                *)
HasPart(b, n) ==
    /\ Holds(b, base + At(source, n - 1), source[n])
    /\ element = "variable" =>
          Holds(b, base + (n - 1) * BYTES_PER_LENGTH_OFFSET,
                Word(At(source, n - 1) % UINT32_VALUES))

(* The size fits in an offset.                                             *)
Fits32 == size < UINT32_VALUES

(* What the source is, which does not change.                              *)
SourceOK ==
    /\ holder \in {"array", "vector"}
    /\ element \in {"basic", "object", "vector", "variable"}
    /\ element = "variable" => holder = "vector"
    /\ width \in Widths
    /\ IsList(source) /\ Len(source) \in 0 .. MaxElements
    /\ element # "variable" => \A n \in 1 .. Len(source) : Len(source[n]) = width
    /\ base \in Bases
    /\ missing \in 0 .. MaxMissing /\ missing <= room

(* The list deserialized into: that of an array keeps its shape.           *)
RetOK ==
    /\ IsList(ret) /\ Len(ret) \in 0 .. MaxElements
    /\ holder = "array" =>
          /\ Len(ret) = Len(source)
          /\ \A n \in 1 .. Len(ret) : Len(ret[n]) = width

(* The bytes before and after the list are left alone.                     *)
IsBuffer(b) ==
    /\ b \in Seq(Byte) /\ Len(b) = 2 * base + room
    /\ \A p \in 1 .. Len(b) : p <= base \/ p > base + room => b[p] = Stale
BufferOK == IsBuffer(buffer)

CursorsOK ==
    /\ data \in base .. base + size
    /\ offset \in 0 .. UINT32_VALUES - 1
    /\ idx \in 1 .. MaxElements + 1
    /\ pc \in {"serialize", "deserialize", "chunks", "offsets"} \cup Finished

(* While the list is serialized, data is where the next element goes, and  *)
(* what is done is in the room.                                            *)
Serializing ==
    pc = "serialize" =>
        /\ idx \in 1 .. Len(source) + 1
        /\ element = "basic" => idx = 1
        /\ element # "basic" => data = base + At(source, idx - 1)
        /\ idx = 1 \/ At(source, idx - 1) <= room
        /\ room = size => \A n \in 1 .. idx - 1 : HasPart(buffer, n)

(* After it, all of it is there.                                           *)
Complete ==
    /\ pc \notin {"serialize", "undefined"} => room = size
    /\ pc # "serialize" /\ room = size =>
          \A n \in 1 .. Len(source) : HasPart(buffer, n)

(* Fixed-size elements: the first ones are back.                           *)
Back(n) == \A i \in 1 .. n : ret[i] = source[i]

Chunks ==
    pc = "chunks" =>
        /\ element = "object"
        /\ idx <= Len(ret) + 1 /\ (idx - 1) * width <= End
        /\ holder = "vector" => Len(ret) * width = End
        /\ idx - 1 <= Len(source) /\ Back(idx - 1)

(* Variable-size elements: those between two offsets are back, as long as  *)
(* offsets are what they should be.                                        *)
Offsets ==
    pc = "offsets" =>
        /\ element = "variable"
        /\ idx \in 1 .. Len(ret) /\ Len(ret) <= Len(source)
        /\ Fits32 =>
              /\ Len(ret) = Len(source)
              /\ offset = At(source, idx - 1)
              /\ idx * BYTES_PER_LENGTH_OFFSET <= End
              /\ idx = 1 \/ offset <= End
              /\ Back(idx - 1)

(* When all is done, the list ends where the bytes end.                    *)
EndsFixed ==
    \E n \in 0 .. Len(ret) :
        /\ n <= Len(source) /\ Back(n) /\ End < (n + 1) * width
        /\ \/ holder = "array" /\ element = "object"
           \/ n = Len(ret) /\ n * width = End

EndsVariable ==
    IF ret = <<>> THEN End = 0
    ELSE /\ Len(ret) = Len(source)
         /\ Back(Len(ret) - 1)
         /\ At(source, Len(ret)) <= End => Back(Len(ret))

Ends ==
    pc = "done" =>
        /\ element # "vector"
        /\ element \in {"basic", "object"} => EndsFixed
        /\ element = "variable" /\ Fits32 => EndsVariable

(* Nothing goes wrong with a list that fits if no byte is lost.            *)
NoFault ==
    Fits32 /\ missing = 0 /\ element # "vector" => pc \notin {"threw", "undefined"}

IInv ==
    /\ SourceOK /\ RetOK /\ BufferOK /\ CursorsOK
    /\ Serializing /\ Complete /\ Chunks /\ Offsets /\ Ends /\ NoFault

-----------------------------------------------------------------------------
(* What the invariant says of the source, in the form the proofs use.      *)

LEMMA SizeIs ==
    ASSUME SourceOK
    PROVE  /\ IsList(source) /\ Len(source) \in Nat
           /\ size \in Nat /\ size = At(source, Len(source))
           /\ width \in Nat \ {0} /\ base \in Nat /\ missing \in Nat
<1>1. /\ IsList(source) /\ Len(source) \in Nat /\ width \in Nat \ {0} /\ base \in Nat
      /\ missing \in Nat
  BY ListAssumption DEF SourceOK
<1> DEFINE l == Len(source)
<1>2. l \in 0 .. l /\ At(source, l) \in Nat
  BY <1>1, AtEnds
<1>3. CASE element = "variable"
  BY <1>1, <1>2, <1>3, SizesAre DEF size, At, TableSize
<1>4. CASE element # "variable"
  <2>1. \A n \in 1 .. l : Len(source[n]) = width
    BY <1>4 DEF SourceOK
  <2>2. Before(source)[l] = l * width
    BY <1>1, <1>2, <2>1, BeforeUniform
  <2>3. At(source, l) = 0 + l * width /\ l * width \in Nat
    <3>1. l * width \in Nat
      BY <1>1, TimesNext
    <3> QED BY <1>4, <2>2, <3>1 DEF At, TableSize
  <2>4. size = l * width
    <3>1. CASE source = <<>>
      <4>1. l = 0
        BY <3>1
      <4> QED BY <1>1, <1>4, <3>1, <4>1 DEF size
    <3>2. CASE source # <<>>
      <4>1. 1 \in 1 .. l
        BY <1>1, <3>2 DEF IsList
      <4> QED BY <1>4, <2>1, <3>2, <4>1 DEF size
    <3> QED BY <3>1, <3>2
  <2> QED BY <1>1, <2>3, <2>4
<1> QED BY <1>1, <1>3, <1>4

LEMMA RoomIs ==
    ASSUME SourceOK
    PROVE  /\ room \in Nat /\ room <= size
           /\ Fits32 \/ base # 0 \/ element # "variable" => room = size
<1>1. size \in Nat /\ IsList(source) /\ Len(source) \in Nat
  BY SizeIs
<1>2. CASE base # 0 \/ element # "variable"
  BY <1>1, <1>2 DEF room, total_size
<1>3. CASE base = 0 /\ element = "variable"
  <2>1. Len(source) \in 0 .. Len(source)
    BY <1>1
  <2>2. room = totals[Len(source)] /\ size = sizes_to[Len(source)]
    BY <1>3 DEF room, total_size, size
  <2>3. room \in Nat /\ room <= size /\ (size < UINT32_VALUES => room = size)
    BY <1>1, <2>1, <2>2, SizesAre
  <2> QED BY <1>3, <2>3 DEF Fits32
<1> QED BY <1>2, <1>3

(* Elements of the same size are at its multiples.                         *)
LEMMA AtUniform ==
    ASSUME SourceOK, element # "variable", NEW n \in 0 .. Len(source)
    PROVE  /\ At(source, n) = n * width /\ n * width \in Nat /\ n \in Nat
           /\ At(source, Len(source)) = Len(source) * width
<1>1. /\ IsList(source) /\ width \in Nat /\ Len(source) \in Nat /\ n \in Nat
  BY SizeIs
<1>2. \A i \in 1 .. Len(source) : Len(source[i]) = width
  BY DEF SourceOK
<1>3. ASSUME NEW i \in 0 .. Len(source)
      PROVE  At(source, i) = i * width /\ i * width \in Nat
  <2>1. Before(source)[i] = i * width
    BY <1>1, <1>2, BeforeUniform
  <2>2. i \in Nat /\ i * width \in Nat
    BY <1>1, TimesNext
  <2> QED BY <2>1, <2>2 DEF At, TableSize
<1>4. Len(source) \in 0 .. Len(source)
  BY <1>1
<1> QED BY <1>1, <1>3, <1>4

(* Where the table ends and where elements are within the list.            *)
LEMMA PlaceIs ==
    ASSUME SourceOK, NEW n \in 1 .. Len(source)
    PROVE  /\ At(source, n - 1) \in Nat /\ At(source, n) \in Nat
           /\ At(source, n) = At(source, n - 1) + Len(source[n])
           /\ At(source, n) <= size /\ At(source, n - 1) <= size
           /\ source[n] \in Seq(Byte) /\ Len(source[n]) \in Nat
           /\ TableSize(source) \in Nat /\ TableSize(source) <= At(source, n - 1)
<1>1. IsList(source) /\ size = At(source, Len(source))
  BY SizeIs
<1> QED BY <1>1, AtNext

LEMMA TablePlaceIs ==
    ASSUME SourceOK, element = "variable", NEW n \in 1 .. Len(source)
    PROVE  /\ (n - 1) * BYTES_PER_LENGTH_OFFSET \in Nat
           /\ n * BYTES_PER_LENGTH_OFFSET \in Nat
           /\ (n - 1) * BYTES_PER_LENGTH_OFFSET + BYTES_PER_LENGTH_OFFSET
                 = n * BYTES_PER_LENGTH_OFFSET
           /\ n * BYTES_PER_LENGTH_OFFSET <= TableSize(source)
           /\ TableSize(source) = Len(source) * BYTES_PER_LENGTH_OFFSET
           /\ BYTES_PER_LENGTH_OFFSET \in Nat \ {0}
<1> DEFINE B == BYTES_PER_LENGTH_OFFSET
<1>1. Len(source) \in Nat /\ B \in Nat \ {0}
  BY SizeIs, ListAssumption
<1>2. n \in Nat /\ n - 1 \in Nat /\ (n - 1) + 1 = n /\ n <= Len(source)
  BY <1>1
<1>3. TableSize(source) = Len(source) * B
  BY DEF TableSize
<1>4. ((n - 1) + 1) * B = (n - 1) * B + B /\ (n - 1) * B \in Nat
  BY <1>1, <1>2, TimesNext
<1>5. n * B <= Len(source) * B /\ n * B \in Nat
  BY <1>1, <1>2, TimesGrows
<1> QED BY <1>1, <1>2, <1>3, <1>4, <1>5

-----------------------------------------------------------------------------
(* Writing into the buffer and reading from it.                            *)

LEMMA WrittenIs ==
    ASSUME NEW b \in Seq(Byte), NEW at \in Nat, NEW bytes \in Seq(Byte)
    PROVE  /\ Written(b, at, bytes) \in Seq(Byte)
           /\ Len(Written(b, at, bytes)) = Len(b)
           /\ \A p \in 1 .. Len(b) :
                 Written(b, at, bytes)[p] =
                    IF p - at \in 1 .. Len(bytes) THEN bytes[p - at] ELSE b[p]
<1> DEFINE w == Written(b, at, bytes)
<1>1. Len(b) \in Nat /\ DOMAIN w = 1 .. Len(b) /\ w = [p \in DOMAIN w |-> w[p]]
  BY DEF Written
<1>2. ASSUME NEW p \in 1 .. Len(b)
      PROVE  /\ w[p] = IF p - at \in 1 .. Len(bytes) THEN bytes[p - at] ELSE b[p]
             /\ w[p] \in Byte
  BY DEF Written
<1> HIDE DEF w
<1>3. w \in Seq(Byte) /\ Len(w) = Len(b)
  BY <1>1, <1>2, FunctionIsSeq
<1> QED BY <1>2, <1>3 DEF w

(* What is written is there,                                               *)
LEMMA WrittenHolds ==
    ASSUME NEW b \in Seq(Byte), NEW at \in Nat, NEW bytes \in Seq(Byte),
           at + Len(bytes) <= Len(b)
    PROVE  Holds(Written(b, at, bytes), at, bytes)
<1> DEFINE w == Written(b, at, bytes)
           l == Len(bytes)
           z == Len(b)
<1>1. \A p \in 1 .. z : w[p] = IF p - at \in 1 .. l THEN bytes[p - at] ELSE b[p]
  BY WrittenIs
<1>2. l \in Nat /\ z \in Nat /\ at + l <= z
  OBVIOUS
<1> HIDE DEF w, l, z
<1>3. ASSUME NEW j \in 1 .. l PROVE w[at + j] = bytes[j]
  <2>1. at + j \in 1 .. z /\ (at + j) - at = j
    BY <1>2
  <2> QED BY <1>1, <2>1
<1> QED BY <1>3 DEF Holds, w, l

(* and what was there stays, if it is not written to.                      *)
LEMMA WrittenKeeps ==
    ASSUME NEW b \in Seq(Byte), NEW at \in Nat, NEW bytes \in Seq(Byte),
           NEW at2 \in Nat, NEW bytes2 \in Seq(Byte),
           Holds(b, at2, bytes2), at2 + Len(bytes2) <= Len(b),
           at2 + Len(bytes2) <= at \/ at + Len(bytes) <= at2
    PROVE  Holds(Written(b, at, bytes), at2, bytes2)
<1> DEFINE w == Written(b, at, bytes)
           l == Len(bytes)
           l2 == Len(bytes2)
           z == Len(b)
<1>1. \A p \in 1 .. z : w[p] = IF p - at \in 1 .. l THEN bytes[p - at] ELSE b[p]
  BY WrittenIs
<1>2. /\ l \in Nat /\ l2 \in Nat /\ z \in Nat /\ at2 + l2 <= z
      /\ at2 + l2 <= at \/ at + l <= at2
  OBVIOUS
<1>3. \A j \in 1 .. l2 : b[at2 + j] = bytes2[j]
  BY DEF Holds
<1> HIDE DEF w, l, l2, z
<1>4. ASSUME NEW j \in 1 .. l2 PROVE w[at2 + j] = bytes2[j]
  <2>1. at2 + j \in 1 .. z /\ (at2 + j) - at \notin 1 .. l
    BY <1>2
  <2> QED BY <1>1, <1>3, <2>1
<1> QED BY <1>4 DEF Holds, w, l2

(* The bytes the reader gets.                                              *)
LEMMA ReceivedIs ==
    ASSUME SourceOK, BufferOK
    PROVE  /\ received \in Seq(Byte) /\ End \in Nat /\ End = room - missing
           /\ End <= size /\ base + End <= Len(buffer)
           /\ \A p \in 1 .. End : received[p] = buffer[base + p]
<1> DEFINE from == base + 1
           to == base + room - missing
           r == SubSeq(buffer, from, to)
<1>1. /\ base \in Nat /\ missing \in Nat /\ room \in Nat /\ missing <= room
      /\ room <= size /\ size \in Nat
  BY SizeIs, RoomIs DEF SourceOK
<1>2. buffer \in Seq(Byte) /\ Len(buffer) = 2 * base + room
  BY DEF BufferOK, IsBuffer
<1>3. \A i \in from .. to : i \in 1 .. Len(buffer)
  BY <1>1, <1>2
<1>4. \A i \in from .. to : buffer[i] \in Byte
  BY <1>2, <1>3
<1>5. from \in Int /\ to \in Int
  BY <1>1
<1>6. /\ r \in Seq(Byte) /\ Len(r) = (IF from <= to THEN to - from + 1 ELSE 0)
      /\ \A i \in 1 .. to - from + 1 : r[i] = buffer[from + i - 1]
  <2> HIDE DEF from, to
  <2> QED BY <1>4, <1>5, SubSeqProperties
<1>7. received = r
  BY DEF received
<1> HIDE DEF r
<1>8. Len(r) = room - missing
  <2>1. (IF from <= to THEN to - from + 1 ELSE 0) = room - missing
    BY <1>1
  <2> QED BY <1>6, <2>1
<1>9. /\ room - missing \in Nat /\ room - missing <= size
      /\ base + (room - missing) <= Len(buffer)
  BY <1>1, <1>2
<1>10. ASSUME NEW p \in 1 .. room - missing
       PROVE  r[p] = buffer[base + p]
  <2>1. p \in 1 .. to - from + 1 /\ from + p - 1 = base + p
    BY <1>1
  <2> HIDE DEF from, to
  <2> QED BY <1>6, <2>1
<1> QED BY <1>6, <1>7, <1>8, <1>9, <1>10 DEF End

LEMMA SliceIs ==
    ASSUME SourceOK, BufferOK, NEW from \in Nat, NEW to \in Nat, to <= End
    PROVE  /\ Slice(from, to) \in Seq(Byte)
           /\ Len(Slice(from, to)) = IF from <= to THEN to - from ELSE 0
           /\ \A j \in 1 .. to - from : Slice(from, to)[j] = buffer[base + from + j]
<1>1. /\ received \in Seq(Byte) /\ End \in Nat /\ End = Len(received)
      /\ \A p \in 1 .. End : received[p] = buffer[base + p]
  BY ReceivedIs DEF End
<1>2. base \in Nat
  BY SizeIs
<1> DEFINE r == received
           s == SubSeq(r, from + 1, to)
<1> HIDE DEF r
<1>3. \A i \in from + 1 .. to : i \in 1 .. End
  BY <1>1
<1>4. \A i \in from + 1 .. to : r[i] \in Byte
  BY <1>1, <1>3 DEF r
<1>5. /\ s \in Seq(Byte)
      /\ Len(s) = (IF from + 1 <= to THEN to - (from + 1) + 1 ELSE 0)
      /\ \A i \in 1 .. to - (from + 1) + 1 : s[i] = r[(from + 1) + i - 1]
  <2>1. from + 1 \in Int /\ to \in Int
    OBVIOUS
  <2> QED BY <1>4, <2>1, SubSeqProperties
<1>6. Slice(from, to) = s
  BY DEF Slice, r
<1> HIDE DEF s
<1>7. ASSUME NEW j \in 1 .. to - from PROVE s[j] = buffer[base + from + j]
  <2>1. /\ j \in 1 .. to - (from + 1) + 1 /\ (from + 1) + j - 1 = from + j
        /\ from + j \in 1 .. End /\ base + (from + j) = base + from + j
    BY <1>1, <1>2
  <2>2. s[j] = r[from + j]
    BY <1>5, <2>1
  <2>3. r[from + j] = buffer[base + (from + j)]
    BY <1>1, <2>1 DEF r
  <2> QED BY <2>1, <2>2, <2>3
<1>8. (IF from + 1 <= to THEN to - (from + 1) + 1 ELSE 0) =
         IF from <= to THEN to - from ELSE 0
  OBVIOUS
<1> QED BY <1>5, <1>6, <1>7, <1>8

(* What stands in the buffer is what a slice of it is.                     *)
LEMMA SliceFound ==
    ASSUME SourceOK, BufferOK, NEW bytes \in Seq(Byte), NEW from \in Nat, NEW to \in Nat,
           to = from + Len(bytes), to <= End, Holds(buffer, base + from, bytes)
    PROVE  Slice(from, to) = bytes
<1>1. /\ Slice(from, to) \in Seq(Byte)
      /\ Len(Slice(from, to)) = IF from <= to THEN to - from ELSE 0
      /\ \A j \in 1 .. to - from : Slice(from, to)[j] = buffer[base + from + j]
  BY SliceIs
<1>2. Len(bytes) \in Nat
  OBVIOUS
<1>3. to - from = Len(bytes) /\ from <= to
  BY <1>2
<1>4. Len(Slice(from, to)) = Len(bytes)
  BY <1>1, <1>3
<1>5. \A j \in 1 .. Len(bytes) : Slice(from, to)[j] = bytes[j]
  BY <1>1, <1>3 DEF Holds
<1> HIDE DEF Slice
<1> QED BY <1>1, <1>4, <1>5, SeqEqual

(* An offset that is where it is read is the only number it can be.        *)
LEMMA OffsetRead ==
    ASSUME NEW v \in 0 .. UINT32_VALUES - 1, NEW at,
           Slice(at, at + BYTES_PER_LENGTH_OFFSET) = Word(v)
    PROVE  WordsAt(at) = {v}
<1>1. 1 \in 1 .. BYTES_PER_LENGTH_OFFSET
  BY ListAssumption
<1>2. \A n : Word(n)[1].word = n
  BY <1>1 DEF Word
<1>3. \A n : Word(n) = Word(v) => n = v
  BY <1>2
<1> HIDE DEF Word
<1>4. {n \in 0 .. UINT32_VALUES - 1 : Word(n) = Word(v)} = {v}
  BY <1>3
<1> QED BY <1>4 DEF WordsAt

LEMMA OffsetsAre32 ==
    ASSUME NEW at
    PROVE  WordsAt(at) \subseteq 0 .. UINT32_VALUES - 1
BY DEF WordsAt

-----------------------------------------------------------------------------
(* No action changes the list or its place.                                *)
LEMMA SameEnv ==
    ASSUME UNCHANGED env
    PROVE  /\ holder' = holder /\ element' = element /\ width' = width
           /\ source' = source /\ base' = base /\ missing' = missing
           /\ size' = size /\ room' = room /\ (Fits32' <=> Fits32)
           /\ SourceOK' <=> SourceOK
<1>1. UNCHANGED <<holder, element, width, source, base, missing>>
  BY DEF env, type
<1>2. sizes_to' = sizes_to /\ totals' = totals
  BY <1>1 DEF sizes_to, totals
<1>3. size' = size
  BY <1>1, <1>2 DEF size
<1>4. room' = room
  BY <1>1, <1>2, <1>3 DEF room, total_size
<1>5. Fits32' <=> Fits32
  BY <1>3 DEF Fits32
<1>6. SourceOK' <=> SourceOK
  BY <1>1, <1>4 DEF SourceOK, IsList, Byte
<1> QED BY <1>1, <1>3, <1>4, <1>5, <1>6

LEMMA SameAt ==
    ASSUME UNCHANGED env, NEW n
    PROVE  At(source, n)' = At(source, n)
<1>1. UNCHANGED <<element, source>>
  BY DEF env, type
<1>2. Before(source)' = Before(source)
  BY <1>1 DEF Before, Sums!AreLengths
<1> QED BY <1>1, <1>2 DEF At, TableSize

LEMMA SamePart ==
    ASSUME UNCHANGED env, NEW n, HasPart(buffer', n)
    PROVE  HasPart(buffer, n)'
<1>1. UNCHANGED <<element, source, base>>
  BY DEF env, type
<1>2. At(source, n - 1)' = At(source, n - 1)
  BY SameAt
<1>3. Holds(buffer, base + At(source, n - 1), source[n])'
  BY <1>1, <1>2 DEF HasPart, Holds
<1>4. ASSUME element' = "variable"
      PROVE  Holds(buffer, base + (n - 1) * BYTES_PER_LENGTH_OFFSET,
                   Word(At(source, n - 1) % UINT32_VALUES))'
  BY <1>1, <1>2, <1>4 DEF HasPart, Holds, Word
<1> QED BY <1>3, <1>4 DEF HasPart

-----------------------------------------------------------------------------
(* The invariant holds initially.                                          *)

LEMMA FilledIs ==
    ASSUME NEW length \in Nat, NEW byte \in Byte
    PROVE  /\ Filled(length, byte) \in Seq(Byte) /\ Len(Filled(length, byte)) = length
           /\ \A j \in 1 .. length : Filled(length, byte)[j] = byte
<1> DEFINE f == Filled(length, byte)
<1>1. /\ DOMAIN f = 1 .. length /\ f = [j \in DOMAIN f |-> f[j]]
      /\ \A j \in 1 .. length : f[j] = byte
  BY DEF Filled
<1> HIDE DEF f
<1>2. f \in Seq(Byte) /\ Len(f) = length
  BY <1>1, FunctionIsSeq
<1> QED BY <1>1, <1>2 DEF f

(* Bytes between others that are stale.                                    *)
IsBetween(b, k, bytes) == b = Filled(k, Stale) \o bytes \o Filled(k, Stale)

LEMMA Between ==
    ASSUME NEW k \in Nat, NEW bytes \in Seq(Byte), NEW b, IsBetween(b, k, bytes)
    PROVE  /\ b \in Seq(Byte) /\ Len(b) = 2 * k + Len(bytes)
           /\ \A p \in 1 .. Len(b) : p <= k \/ p > k + Len(bytes) => b[p] = Stale
           /\ \A p \in 1 .. Len(bytes) : b[k + p] = bytes[p]
<1> DEFINE s == Filled(k, Stale)
           l == Len(bytes)
<1>1. s \in Seq(Byte) /\ Len(s) = k /\ \A j \in 1 .. k : s[j] = Stale
  BY FilledIs DEF Byte
<1>2. l \in Nat
  OBVIOUS
<1> HIDE DEF s
<1> DEFINE c == s \o bytes
<1>3. /\ c \in Seq(Byte) /\ Len(c) = k + l
      /\ \A p \in 1 .. k + l : c[p] = IF p <= k THEN s[p] ELSE bytes[p - k]
  <2>1. /\ c \in Seq(Byte) /\ Len(c) = Len(s) + Len(bytes)
        /\ \A p \in 1 .. Len(s) + Len(bytes) :
              c[p] = IF p <= Len(s) THEN s[p] ELSE bytes[p - Len(s)]
    BY <1>1, ConcatProperties
  <2> QED BY <1>1, <2>1
<1> HIDE DEF c
<1>4. b = c \o s
  BY DEF IsBetween, c, s
<1>5. /\ b \in Seq(Byte) /\ Len(b) = (k + l) + k
      /\ \A p \in 1 .. (k + l) + k : b[p] = IF p <= k + l THEN c[p] ELSE s[p - (k + l)]
  <2>1. /\ c \o s \in Seq(Byte) /\ Len(c \o s) = Len(c) + Len(s)
        /\ \A p \in 1 .. Len(c) + Len(s) :
              (c \o s)[p] = IF p <= Len(c) THEN c[p] ELSE s[p - Len(c)]
    <3>1. c \in Seq(Byte) /\ s \in Seq(Byte)
      BY <1>1, <1>3
    <3> QED BY <3>1, ConcatProperties
  <2> QED BY <1>1, <1>3, <1>4, <2>1
<1> HIDE DEF l
<1>6. (k + l) + k = 2 * k + l
  BY <1>2
<1>7. ASSUME NEW p \in 1 .. (k + l) + k, p <= k \/ p > k + l
      PROVE  b[p] = Stale
  <2>1. CASE p <= k
    <3>1. p \in 1 .. k /\ p <= k + l /\ p \in 1 .. k + l
      BY <1>2, <2>1
    <3> QED BY <1>1, <1>3, <1>5, <3>1
  <2>2. CASE p > k + l
    <3>1. ~(p <= k + l) /\ p - (k + l) \in 1 .. k
      BY <1>2, <2>2
    <3> QED BY <1>1, <1>5, <3>1
  <2> QED BY <1>7, <2>1, <2>2
<1>8. ASSUME NEW p \in 1 .. l PROVE b[k + p] = bytes[p]
  <2>1. /\ k + p \in 1 .. (k + l) + k /\ k + p <= k + l /\ k + p \in 1 .. k + l
        /\ ~(k + p <= k) /\ (k + p) - k = p
    BY <1>2
  <2> QED BY <1>3, <1>5, <2>1
<1> QED BY <1>5, <1>6, <1>7, <1>8 DEF l

LEMMA InitInvariant == ASSUME Init PROVE IInv
<1>1. /\ holder \in {"array", "vector"}
      /\ element \in {"basic", "object", "vector", "variable"}
      /\ element = "variable" => holder = "vector"
      /\ width \in Widths /\ width \in Nat
      /\ base \in Bases /\ base \in Nat
      /\ missing \in 0 .. MaxMissing /\ missing <= room
      /\ offset = 0 /\ idx = 1 /\ pc = "serialize"
  BY ListAssumption DEF Init
<1>2. PICK count \in 0 .. MaxElements, old \in 0 .. MaxElements :
         /\ holder = "array" => count > 0 /\ old = count
         /\ \E sizes \in [1 .. count -> IF element = "variable" THEN Sizes ELSE {width}] :
               source = [n \in 1 .. count |-> Payload(n, sizes[n])]
         /\ ret = [n \in 1 .. old |-> Filled(width, Stale)]
  BY DEF Init
<1>3. PICK sizes \in [1 .. count -> IF element = "variable" THEN Sizes ELSE {width}] :
         source = [n \in 1 .. count |-> Payload(n, sizes[n])]
  BY <1>2
<1>4. count \in Nat /\ old \in Nat
  BY ListAssumption
<1>5. ASSUME NEW n \in 1 .. count
      PROVE  source[n] \in Seq(Byte) /\ Len(source[n]) = sizes[n]
  <2>1. sizes[n] \in Nat /\ n \in Nat
    <3>1. sizes[n] \in Sizes \/ sizes[n] = width
      <4>1. CASE element = "variable"
        BY <4>1
      <4>2. CASE element # "variable"
        BY <4>2
      <4> QED BY <4>1, <4>2
    <3>2. sizes[n] \in Nat
      BY <1>1, <3>1, ListAssumption
    <3> QED BY <1>4, <3>2
  <2>2. source[n] = Payload(n, sizes[n])
    BY <1>3
  <2>3. \A j \in 1 .. sizes[n] : source[n][j] \in Byte
    BY <2>1, <2>2 DEF Payload, Byte
  <2>4. DOMAIN source[n] = 1 .. sizes[n] /\ source[n] = [j \in DOMAIN source[n] |-> source[n][j]]
    BY <2>2 DEF Payload
  <2> QED BY <2>1, <2>3, <2>4, FunctionIsSeq
<1>6. IsList(source) /\ Len(source) = count
  <2>1. DOMAIN source = 1 .. count /\ source = [n \in DOMAIN source |-> source[n]]
    BY <1>3
  <2> QED BY <1>4, <1>5, <2>1, FunctionIsSeq DEF IsList
<1>7. SourceOK
  <2>1. element # "variable" => \A n \in 1 .. Len(source) : Len(source[n]) = width
    BY <1>3, <1>5, <1>6
  <2> QED BY <1>1, <1>6, <2>1 DEF SourceOK
<1>8. RetOK
  <2>1. ASSUME NEW n \in 1 .. old
        PROVE  ret[n] \in Seq(Byte) /\ Len(ret[n]) = width
    <3>1. ret[n] = Filled(width, Stale) /\ Stale \in Byte
      BY <1>2 DEF Byte
    <3> QED BY <1>1, <3>1, FilledIs
  <2>2. DOMAIN ret = 1 .. old /\ ret = [n \in DOMAIN ret |-> ret[n]]
    BY <1>2
  <2>3. IsList(ret) /\ Len(ret) = old
    BY <1>4, <2>1, <2>2, FunctionIsSeq DEF IsList
  <2> QED BY <1>2, <1>6, <2>1, <2>3 DEF RetOK
<1>9. /\ room \in Nat /\ size \in Nat /\ Len(source) \in Nat /\ TableSize(source) \in Nat
      /\ At(source, 0) = TableSize(source) /\ TableSize(source) <= size
  BY <1>7, SizeIs, RoomIs, AtEnds
<1>10. BufferOK
  <2> DEFINE byte == IF base = 0 THEN Zero ELSE Stale
             bytes == Filled(room, byte)
  <2>1. bytes \in Seq(Byte) /\ Len(bytes) = room
    BY <1>9, FilledIs DEF Byte
  <2>2. IsBetween(buffer, base, bytes)
    BY DEF Init, IsBetween
  <2> HIDE DEF bytes
  <2>3. /\ buffer \in Seq(Byte) /\ Len(buffer) = 2 * base + Len(bytes)
        /\ \A p \in 1 .. Len(buffer) :
              p <= base \/ p > base + Len(bytes) => buffer[p] = Stale
    BY <1>1, <2>1, <2>2, Between
  <2> QED BY <2>1, <2>3 DEF BufferOK, IsBuffer
<1>11. data = base + TableSize(source)
  BY DEF Init, TableSize
<1>12. CursorsOK
  <2>1. data \in base .. base + size
    BY <1>1, <1>9, <1>11
  <2>2. offset \in 0 .. UINT32_VALUES - 1 /\ idx \in 1 .. MaxElements + 1
    BY <1>1, ListAssumption
  <2> QED BY <1>1, <2>1, <2>2 DEF CursorsOK
<1>13. Serializing
  <2>1. idx \in 1 .. Len(source) + 1 /\ idx - 1 = 0 /\ 1 .. idx - 1 = {}
    BY <1>1, <1>9
  <2> QED BY <1>1, <1>9, <1>11, <2>1 DEF Serializing
<1>14. Complete /\ Chunks /\ Offsets /\ Ends /\ NoFault
  BY <1>1 DEF Complete, Chunks, Offsets, Ends, NoFault
<1> QED BY <1>7, <1>8, <1>10, <1>12, <1>13, <1>14 DEF IInv

-----------------------------------------------------------------------------
(* serialize.                                                              *)

LEMMA OffsetWordIs ==
    ASSUME SourceOK, NEW n \in 1 .. Len(source)
    PROVE  /\ At(source, n - 1) % UINT32_VALUES \in 0 .. UINT32_VALUES - 1
           /\ At(source, n - 1) % UINT32_VALUES \in Nat
           /\ Word(At(source, n - 1) % UINT32_VALUES) \in Seq(Byte)
           /\ Len(Word(At(source, n - 1) % UINT32_VALUES)) = BYTES_PER_LENGTH_OFFSET
           /\ At(source, n - 1) < UINT32_VALUES =>
                 At(source, n - 1) % UINT32_VALUES = At(source, n - 1)
<1> DEFINE a == At(source, n - 1)
           r == a % UINT32_VALUES
<1>1. a \in Nat
  BY PlaceIs
<1>2. UINT32_VALUES \in Nat \ {0}
  BY ListAssumption
<1> HIDE DEF a
<1>3. r \in 0 .. UINT32_VALUES - 1 /\ (a < UINT32_VALUES => r = a)
  BY <1>1, <1>2, Remainder
<1> HIDE DEF r
<1>4. r \in Nat
  BY <1>2, <1>3
<1>5. Word(r) \in Seq(Byte) /\ Len(Word(r)) = BYTES_PER_LENGTH_OFFSET
  BY <1>4, WordIsSeq
<1> QED BY <1>3, <1>4, <1>5 DEF a, r

LEMMA AtGrows ==
    ASSUME SourceOK, NEW n \in 0 .. Len(source), NEW i \in 0 .. n
    PROVE  /\ At(source, i) \in Nat /\ At(source, n) \in Nat
           /\ At(source, i) <= At(source, n) /\ At(source, n) <= size
<1>1. /\ IsList(source) /\ Len(source) \in Nat /\ TableSize(source) \in Nat
      /\ size = At(source, Len(source))
  BY SizeIs, AtEnds
<1> DEFINE x == Before(source)[i]
           y == Before(source)[n]
           z == Before(source)[Len(source)]
           T == TableSize(source)
<1>2. i \in 0 .. Len(source) /\ Len(source) \in 0 .. Len(source)
  BY <1>1
<1>3. x \in Nat /\ y \in Nat /\ z \in Nat /\ x <= y /\ y <= z
  BY <1>1, <1>2, BeforeGrows
<1>4. At(source, i) = T + x /\ At(source, n) = T + y /\ size = T + z /\ T \in Nat
  BY <1>1 DEF At
<1> HIDE DEF x, y, z, T
<1>5. T + x \in Nat /\ T + y \in Nat /\ T + x <= T + y /\ T + y <= T + z
  BY <1>3, <1>4
<1> QED BY <1>4, <1>5

(* A write inside of the list leaves the bytes around it alone.            *)
LEMMA WriteInside ==
    ASSUME SourceOK, NEW b, IsBuffer(b), NEW at \in Nat, NEW bytes \in Seq(Byte),
           (base <= at /\ at + Len(bytes) <= base + room) \/ base = 0
    PROVE  IsBuffer(Written(b, at, bytes))
<1> DEFINE w == Written(b, at, bytes)
           l == Len(bytes)
           z == Len(b)
<1>1. /\ b \in Seq(Byte) /\ z = 2 * base + room
      /\ \A p \in 1 .. z : p <= base \/ p > base + room => b[p] = Stale
  BY DEF IsBuffer
<1>2. /\ w \in Seq(Byte) /\ Len(w) = z
      /\ \A p \in 1 .. z : w[p] = IF p - at \in 1 .. l THEN bytes[p - at] ELSE b[p]
  BY <1>1, WrittenIs
<1>3. /\ base \in Nat /\ room \in Nat /\ l \in Nat
      /\ (base <= at /\ at + l <= base + room) \/ base = 0
  BY SizeIs, RoomIs
<1> HIDE DEF w, l, z
<1>4. ASSUME NEW p \in 1 .. z, p <= base \/ p > base + room
      PROVE  w[p] = Stale
  <2>1. p - at \notin 1 .. l
    BY <1>1, <1>3, <1>4
  <2> QED BY <1>1, <1>2, <1>4, <2>1
<1> QED BY <1>1, <1>2, <1>4 DEF IsBuffer, w

(* Element n is written after the others, and its offset before it.        *)
LEMMA ElementWritten ==
    ASSUME SourceOK, room = size, NEW b, IsBuffer(b), NEW n \in 1 .. Len(source),
           \A i \in 1 .. n - 1 : HasPart(b, i),
           element = "variable" =>
              Holds(b, base + (n - 1) * BYTES_PER_LENGTH_OFFSET,
                    Word(At(source, n - 1) % UINT32_VALUES)),
           NEW w, w = Written(b, base + At(source, n - 1), source[n])
    PROVE  IsBuffer(w) /\ \A i \in 1 .. n : HasPart(w, i)
<1> DEFINE at == base + At(source, n - 1)
           s == Len(source[n])
<1>1. /\ At(source, n - 1) \in Nat /\ source[n] \in Seq(Byte) /\ s \in Nat
      /\ At(source, n) \in Nat
      /\ At(source, n) = At(source, n - 1) + s /\ At(source, n) <= size
      /\ TableSize(source) \in Nat /\ TableSize(source) <= At(source, n - 1)
  BY PlaceIs
<1>2. base \in Nat /\ room \in Nat /\ Len(source) \in Nat
  BY SizeIs, RoomIs
<1>3. b \in Seq(Byte) /\ Len(b) = 2 * base + room
  BY DEF IsBuffer
<1>4. at \in Nat /\ base <= at /\ at + s <= base + room /\ at + s <= Len(b)
  <2> DEFINE x == At(source, n - 1)
             y == At(source, n)
  <2>1. x \in Nat /\ s \in Nat /\ y = x + s /\ y <= room /\ at = base + x
    BY <1>1
  <2> HIDE DEF at, s, x, y
  <2> QED BY <1>2, <1>3, <2>1
<1> HIDE DEF at, s
<1>5. IsBuffer(w)
  BY <1>1, <1>4, WriteInside DEF at, s
<1>6. Holds(w, at, source[n])
  BY <1>1, <1>3, <1>4, WrittenHolds DEF at, s
<1>7. ASSUME NEW from \in Nat, NEW bytes \in Seq(Byte), Holds(b, from, bytes),
             from + Len(bytes) <= at
      PROVE  Holds(w, from, bytes)
  <2>1. from + Len(bytes) <= Len(b)
    <3>1. Len(bytes) \in Nat /\ Len(b) \in Nat
      BY <1>3
    <3> QED BY <1>1, <1>4, <1>7, <3>1
  <2> QED BY <1>1, <1>3, <1>4, <1>7, <2>1, WrittenKeeps DEF at
<1>8. ASSUME NEW i \in 1 .. n, element = "variable",
             Holds(b, base + (i - 1) * BYTES_PER_LENGTH_OFFSET,
                   Word(At(source, i - 1) % UINT32_VALUES))
      PROVE  Holds(w, base + (i - 1) * BYTES_PER_LENGTH_OFFSET,
                   Word(At(source, i - 1) % UINT32_VALUES))
  <2> DEFINE o == (i - 1) * BYTES_PER_LENGTH_OFFSET
             bytes == Word(At(source, i - 1) % UINT32_VALUES)
             T == TableSize(source)
             a == At(source, n - 1)
  <2>1. i \in 1 .. Len(source)
    BY <1>2
  <2>3. bytes \in Seq(Byte) /\ Len(bytes) = BYTES_PER_LENGTH_OFFSET
    BY <2>1, OffsetWordIs
  <2>4. o \in Nat /\ o + BYTES_PER_LENGTH_OFFSET <= T
    BY <1>8, <2>1, TablePlaceIs
  <2>5. T \in Nat /\ T <= a /\ at = base + a /\ a \in Nat
    BY <1>1 DEF at
  <2> HIDE DEF o, bytes, T, a
  <2>6. base + o \in Nat /\ (base + o) + BYTES_PER_LENGTH_OFFSET <= at
    BY <1>2, <2>4, <2>5, ListAssumption
  <2>7. Holds(b, base + o, bytes)
    BY <1>8 DEF o, bytes
  <2>8. Holds(w, base + o, bytes)
    BY <1>7, <2>3, <2>6, <2>7
  <2> QED BY <2>8 DEF o, bytes
<1>9. ASSUME NEW i \in 1 .. n, i # n PROVE HasPart(w, i)
  <2>1. i \in 1 .. n - 1 /\ i \in 1 .. Len(source) /\ n - 1 \in 0 .. Len(source) /\ i \in 0 .. n - 1
    BY <1>2, <1>9
  <2>2. HasPart(b, i)
    BY <2>1
  <2>3. /\ At(source, i - 1) \in Nat /\ source[i] \in Seq(Byte)
        /\ At(source, i) = At(source, i - 1) + Len(source[i])
        /\ Len(source[i]) \in Nat
    BY <2>1, PlaceIs
  <2>4. At(source, i) <= At(source, n - 1)
    BY <2>1, AtGrows
  <2> DEFINE from == base + At(source, i - 1)
             l == Len(source[i])
             x == At(source, i - 1)
             y == At(source, i)
             z == At(source, n - 1)
  <2>7. /\ x \in Nat /\ y = x + l /\ l \in Nat /\ y <= z /\ z \in Nat
        /\ from = base + x /\ at = base + z
    BY <1>1, <2>3, <2>4 DEF at
  <2> HIDE DEF from, l, x, y, z
  <2>8. from \in Nat /\ from + l <= at
    BY <1>2, <2>7
  <2>5. from \in Nat /\ from + Len(source[i]) <= at
    BY <2>8 DEF l
  <2>6. Holds(w, from, source[i])
    BY <1>7, <2>2, <2>3, <2>5 DEF HasPart, from
  <2> QED BY <1>8, <2>2, <2>6 DEF HasPart, from
<1>10. HasPart(w, n)
  <2>1. n \in 1 .. n
    BY <1>2
  <2> QED BY <1>6, <1>8, <2>1 DEF HasPart, at
<1>11. \A i \in 1 .. n : HasPart(w, i)
  BY <1>9, <1>10
<1> QED BY <1>5, <1>11

(* An offset is written after the others, and before all elements.         *)
LEMMA OffsetWritten ==
    ASSUME SourceOK, room = size, NEW b, IsBuffer(b), element = "variable",
           NEW n \in 1 .. Len(source), \A i \in 1 .. n - 1 : HasPart(b, i),
           NEW w, w = Written(b, base + (n - 1) * BYTES_PER_LENGTH_OFFSET,
                              Word(At(source, n - 1) % UINT32_VALUES))
    PROVE  /\ IsBuffer(w) /\ \A i \in 1 .. n - 1 : HasPart(w, i)
           /\ Holds(w, base + (n - 1) * BYTES_PER_LENGTH_OFFSET,
                    Word(At(source, n - 1) % UINT32_VALUES))
<1> DEFINE B == BYTES_PER_LENGTH_OFFSET
           o == (n - 1) * B
           at == base + o
           T == TableSize(source)
           WordAt(i) == Word(At(source, i - 1) % UINT32_VALUES)
<1>1. ASSUME NEW i \in 1 .. Len(source)
      PROVE  /\ WordAt(i) \in Seq(Byte) /\ Len(WordAt(i)) = B
             /\ (i - 1) * B \in Nat /\ (i - 1) * B + B = i * B /\ i * B \in Nat
             /\ i * B <= T
  <2>1. WordAt(i) \in Seq(Byte) /\ Len(WordAt(i)) = B
    BY OffsetWordIs
  <2> QED BY <2>1, TablePlaceIs
<1>2. base \in Nat /\ room \in Nat /\ Len(source) \in Nat /\ B \in Nat
  BY SizeIs, RoomIs, ListAssumption
<1>3. T \in Nat /\ T <= size
  BY AtEnds, SizeIs
<1>4. b \in Seq(Byte) /\ Len(b) = 2 * base + room
  BY DEF IsBuffer
<1>5. o \in Nat /\ o + B <= T
  BY <1>1
<1> HIDE DEF o, T
<1>6. at \in Nat /\ base <= at /\ at + B <= base + room /\ at + B <= Len(b) /\ at + B <= base + T
  BY <1>2, <1>3, <1>4, <1>5
<1> HIDE DEF at
<1>7. w = Written(b, at, WordAt(n)) /\ WordAt(n) \in Seq(Byte) /\ Len(WordAt(n)) = B
  BY <1>1 DEF at, o
<1> HIDE DEF WordAt
<1>8. IsBuffer(w)
  BY <1>6, <1>7, WriteInside
<1>9. Holds(w, at, WordAt(n))
  BY <1>4, <1>6, <1>7, WrittenHolds
<1>10. ASSUME NEW i \in 1 .. n - 1 PROVE HasPart(w, i)
  <2>1. i \in 1 .. Len(source) /\ i \in Nat /\ n - 1 \in Nat /\ i <= n - 1
    BY <1>2
  <2>2. HasPart(b, i)
    BY <1>10
  <2>3. /\ At(source, i - 1) \in Nat /\ source[i] \in Seq(Byte) /\ Len(source[i]) \in Nat
        /\ At(source, i) = At(source, i - 1) + Len(source[i])
        /\ At(source, i) <= size /\ T <= At(source, i - 1)
    BY <2>1, PlaceIs DEF T
  <2>4. Holds(w, base + At(source, i - 1), source[i])
    <3> DEFINE from == base + At(source, i - 1)
               s == Len(source[i])
               x == At(source, i - 1)
               y == At(source, i)
               z == Len(b)
    <3>5. /\ x \in Nat /\ s \in Nat /\ y = x + s /\ y <= size /\ T <= x
          /\ from = base + x /\ z = 2 * base + room /\ size = room
          /\ base \in Nat /\ room \in Nat /\ B \in Nat /\ at \in Nat /\ T \in Nat
          /\ at + B <= base + T
      BY <1>2, <1>3, <1>4, <1>6, <2>3
    <3> HIDE DEF from, s, x, y, z, B
    <3>6. from \in Nat /\ from + s <= z /\ at + B <= from
      BY <3>5
    <3>1. from \in Nat /\ from + s <= Len(b) /\ at + B <= from
      BY <3>6 DEF z
    <3>2. Holds(b, from, source[i])
      BY <2>2 DEF HasPart, from
    <3>3. at + Len(WordAt(n)) <= from
      BY <1>7, <3>1
    <3>4. Holds(w, from, source[i])
      BY <1>4, <1>6, <1>7, <2>3, <3>1, <3>2, <3>3, WrittenKeeps DEF s
    <3> QED BY <3>4 DEF from
  <2>5. Holds(w, base + (i - 1) * B, WordAt(i))
    <3> DEFINE q == (i - 1) * B
               from == base + q
    <3>1. /\ WordAt(i) \in Seq(Byte) /\ Len(WordAt(i)) = B
          /\ q \in Nat /\ q + B = i * B /\ i * B \in Nat /\ i * B <= T
      BY <1>1, <2>1 DEF WordAt, T
    <3>2. i * B <= o
      BY <1>2, <2>1, TimesGrows DEF o
    <3> HIDE DEF q
    <3>3. from \in Nat /\ from + B <= Len(b) /\ from + B <= at
      BY <1>2, <1>3, <1>4, <1>5, <3>1, <3>2 DEF at
    <3>4. Holds(b, from, WordAt(i))
      BY <2>2 DEF HasPart, q, WordAt
    <3> HIDE DEF from
    <3>5. from + Len(WordAt(i)) <= at /\ from + Len(WordAt(i)) <= Len(b)
      BY <3>1, <3>3
    <3>6. Holds(w, from, WordAt(i))
      BY <1>4, <1>6, <1>7, <3>1, <3>3, <3>4, <3>5, WrittenKeeps
    <3> QED BY <3>6 DEF from, q
  <2> QED BY <2>4, <2>5 DEF HasPart, WordAt
<1> QED BY <1>8, <1>9, <1>10 DEF at, o, WordAt

(* What the actions of serialize have in common.                           *)
LEMMA SerializeStep ==
    ASSUME IInv, UNCHANGED <<env, ret, offset>>, pc = "serialize",
           pc' \in {"serialize", "deserialize"},
           BufferOK', CursorsOK', Serializing', Complete'
    PROVE  IInv'
<1>1. SourceOK'
  BY SameEnv DEF IInv
<1>2. RetOK'
  BY SameEnv DEF IInv, RetOK, IsList, Byte
<1>3. Chunks' /\ Offsets' /\ Ends' /\ NoFault'
  BY DEF Chunks, Offsets, Ends, NoFault
<1> QED BY <1>1, <1>2, <1>3 DEF IInv

(* A buffer that is one in the next state.                                 *)
LEMMA SameBuffer ==
    ASSUME UNCHANGED env, IsBuffer(buffer')
    PROVE  BufferOK'
BY SameEnv DEF BufferOK, IsBuffer, Byte

(* One element more.                                                       *)
LEMMA SerializingNext ==
    ASSUME IInv, UNCHANGED <<env, ret, offset>>,
           pc = "serialize", pc' = "serialize", element # "basic",
           idx \in 1 .. Len(source), idx' = idx + 1,
           data' = data + Len(source[idx]), At(source, idx) <= room, IsBuffer(buffer'),
           room = size => \A n \in 1 .. idx : HasPart(buffer', n)
    PROVE  IInv'
<1>1. SourceOK /\ data = base + At(source, idx - 1)
  BY DEF IInv, Serializing
<1>2. /\ At(source, idx - 1) \in Nat /\ Len(source[idx]) \in Nat
      /\ At(source, idx) = At(source, idx - 1) + Len(source[idx])
      /\ At(source, idx) <= size /\ At(source, idx) \in Nat
      /\ base \in Nat /\ Len(source) \in Nat
  BY <1>1, PlaceIs, SizeIs
<1>3. UNCHANGED <<holder, element, width, source, base, missing, size, room>>
  BY SameEnv
<1>4. data' = base + At(source, idx)
  <2> DEFINE x == At(source, idx - 1)
             y == At(source, idx)
             l == Len(source[idx])
  <2>1. /\ x \in Nat /\ l \in Nat /\ y = x + l /\ base \in Nat
        /\ data = base + x /\ data' = data + l
    BY <1>1, <1>2
  <2> HIDE DEF x, y, l
  <2>2. data' = (base + x) + l
    BY <2>1, Zenon
  <2>3. (base + x) + l = base + y
    BY <2>1
  <2> QED BY <2>2, <2>3 DEF y
<1>5. BufferOK'
  BY SameBuffer
<1>6. CursorsOK'
  <2>1. data' \in base .. base + size
    <3> DEFINE y == At(source, idx)
    <3>1. y \in Nat /\ y <= size /\ data' = base + y
      BY <1>2, <1>4
    <3> HIDE DEF y
    <3>2. base \in Nat /\ size \in Nat
      BY <1>1, SizeIs
    <3>3. base + y \in base .. base + size
      BY <3>1, <3>2
    <3> QED BY <3>1, <3>3
  <2>2. idx' \in 1 .. MaxElements + 1
    BY <1>1, <1>2, ListAssumption DEF SourceOK
  <2> QED BY <1>3, <2>1, <2>2 DEF IInv, CursorsOK
<1>7. Serializing'
  <2>1. idx' \in 1 .. Len(source) + 1 /\ idx' - 1 = idx
    BY <1>2
  <2>2. /\ TableSize(source)' = TableSize(source)
        /\ Before(source') = Before(source)
    BY <1>3 DEF TableSize
  <2>3. At(source, idx - 1)' = At(source, idx)
    BY <2>1, <2>2 DEF At
  <2>4. data' = base' + At(source, idx - 1)' /\ At(source, idx - 1)' <= room'
    BY <1>3, <1>4, <2>3
  <2>5. ASSUME room' = size', NEW n \in 1 .. idx' - 1 PROVE HasPart(buffer, n)'
    <3>1. HasPart(buffer', n)
      BY <1>3, <2>1, <2>5
    <3> QED BY <3>1, SamePart
  <2> QED BY <1>3, <2>1, <2>4, <2>5 DEF Serializing
<1>8. Complete'
  BY DEF Complete
<1> QED BY <1>5, <1>6, <1>7, <1>8, SerializeStep

(* All of it is there.                                                     *)
LEMMA SerializingEnds ==
    ASSUME IInv, UNCHANGED <<env, ret, data, offset>>,
           pc = "serialize", pc' = "deserialize", idx' = 1, IsBuffer(buffer'),
           room = size, \A n \in 1 .. Len(source) : HasPart(buffer', n)
    PROVE  IInv'
<1>1. UNCHANGED <<holder, element, width, source, base, missing, size, room>>
  BY SameEnv
<1>2. BufferOK'
  BY SameBuffer
<1>3. CursorsOK'
  <2>1. idx' \in 1 .. MaxElements + 1
    BY ListAssumption
  <2> QED BY <1>1, <2>1 DEF IInv, CursorsOK
<1>4. Serializing'
  BY DEF Serializing
<1>5. Complete'
  <2>1. ASSUME NEW n \in 1 .. Len(source') PROVE HasPart(buffer, n)'
    <3>1. HasPart(buffer', n)
      BY <1>1, <2>1
    <3> QED BY <3>1, SamePart
  <2> QED BY <1>1, <2>1 DEF Complete
<1> QED BY <1>2, <1>3, <1>4, <1>5, SerializeStep

LEMMA SerializeBasicInvariant == ASSUME IInv, SerializeBasic PROVE IInv'
<1>1. /\ pc = "serialize" /\ element = "basic" /\ pc' = "deserialize" /\ idx' = 1
      /\ buffer' = Written(buffer, base, FlattenSeq(source))
      /\ UNCHANGED <<env, ret, data, offset>>
  BY DEF SerializeBasic, Goto
<1>2. SourceOK /\ IsBuffer(buffer)
  BY DEF IInv, BufferOK
<1>3. /\ room = size /\ room \in Nat /\ base \in Nat /\ IsList(source)
      /\ size = At(source, Len(source))
  BY <1>1, <1>2, SizeIs, RoomIs
<1> DEFINE bytes == FlattenSeq(source)
<1>4. /\ bytes \in Seq(Byte) /\ Len(bytes) = size /\ HasElements(bytes, source)
  <2>1. Encoding(source) = bytes
    BY <1>1 DEF Encoding
  <2> QED BY <1>3, <2>1, EncodingIs DEF IsEncoding
<1> HIDE DEF bytes
<1>5. buffer \in Seq(Byte) /\ Len(buffer) = 2 * base + room
  BY <1>2 DEF IsBuffer
<1>6. base + Len(bytes) <= base + room /\ base + Len(bytes) <= Len(buffer)
  BY <1>3, <1>4, <1>5
<1>7. IsBuffer(buffer')
  BY <1>1, <1>2, <1>3, <1>4, <1>6, WriteInside DEF bytes
<1>8. Holds(buffer', base, bytes)
  BY <1>1, <1>3, <1>4, <1>5, <1>6, WrittenHolds DEF bytes
<1>9. ASSUME NEW n \in 1 .. Len(source) PROVE HasPart(buffer', n)
  <2> DEFINE x == At(source, n - 1)
             y == At(source, n)
             l == Len(source[n])
  <2>1. x \in Nat /\ l \in Nat /\ y = x + l /\ y <= size
    BY <1>2, PlaceIs
  <2> HIDE DEF x, y, l
  <2>2. ASSUME NEW j \in 1 .. l PROVE buffer'[base + x + j] = source[n][j]
    <3>1. x + j \in 1 .. size /\ base + (x + j) = base + x + j
      BY <1>3, <2>1
    <3>2. buffer'[base + (x + j)] = bytes[x + j]
      BY <1>4, <1>8, <3>1 DEF Holds
    <3>3. bytes[x + j] = source[n][j]
      BY <1>4 DEF HasElements, x, l
    <3> QED BY <3>1, <3>2, <3>3
  <2>3. Holds(buffer', base + At(source, n - 1), source[n])
    BY <2>2 DEF Holds, x, l
  <2> QED BY <1>1, <2>3 DEF HasPart
<1> QED BY <1>1, <1>3, <1>7, <1>9, SerializingEnds

LEMMA SerializeObjectInvariant == ASSUME IInv, SerializeObject PROVE IInv'
<1>1. /\ pc = "serialize" /\ element \in {"object", "vector"} /\ pc' = "serialize"
      /\ idx <= Len(source) /\ idx' = idx + 1 /\ data' = data + Len(source[idx])
      /\ buffer' = Written(buffer, data, source[idx])
      /\ UNCHANGED <<env, ret, offset>>
  BY DEF SerializeObject
<1>2. /\ SourceOK /\ IsBuffer(buffer) /\ data = base + At(source, idx - 1)
      /\ idx \in 1 .. Len(source) + 1
      /\ room = size => \A n \in 1 .. idx - 1 : HasPart(buffer, n)
  BY <1>1 DEF IInv, BufferOK, Serializing
<1>3. room = size /\ Len(source) \in Nat
  BY <1>1, <1>2, SizeIs, RoomIs
<1>4. idx \in 1 .. Len(source)
  BY <1>1, <1>2, <1>3
<1>5. IsBuffer(buffer') /\ \A n \in 1 .. idx : HasPart(buffer', n)
  BY <1>1, <1>2, <1>3, <1>4, ElementWritten
<1>6. At(source, idx) <= room
  BY <1>2, <1>3, <1>4, PlaceIs
<1> QED BY <1>1, <1>4, <1>5, <1>6, SerializingNext

LEMMA SerializeVariableInvariant == ASSUME IInv, SerializeVariable PROVE IInv'
<1> DEFINE at == base + (idx - 1) * BYTES_PER_LENGTH_OFFSET
           word == Word(At(source, idx - 1) % UINT32_VALUES)
           b == Written(buffer, at, word)
<1>1. /\ pc = "serialize" /\ element = "variable" /\ pc' = "serialize"
      /\ idx <= Len(source) /\ idx' = idx + 1 /\ data' = data + Len(source[idx])
      /\ data + Len(source[idx]) <= Len(buffer)
      /\ buffer' = Written(Written(buffer, at, Word((data - base) % UINT32_VALUES)),
                           data, source[idx])
      /\ UNCHANGED <<env, ret, offset>>
  BY DEF SerializeVariable, FitsAt
<1>2. /\ SourceOK /\ IsBuffer(buffer) /\ data = base + At(source, idx - 1)
      /\ idx \in 1 .. Len(source) + 1
      /\ room = size => \A n \in 1 .. idx - 1 : HasPart(buffer, n)
  BY <1>1 DEF IInv, BufferOK, Serializing
<1>3. /\ Len(source) \in Nat /\ base \in Nat /\ room \in Nat
      /\ base # 0 => room = size
  BY <1>2, SizeIs, RoomIs
<1>4. idx \in 1 .. Len(source)
  BY <1>1, <1>2, <1>3
<1>5. /\ At(source, idx - 1) \in Nat /\ Len(source[idx]) \in Nat
      /\ source[idx] \in Seq(Byte)
      /\ At(source, idx) = At(source, idx - 1) + Len(source[idx])
      /\ At(source, idx) <= size
  BY <1>2, <1>4, PlaceIs
<1>6. buffer' = Written(b, data, source[idx]) /\ data \in Nat
  <2>1. data - base = At(source, idx - 1)
    BY <1>2, <1>3, <1>5
  <2>2. buffer' = Written(b, data, source[idx])
    BY <1>1, <2>1, Zenon
  <2>3. data \in Nat
    BY <1>2, <1>3, <1>5
  <2> QED BY <2>2, <2>3
<1>7. At(source, idx) <= room
  <2> DEFINE x == At(source, idx - 1)
             y == At(source, idx)
             l == Len(source[idx])
             z == Len(buffer)
  <2>1. /\ x \in Nat /\ l \in Nat /\ y = x + l /\ y <= size
        /\ data = base + x /\ data + l <= z /\ z = 2 * base + room
    BY <1>1, <1>2, <1>5 DEF IsBuffer
  <2> HIDE DEF x, y, l, z
  <2>2. y <= room
    BY <1>3, <2>1
  <2> QED BY <2>2 DEF y
<1>8. word \in Seq(Byte) /\ at \in Nat
  <2>1. (idx - 1) * BYTES_PER_LENGTH_OFFSET \in Nat
    BY <1>1, <1>2, <1>4, TablePlaceIs
  <2> QED BY <1>2, <1>3, <1>4, <2>1, OffsetWordIs
<1> HIDE DEF word, at
<1>9. CASE room = size
  <2>1. /\ IsBuffer(b) /\ \A i \in 1 .. idx - 1 : HasPart(b, i)
        /\ Holds(b, at, word)
    BY <1>1, <1>2, <1>4, <1>9, OffsetWritten DEF at, word
  <2> HIDE DEF b
  <2>2. IsBuffer(buffer') /\ \A n \in 1 .. idx : HasPart(buffer', n)
    BY <1>2, <1>4, <1>6, <1>9, <2>1, ElementWritten DEF at, word
  <2> QED BY <1>1, <1>4, <1>7, <2>2, SerializingNext
<1>10. CASE room # size
  <2>1. base = 0
    BY <1>3, <1>10
  <2>2. IsBuffer(b)
    BY <1>2, <1>8, <2>1, WriteInside
  <2> HIDE DEF b
  <2>3. IsBuffer(buffer')
    BY <1>2, <1>5, <1>6, <2>1, <2>2, WriteInside
  <2> QED BY <1>1, <1>4, <1>7, <1>10, <2>3, SerializingNext
<1> QED BY <1>9, <1>10

LEMMA SerializedInvariant == ASSUME IInv, Serialized PROVE IInv'
<1>1. /\ pc = "serialize" /\ element # "basic" /\ pc' = "deserialize" /\ idx' = 1
      /\ idx > Len(source) /\ UNCHANGED <<env, ret, buffer, data, offset>>
  BY DEF Serialized, Goto
<1>2. /\ SourceOK /\ IsBuffer(buffer) /\ idx \in 1 .. Len(source) + 1
      /\ idx = 1 \/ At(source, idx - 1) <= room
      /\ room = size => \A n \in 1 .. idx - 1 : HasPart(buffer, n)
  BY <1>1 DEF IInv, BufferOK, Serializing
<1>3. /\ Len(source) \in Nat /\ room \in Nat /\ room <= size
      /\ size \in Nat /\ size = At(source, Len(source)) /\ IsList(source)
      /\ element # "variable" => room = size
  BY <1>2, SizeIs, RoomIs
<1>4. idx - 1 = Len(source)
  BY <1>1, <1>2, <1>3
<1>5. room = size
  <2>1. CASE idx = 1 /\ element = "variable"
    <3>1. Len(source) = 0 /\ 0 * BYTES_PER_LENGTH_OFFSET = 0
      BY <1>4, <2>1, ListAssumption
    <3>2. TableSize(source) = 0
      BY <2>1, <3>1 DEF TableSize
    <3>3. size = 0
      BY <1>3, <3>1, <3>2, AtEnds
    <3> QED BY <1>3, <3>3
  <2>2. CASE element # "variable"
    BY <1>3, <2>2
  <2>3. CASE idx # 1
    BY <1>2, <1>3, <1>4, <2>3
  <2> QED BY <2>1, <2>2, <2>3
<1>6. \A n \in 1 .. Len(source) : HasPart(buffer', n)
  BY <1>1, <1>2, <1>4, <1>5
<1>7. IsBuffer(buffer') /\ UNCHANGED <<env, ret, data, offset>>
  BY <1>1, <1>2
<1> QED BY <1>1, <1>5, <1>6, <1>7, SerializingEnds

-----------------------------------------------------------------------------
(* deserialize: what there is to read.                                     *)

ReadingStates == {"deserialize", "chunks", "offsets"}

LEMMA Reading ==
    ASSUME IInv, pc \in ReadingStates \cup {"done"}
    PROVE  /\ SourceOK /\ BufferOK /\ RetOK
           /\ room = size /\ size \in Nat /\ End \in Nat /\ End = size - missing
           /\ base \in Nat /\ missing \in Nat /\ width \in Nat \ {0}
           /\ IsList(source) /\ Len(source) \in Nat /\ Len(source) <= MaxElements
           /\ size = At(source, Len(source))
           /\ IsList(ret) /\ Len(ret) \in Nat /\ Len(ret) <= MaxElements
           /\ \A n \in 1 .. Len(source) : HasPart(buffer, n)
<1>1. SourceOK /\ BufferOK /\ RetOK /\ Complete
  BY DEF IInv
<1>2. /\ IsList(source) /\ Len(source) \in Nat /\ size \in Nat /\ width \in Nat \ {0}
      /\ base \in Nat /\ missing \in Nat /\ size = At(source, Len(source))
  BY <1>1, SizeIs
<1>3. End \in Nat /\ End = room - missing
  BY <1>1, ReceivedIs
<1>4. room = size /\ \A n \in 1 .. Len(source) : HasPart(buffer, n)
  BY <1>1 DEF Complete, ReadingStates
<1>5. Len(source) <= MaxElements /\ IsList(ret) /\ Len(ret) \in Nat /\ Len(ret) <= MaxElements
  BY <1>1, ListAssumption DEF SourceOK, RetOK
<1> QED BY <1>1, <1>2, <1>3, <1>4, <1>5

LEMMA ElementRead ==
    ASSUME IInv, pc \in ReadingStates \cup {"done"}, NEW n \in 1 .. Len(source), At(source, n) <= End
    PROVE  Slice(At(source, n - 1), At(source, n)) = source[n]
<1>1. SourceOK /\ BufferOK /\ HasPart(buffer, n)
  BY Reading
<1>2. /\ At(source, n - 1) \in Nat /\ At(source, n) \in Nat /\ source[n] \in Seq(Byte)
      /\ At(source, n) = At(source, n - 1) + Len(source[n])
  BY <1>1, PlaceIs
<1>3. Holds(buffer, base + At(source, n - 1), source[n])
  BY <1>1 DEF HasPart
<1> QED BY <1>1, <1>2, <1>3, SliceFound

LEMMA TableRead ==
    ASSUME IInv, pc \in ReadingStates, element = "variable", NEW n \in 1 .. Len(source),
           n * BYTES_PER_LENGTH_OFFSET <= End
    PROVE  WordsAt((n - 1) * BYTES_PER_LENGTH_OFFSET) = {At(source, n - 1) % UINT32_VALUES}
<1> DEFINE B == BYTES_PER_LENGTH_OFFSET
           at == (n - 1) * B
           v == At(source, n - 1) % UINT32_VALUES
<1>1. SourceOK /\ BufferOK /\ HasPart(buffer, n)
  BY Reading
<1>2. at \in Nat /\ n * B \in Nat /\ at + B = n * B
  BY <1>1, TablePlaceIs
<1>3. v \in 0 .. UINT32_VALUES - 1 /\ Word(v) \in Seq(Byte) /\ Len(Word(v)) = B
  BY <1>1, OffsetWordIs
<1>4. Holds(buffer, base + at, Word(v))
  BY <1>1 DEF HasPart
<1> HIDE DEF at, v
<1>5. Slice(at, at + B) = Word(v)
  BY <1>1, <1>2, <1>3, <1>4, SliceFound
<1> QED BY <1>3, <1>5, OffsetRead DEF at, v

LEMMA ChunkRead ==
    ASSUME IInv, pc \in ReadingStates, element # "variable", NEW n \in 1 .. Len(source),
           n * width <= End
    PROVE  chunk(n) = source[n] /\ source[n] \in Seq(Byte) /\ Len(source[n]) = width
<1>1. SourceOK /\ Len(source) \in Nat
  BY Reading
<1>2. n \in 0 .. Len(source) /\ n - 1 \in 0 .. Len(source)
  BY <1>1
<1>3. At(source, n) = n * width /\ At(source, n - 1) = (n - 1) * width
  BY <1>1, <1>2, AtUniform
<1>4. Slice((n - 1) * width, n * width) = source[n]
  BY <1>3, ElementRead
<1>5. source[n] \in Seq(Byte) /\ Len(source[n]) = width
  BY <1>1, PlaceIs DEF SourceOK
<1> QED BY <1>4, <1>5 DEF chunk

(* Fixed-size elements fill the list.                                      *)
LEMMA FixedSize ==
    ASSUME SourceOK, element # "variable"
    PROVE  size = Len(source) * width
<1>1. Len(source) \in 0 .. Len(source) /\ size = At(source, Len(source))
  BY SizeIs
<1> QED BY <1>1, AtUniform

(* What the actions of deserialize have in common.                         *)
LEMMA SameReceived ==
    ASSUME UNCHANGED <<env, buffer>>
    PROVE  received' = received /\ End' = End
<1>1. UNCHANGED <<buffer, base, missing, room>>
  BY SameEnv
<1> QED BY <1>1 DEF received, End

LEMMA ReadStep ==
    ASSUME IInv, UNCHANGED <<env, buffer, data>>, pc \in ReadingStates,
           pc' \in {"chunks", "offsets"} \cup Finished,
           RetOK', offset' \in 0 .. UINT32_VALUES - 1, idx' \in 1 .. MaxElements + 1,
           Chunks', Offsets', Ends', NoFault'
    PROVE  IInv'
<1>1. UNCHANGED <<holder, element, width, source, base, missing, size, room>> /\ SourceOK'
  BY SameEnv DEF IInv
<1>2. BufferOK'
  BY SameBuffer DEF IInv, BufferOK
<1>3. CursorsOK'
  BY <1>1 DEF IInv, CursorsOK
<1>4. Serializing'
  BY DEF Serializing, Finished
<1>5. Complete'
  <2>1. room' = size'
    BY <1>1, Reading
  <2>2. ASSUME NEW n \in 1 .. Len(source') PROVE HasPart(buffer, n)'
    <3>1. HasPart(buffer', n)
      BY <1>1, <2>2, Reading
    <3> QED BY <3>1, SamePart
  <2> QED BY <2>1, <2>2 DEF Complete
<1> QED BY <1>1, <1>2, <1>3, <1>4, <1>5 DEF IInv

LEMMA SameRet ==
    ASSUME IInv, UNCHANGED <<env, ret>>
    PROVE  RetOK'
BY SameEnv DEF IInv, RetOK, IsList, Byte

(* An exception or undefined behaviour.                                    *)
LEMMA GivingUp ==
    ASSUME IInv, UNCHANGED <<env, ret, buffer, data, offset>>, pc \in ReadingStates,
           pc' \in {"threw", "undefined"}, idx' = 1,
           ~(Fits32 /\ missing = 0 /\ element # "vector")
    PROVE  IInv'
<1>1. UNCHANGED <<element, missing>> /\ (Fits32' <=> Fits32)
  BY SameEnv
<1>2. Chunks' /\ Offsets' /\ Ends' /\ NoFault'
  BY <1>1 DEF Chunks, Offsets, Ends, NoFault
<1>3. offset' \in 0 .. UINT32_VALUES - 1 /\ idx' \in 1 .. MaxElements + 1
  BY ListAssumption DEF IInv, CursorsOK
<1>4. RetOK'
  BY SameRet
<1>5. pc' \in {"chunks", "offsets"} \cup Finished
  BY DEF Finished
<1> QED BY <1>2, <1>3, <1>4, <1>5, ReadStep

LEMMA NoSizeInvariant == ASSUME IInv, NoSize PROVE IInv'
BY GivingUp DEF NoSize, Goto, ReadingStates

LEMMA DeserializeThrowsInvariant == ASSUME IInv, DeserializeThrows PROVE IInv'
<1>1. /\ pc = "deserialize" /\ element \in {"basic", "object"} /\ pc' = "threw" /\ idx' = 1
      /\ Refused /\ UNCHANGED <<env, ret, buffer, data, offset>>
  BY DEF DeserializeThrows, Fixed, Goto
<1>2. ASSUME missing = 0 PROVE FALSE
  <2>1. /\ End = size /\ size \in Nat /\ Len(source) \in Nat /\ width \in Nat \ {0}
        /\ SourceOK /\ RetOK
    BY <1>1, <1>2, Reading DEF ReadingStates
  <2>2. size = Len(source) * width
    BY <1>1, <2>1, FixedSize
  <2>3. End % width = 0
    BY <2>1, <2>2, QuotientExact
  <2>4. holder = "array" => Len(ret) = Len(source)
    BY <2>1 DEF RetOK
  <2>5. holder = "array" => ~(End < Len(ret) * width)
    BY <2>1, <2>2, <2>4
  <2> QED BY <1>1, <2>3, <2>5 DEF Refused
<1> QED BY <1>1, <1>2, GivingUp DEF ReadingStates

LEMMA ChunkThrowsInvariant == ASSUME IInv, ChunkThrows PROVE IInv'
<1>1. /\ pc = "chunks" /\ (idx - 1) * width < End /\ End < idx * width
      /\ pc' = "threw" /\ idx' = 1 /\ UNCHANGED <<env, ret, buffer, data, offset>>
  BY DEF ChunkThrows, ShortChunk, Goto
<1>2. element = "object" /\ idx \in 1 .. MaxElements + 1
  BY <1>1 DEF IInv, Chunks, CursorsOK
<1>3. ASSUME missing = 0 PROVE FALSE
  <2>1. /\ End = size /\ size \in Nat /\ Len(source) \in Nat /\ width \in Nat \ {0}
        /\ SourceOK
    BY <1>1, <1>3, Reading DEF ReadingStates
  <2>2. End = Len(source) * width
    BY <1>2, <2>1, FixedSize
  <2>3. idx \in Nat /\ idx - 1 \in Nat
    BY <1>2, ListAssumption
  <2>4. CASE Len(source) <= idx - 1
    <3>1. Len(source) * width <= (idx - 1) * width
      BY <2>1, <2>3, <2>4, TimesGrows
    <3>2. (idx - 1) * width \in Nat
      BY <2>1, <2>3, TimesNext
    <3> QED BY <1>1, <2>1, <2>2, <3>1, <3>2
  <2>5. CASE idx <= Len(source)
    <3>1. idx * width <= Len(source) * width /\ idx * width \in Nat
      BY <2>1, <2>3, <2>5, TimesGrows
    <3> QED BY <1>1, <2>1, <2>2, <3>1
  <2> QED BY <2>1, <2>3, <2>4, <2>5
<1> QED BY <1>1, <1>3, GivingUp DEF ReadingStates

-----------------------------------------------------------------------------
(* deserialize: fixed-size elements.                                       *)

(* How many elements the bytes hold.                                       *)
LEMMA VectorLength ==
    ASSUME IInv, pc = "deserialize", element \in {"basic", "object"}, ~Refused
    PROVE  /\ vector_length \in Nat /\ vector_length <= Len(source)
           /\ vector_length <= MaxElements
           /\ holder = "vector" \/ element = "basic" => vector_length * width = End
           /\ holder = "array" => vector_length = Len(ret) /\ Len(ret) = Len(source)
<1>1. /\ SourceOK /\ RetOK /\ End \in Nat /\ size \in Nat /\ width \in Nat \ {0}
      /\ End <= size /\ Len(source) \in Nat /\ Len(source) <= MaxElements
      /\ Len(ret) \in Nat
  <2>1. End = size - missing /\ missing \in Nat /\ size \in Nat
    BY Reading DEF ReadingStates
  <2>2. End <= size
    BY <2>1
  <2> QED BY <2>2, Reading DEF ReadingStates
<1>2. size = Len(source) * width
  BY <1>1, FixedSize
<1>3. holder \in {"array", "vector"} /\ MaxElements \in Nat
  BY <1>1, ListAssumption DEF SourceOK
<1>4. CASE holder = "vector"
  <2> DEFINE v == End \div width
  <2>1. End % width = 0 /\ vector_length = v
    BY <1>4 DEF Refused, vector_length
  <2>2. v \in Nat /\ End = v * width + (End % width)
    BY <1>1, Quotient
  <2> HIDE DEF v
  <2>3. v * width = End
    <3>1. v * width \in Nat
      BY <1>1, <2>2, TimesNext
    <3> QED BY <2>1, <2>2, <3>1
  <2>4. v <= Len(source)
    BY <1>1, <1>2, <2>2, <2>3, TimesCancels
  <2> QED BY <1>1, <1>3, <1>4, <2>1, <2>2, <2>3, <2>4
<1>5. CASE holder = "array"
  <2>1. vector_length = Len(ret) /\ Len(ret) = Len(source)
    BY <1>1, <1>5 DEF vector_length, RetOK
  <2>2. element = "basic" => ~(End < Len(source) * width)
    BY <1>5, <2>1 DEF Refused
  <2>3. element = "basic" => Len(source) * width = End
    BY <1>1, <1>2, <2>2
  <2> QED BY <1>1, <1>5, <2>1, <2>3
<1> QED BY <1>3, <1>4, <1>5

LEMMA DeserializeBasicInvariant == ASSUME IInv, DeserializeBasic PROVE IInv'
<1>1. /\ pc = "deserialize" /\ element = "basic" /\ ~Refused
      /\ ret' = [n \in 1 .. vector_length |-> chunk(n)]
      /\ pc' = "done" /\ idx' = 1 /\ UNCHANGED <<env, buffer, data, offset>>
  BY DEF DeserializeBasic, Goto
<1> DEFINE v == vector_length
<1>2. /\ v \in Nat /\ v <= Len(source) /\ v <= MaxElements /\ v * width = End
      /\ holder = "array" => v = Len(source)
  BY <1>1, VectorLength
<1>3. Len(source) \in Nat /\ width \in Nat \ {0} /\ MaxElements \in Nat
  BY <1>1, Reading, ListAssumption DEF ReadingStates
<1>4. ASSUME NEW n \in 1 .. v
      PROVE  ret'[n] = source[n] /\ source[n] \in Seq(Byte) /\ Len(source[n]) = width
  <2>1. n \in 1 .. Len(source) /\ n \in Nat /\ n <= v
    BY <1>2, <1>3
  <2>2. n * width <= End
    BY <1>2, <1>3, <2>1, TimesGrows
  <2>3. ret'[n] = chunk(n)
    BY <1>1
  <2> QED BY <1>1, <2>1, <2>2, <2>3, ChunkRead DEF ReadingStates
<1>5. IsList(ret') /\ Len(ret') = v
  <2>1. DOMAIN ret' = 1 .. v /\ ret' = [n \in DOMAIN ret' |-> ret'[n]]
    BY <1>1
  <2> HIDE DEF v
  <2> QED BY <1>2, <1>4, <2>1, FunctionIsSeq DEF IsList
<1>6. UNCHANGED <<holder, element, width, source, base, missing>>
  BY <1>1, SameEnv
<1> HIDE DEF v
<1>7. RetOK'
  <2>1. Len(ret') \in 0 .. MaxElements
    BY <1>2, <1>3, <1>5
  <2> QED BY <1>2, <1>4, <1>5, <1>6, <2>1 DEF RetOK, IsList, Byte
<1>8. Ends'
  <2>1. v \in 0 .. Len(ret') /\ End' = End
    <3>1. v \in 0 .. Len(ret')
      BY <1>2, <1>5
    <3> QED BY <1>1, <3>1, SameReceived
  <2>2. v * width' = End' /\ v <= Len(source') /\ \A i \in 1 .. v : ret'[i] = source'[i]
    BY <1>2, <1>4, <1>6, <2>1
  <2>3. v * width < (v + 1) * width
    BY <1>2, <1>3, TimesLess
  <2>4. End' < (v + 1) * width'
    BY <1>2, <1>6, <2>1, <2>3
  <2>5. EndsFixed'
    BY <1>5, <2>1, <2>2, <2>4 DEF EndsFixed, Back
  <2> QED BY <1>1, <1>6, <2>5 DEF Ends
<1>9. Chunks' /\ Offsets' /\ NoFault'
  BY <1>1 DEF Chunks, Offsets, NoFault
<1>10. offset' \in 0 .. UINT32_VALUES - 1 /\ idx' \in 1 .. MaxElements + 1
  BY <1>1, <1>3 DEF IInv, CursorsOK
<1>11. pc \in ReadingStates /\ pc' \in {"chunks", "offsets"} \cup Finished
  BY <1>1 DEF ReadingStates, Finished
<1> QED BY <1>1, <1>7, <1>8, <1>9, <1>10, <1>11, ReadStep

LEMMA DeserializeObjectsInvariant == ASSUME IInv, DeserializeObjects PROVE IInv'
<1> DEFINE v == vector_length
<1>1. /\ pc = "deserialize" /\ element = "object" /\ ~Refused
      /\ ret' = IF holder = "array" THEN ret ELSE [n \in 1 .. v |-> Filled(width, Zero)]
      /\ pc' = "chunks" /\ idx' = 1 /\ UNCHANGED <<env, buffer, data, offset>>
  BY DEF DeserializeObjects, Goto
<1>2. /\ v \in Nat /\ v <= MaxElements
      /\ holder = "vector" => v * width = End
      /\ holder = "array" => Len(ret) = Len(source)
  BY <1>1, VectorLength
<1>3. /\ Len(source) \in Nat /\ width \in Nat /\ MaxElements \in Nat /\ End \in Nat
      /\ holder \in {"array", "vector"} /\ RetOK /\ 0 * width = 0
  <2>1. SourceOK /\ width \in Nat
    BY <1>1, Reading DEF ReadingStates
  <2> QED BY <1>1, <2>1, Reading, ListAssumption DEF ReadingStates, SourceOK
<1>4. UNCHANGED <<holder, element, width, source, base, missing>> /\ End' = End
  BY <1>1, SameEnv, SameReceived
<1> HIDE DEF v
<1>5. /\ IsList(ret') /\ Len(ret') \in 0 .. MaxElements
      /\ holder = "array" => ret' = ret
      /\ holder = "vector" => Len(ret') * width = End
  <2>1. CASE holder = "array"
    BY <1>1, <1>3, <2>1 DEF RetOK
  <2>2. CASE holder = "vector"
    <3>1. ret' = [n \in 1 .. v |-> Filled(width, Zero)]
      BY <1>1, <2>2
    <3>2. ASSUME NEW n \in 1 .. v PROVE ret'[n] \in Seq(Byte)
      <4>1. ret'[n] = Filled(width, Zero) /\ Zero \in Byte
        BY <3>1 DEF Byte
      <4> QED BY <1>3, <4>1, FilledIs
    <3>3. DOMAIN ret' = 1 .. v /\ ret' = [n \in DOMAIN ret' |-> ret'[n]]
      BY <3>1
    <3>4. IsList(ret') /\ Len(ret') = v
      BY <1>2, <3>2, <3>3, FunctionIsSeq DEF IsList
    <3>5. v \in 0 .. MaxElements /\ v * width = End
      BY <1>2, <1>3, <2>2
    <3> QED BY <2>2, <3>4, <3>5
  <2> QED BY <1>3, <2>1, <2>2
<1>6. RetOK'
  <2>1. ASSUME holder = "array"
        PROVE  Len(ret') = Len(source) /\ \A n \in 1 .. Len(ret') : Len(ret'[n]) = width
    BY <1>3, <1>5, <2>1 DEF RetOK
  <2> QED BY <1>4, <1>5, <2>1 DEF RetOK, IsList, Byte
<1>7. Chunks'
  <2>2. idx' - 1 = 0 /\ 1 .. 0 = {} /\ 0 <= Len(source) /\ 0 <= End
    BY <1>1, <1>3
  <2>3. 1 <= Len(ret') + 1
    BY <1>3, <1>5
  <2>1. /\ idx' <= Len(ret') + 1 /\ (idx' - 1) * width <= End
        /\ idx' - 1 <= Len(source) /\ 1 .. idx' - 1 = {}
    BY <1>1, <1>3, <2>2, <2>3
  <2> QED BY <1>1, <1>4, <1>5, <2>1 DEF Chunks, Back
<1>8. Ends' /\ Offsets' /\ NoFault'
  BY <1>1 DEF Ends, Offsets, NoFault
<1>9. offset' \in 0 .. UINT32_VALUES - 1 /\ idx' \in 1 .. MaxElements + 1
  BY <1>1, <1>3 DEF IInv, CursorsOK
<1>10. pc \in ReadingStates /\ pc' \in {"chunks", "offsets"} \cup Finished
  BY <1>1 DEF ReadingStates, Finished
<1> QED BY <1>1, <1>6, <1>7, <1>8, <1>9, <1>10, ReadStep

(* A list of which one element is replaced.                                *)
Replaced(list, i, e) == [list EXCEPT ![i] = e]

LEMMA ReplacedIs ==
    ASSUME NEW list, IsList(list), NEW i \in 1 .. Len(list), NEW e \in Seq(Byte)
    PROVE  /\ IsList(Replaced(list, i, e)) /\ Len(Replaced(list, i, e)) = Len(list)
           /\ Replaced(list, i, e)[i] = e
           /\ \A n \in 1 .. Len(list) : n # i => Replaced(list, i, e)[n] = list[n]
<1> DEFINE r == Replaced(list, i, e)
<1>1. Len(list) \in Nat /\ DOMAIN list = 1 .. Len(list)
  BY BeforeExists
<1>2. \A n \in 1 .. Len(list) : list[n] \in Seq(Byte)
  BY BeforeNext
<1>3. /\ DOMAIN r = 1 .. Len(list) /\ r = [n \in DOMAIN r |-> r[n]] /\ r[i] = e
      /\ \A n \in 1 .. Len(list) : n # i => r[n] = list[n]
  BY <1>1 DEF Replaced
<1> HIDE DEF r
<1>4. \A n \in 1 .. Len(list) : r[n] \in Seq(Byte)
  BY <1>2, <1>3
<1>5. IsList(r) /\ Len(r) = Len(list)
  BY <1>1, <1>3, <1>4, FunctionIsSeq DEF IsList
<1> QED BY <1>3, <1>5 DEF r

(* The element at hand is one of the list, and it comes back.              *)
LEMMA ChunkIs ==
    ASSUME IInv, pc = "chunks", idx * width <= End
    PROVE  /\ idx \in 1 .. Len(ret) /\ idx \in 1 .. Len(source)
           /\ chunk(idx) = source[idx] /\ source[idx] \in Seq(Byte) /\ Len(source[idx]) = width
<1>1. /\ element = "object" /\ idx \in 1 .. MaxElements + 1
      /\ holder = "vector" => Len(ret) * width = End
  BY DEF IInv, Chunks, CursorsOK
<1>2. /\ SourceOK /\ RetOK /\ End = size - missing /\ size \in Nat /\ missing \in Nat
      /\ Len(source) \in Nat /\ Len(ret) \in Nat /\ width \in Nat \ {0} /\ End \in Nat
  BY Reading DEF ReadingStates
<1>3. size = Len(source) * width
  BY <1>1, <1>2, FixedSize
<1>4. idx \in Nat /\ idx > 0
  BY <1>1, ListAssumption
<1>5. idx * width <= Len(source) * width
  <2>1. idx * width \in Nat
    BY <1>2, <1>4, TimesNext
  <2> QED BY <1>2, <1>3, <2>1
<1>6. idx <= Len(source)
  BY <1>2, <1>4, <1>5, TimesCancels
<1>7. idx <= Len(ret)
  <2>1. CASE holder = "vector"
    <3>1. idx * width <= Len(ret) * width
      BY <1>1, <2>1
    <3> QED BY <1>2, <1>4, <3>1, TimesCancels
  <2>2. CASE holder = "array"
    BY <1>2, <1>6, <2>2 DEF RetOK
  <2> QED BY <1>2, <2>1, <2>2 DEF SourceOK
<1>8. idx \in 1 .. Len(ret) /\ idx \in 1 .. Len(source)
  BY <1>2, <1>4, <1>6, <1>7
<1> QED BY <1>1, <1>8, ChunkRead DEF ReadingStates

LEMMA DeserializeChunkInvariant == ASSUME IInv, DeserializeChunk PROVE IInv'
<1>1. /\ pc = "chunks" /\ idx * width <= End /\ ret' = [ret EXCEPT ![idx] = chunk(idx)]
      /\ idx' = idx + 1 /\ pc' = "chunks" /\ UNCHANGED <<env, buffer, data, offset>>
  BY DEF DeserializeChunk
<1>3. /\ element = "object" /\ (holder = "vector" => Len(ret) * width = End)
      /\ Back(idx - 1)
  BY <1>1 DEF IInv, Chunks
<1>4. /\ idx \in 1 .. Len(ret) /\ idx \in 1 .. Len(source)
      /\ chunk(idx) = source[idx] /\ source[idx] \in Seq(Byte) /\ Len(source[idx]) = width
  BY <1>1, ChunkIs
<1>5. RetOK /\ IsList(ret) /\ Len(ret) \in Nat /\ Len(source) \in Nat /\ Len(ret) <= MaxElements
  BY <1>1, Reading DEF ReadingStates
<1>6. UNCHANGED <<holder, element, width, source, base, missing>> /\ End' = End
  BY <1>1, SameEnv, SameReceived
<1>7. /\ IsList(ret') /\ Len(ret') = Len(ret) /\ ret'[idx] = source[idx]
      /\ \A n \in 1 .. Len(ret) : n # idx => ret'[n] = ret[n]
  <2>1. ret' = Replaced(ret, idx, source[idx])
    BY <1>1, <1>4 DEF Replaced
  <2> QED BY <1>4, <1>5, <2>1, ReplacedIs
<1>8. RetOK'
  <2>1. ASSUME holder = "array", NEW n \in 1 .. Len(ret) PROVE Len(ret'[n]) = width
    <3>1. Len(ret[n]) = width
      BY <1>5, <2>1 DEF RetOK
    <3> QED BY <1>4, <1>7, <3>1
  <2>2. Len(ret) \in 0 .. MaxElements /\ (holder = "array" => Len(ret) = Len(source))
    BY <1>5 DEF RetOK
  <2> QED BY <1>6, <1>7, <2>1, <2>2 DEF RetOK, IsList, Byte
<1>9. Chunks'
  <2>1. /\ idx' <= Len(ret) + 1 /\ idx' - 1 = idx /\ idx' - 1 <= Len(source)
    BY <1>1, <1>4, <1>5
  <2>2. ASSUME NEW i \in 1 .. idx PROVE ret'[i] = source[i]
    <3>1. CASE i = idx
      BY <1>7, <3>1
    <3>2. CASE i # idx
      <4>1. i \in 1 .. idx - 1 /\ i \in 1 .. Len(ret)
        BY <1>4, <1>5, <3>2
      <4> QED BY <1>3, <1>7, <3>2, <4>1 DEF Back
    <3> QED BY <3>1, <3>2
  <2> QED BY <1>1, <1>3, <1>6, <1>7, <2>1, <2>2 DEF Chunks, Back
<1>10. Ends' /\ Offsets' /\ NoFault'
  BY <1>1 DEF Ends, Offsets, NoFault
<1>11. offset' \in 0 .. UINT32_VALUES - 1 /\ idx' \in 1 .. MaxElements + 1
  <2>1. idx' \in 1 .. MaxElements + 1
    BY <1>1, <1>4, <1>5, ListAssumption
  <2> QED BY <1>1, <2>1 DEF IInv, CursorsOK
<1>12. pc \in ReadingStates /\ pc' \in {"chunks", "offsets"} \cup Finished
  BY <1>1 DEF ReadingStates
<1> QED BY <1>1, <1>8, <1>9, <1>10, <1>11, <1>12, ReadStep

(* Only an array is left with a chunk that is too short.                   *)
LEMMA ShortIs ==
    ASSUME IInv, ShortChunk
    PROVE  /\ holder = "array" /\ idx \in 1 .. Len(ret) /\ idx \in 1 .. Len(source)
           /\ (idx - 1) * width \in Nat /\ idx * width = (idx - 1) * width + width
<1>1. /\ pc = "chunks" /\ (idx - 1) * width < End /\ End < idx * width
  BY DEF ShortChunk
<1>2. /\ element = "object" /\ idx \in 1 .. MaxElements + 1
      /\ holder = "vector" => Len(ret) * width = End
  BY <1>1 DEF IInv, Chunks, CursorsOK
<1>3. /\ SourceOK /\ RetOK /\ End = size - missing /\ size \in Nat /\ missing \in Nat
      /\ Len(source) \in Nat /\ Len(ret) \in Nat /\ width \in Nat \ {0} /\ End \in Nat
  BY <1>1, Reading DEF ReadingStates
<1>4. size = Len(source) * width
  BY <1>2, <1>3, FixedSize
<1> DEFINE g == idx - 1
<1>5. g \in Nat /\ idx = g + 1 /\ idx \in Nat
  BY <1>2, ListAssumption
<1>6. g * width \in Nat /\ idx * width = g * width + width
  BY <1>3, <1>5, TimesNext
<1>7. holder = "array"
  <2> SUFFICES ASSUME holder = "vector" PROVE FALSE
    BY <1>3 DEF SourceOK
  <2> HIDE DEF g
  <2>1. g * width < Len(ret) * width /\ Len(ret) * width < idx * width
    BY <1>1, <1>2 DEF g
  <2>2. g < Len(ret) /\ Len(ret) < idx
    BY <1>3, <1>5, <2>1, Below
  <2> QED BY <1>3, <1>5, <2>2
<1>8. g < Len(source)
  <2> HIDE DEF g
  <2>1. g * width < Len(source) * width
    <3>1. g * width < End /\ End <= size
      BY <1>1, <1>3 DEF g
    <3> QED BY <1>3, <1>4, <1>6, <3>1
  <2> QED BY <1>3, <1>5, <2>1, Below
<1>9. Len(ret) = Len(source)
  BY <1>3, <1>7 DEF RetOK
<1> QED BY <1>3, <1>5, <1>6, <1>7, <1>8, <1>9

LEMMA ChunkCompletedInvariant == ASSUME IInv, ChunkCompleted PROVE IInv'
<1> DEFINE from == (idx - 1) * width
           lack == idx * width - End
           taken == Slice(from, End)
<1>1. PICK rest \in [1 .. lack -> {Zero, Stale}] :
         /\ ShortChunk /\ ret' = [ret EXCEPT ![idx] = taken \o rest]
         /\ pc' = "done" /\ idx' = 1 /\ UNCHANGED <<env, buffer, data, offset>>
  BY DEF ChunkCompleted, Goto
<1>2. /\ pc = "chunks" /\ from < End /\ End < idx * width
  BY <1>1 DEF ShortChunk
<1>3. /\ holder = "array" /\ idx \in 1 .. Len(ret) /\ idx \in 1 .. Len(source)
      /\ from \in Nat /\ idx * width = from + width
  BY <1>1, ShortIs
<1>4. /\ element = "object" /\ Back(idx - 1)
  BY <1>2 DEF IInv, Chunks
<1>5. /\ SourceOK /\ BufferOK /\ RetOK /\ IsList(ret) /\ Len(ret) \in Nat
      /\ Len(source) \in Nat /\ End \in Nat /\ width \in Nat \ {0}
  BY <1>2, Reading DEF ReadingStates
<1>6. taken \in Seq(Byte) /\ Len(taken) = End - from
  <2> HIDE DEF from
  <2>1. End <= End /\ from <= End
    BY <1>2, <1>3, <1>5
  <2>2. /\ taken \in Seq(Byte)
        /\ Len(taken) = IF from <= End THEN End - from ELSE 0
    BY <1>3, <1>5, <2>1, SliceIs
  <2> QED BY <2>1, <2>2
<1>7. lack \in Nat /\ (End - from) + lack = width
  <2> DEFINE to == idx * width
  <2>1. to = from + width /\ End < to /\ lack = to - End /\ from \in Nat
    BY <1>2, <1>3
  <2> HIDE DEF to, from, lack
  <2> QED BY <1>5, <2>1
<1> HIDE DEF taken, from, lack
<1>8. rest \in Seq(Byte) /\ Len(rest) = lack
  <2>1. rest \in [1 .. lack -> Byte]
    BY <1>1 DEF Byte
  <2> QED BY <1>7, <2>1
<1> DEFINE e == taken \o rest
<1>9. e \in Seq(Byte) /\ Len(e) = width
  <2>1. e \in Seq(Byte) /\ Len(e) = Len(taken) + Len(rest)
    BY <1>6, <1>8, ConcatProperties
  <2> HIDE DEF e
  <2> QED BY <1>6, <1>7, <1>8, <2>1
<1>10. /\ IsList(ret') /\ Len(ret') = Len(ret) /\ ret'[idx] = e
       /\ \A n \in 1 .. Len(ret) : n # idx => ret'[n] = ret[n]
  <2>1. ret' = Replaced(ret, idx, e)
    BY <1>1 DEF Replaced
  <2> HIDE DEF e
  <2> QED BY <1>3, <1>5, <1>9, <2>1, ReplacedIs
<1> HIDE DEF e
<1>11. UNCHANGED <<holder, element, width, source, base, missing>> /\ End' = End
  BY <1>1, SameEnv, SameReceived
<1>12. RetOK'
  <2>1. ASSUME NEW n \in 1 .. Len(ret) PROVE Len(ret'[n]) = width
    <3>1. Len(ret[n]) = width
      BY <1>3, <1>5 DEF RetOK
    <3> QED BY <1>9, <1>10, <3>1
  <2>2. Len(ret) \in 0 .. MaxElements /\ Len(ret) = Len(source)
    BY <1>3, <1>5 DEF RetOK
  <2> QED BY <1>10, <1>11, <2>1, <2>2 DEF RetOK, IsList, Byte
<1>13. Ends'
  <2> DEFINE g == idx - 1
  <2>1. /\ g \in 0 .. Len(ret) /\ g <= Len(source) /\ g + 1 = idx
    BY <1>3, <1>5
  <2>2. \A i \in 1 .. g : ret'[i] = source[i]
    <3> SUFFICES ASSUME NEW i \in 1 .. g PROVE ret'[i] = source[i]
      OBVIOUS
    <3>1. i \in 1 .. Len(ret) /\ i # idx
      BY <1>3, <1>5
    <3> QED BY <1>4, <1>10, <3>1 DEF Back
  <2>3. End < (g + 1) * width
    BY <1>2, <2>1
  <2> HIDE DEF g
  <2>4. EndsFixed'
    BY <1>3, <1>4, <1>10, <1>11, <2>1, <2>2, <2>3 DEF EndsFixed, Back
  <2> QED BY <1>4, <1>11, <2>4 DEF Ends
<1>14. Chunks' /\ Offsets' /\ NoFault'
  BY <1>1 DEF Chunks, Offsets, NoFault
<1>15. offset' \in 0 .. UINT32_VALUES - 1 /\ idx' \in 1 .. MaxElements + 1
  BY <1>1, ListAssumption DEF IInv, CursorsOK
<1>16. pc \in ReadingStates /\ pc' \in {"chunks", "offsets"} \cup Finished
  BY <1>1, <1>2 DEF ReadingStates, Finished
<1> QED BY <1>1, <1>12, <1>13, <1>14, <1>15, <1>16, ReadStep

LEMMA ChunksDoneInvariant == ASSUME IInv, ChunksDone PROVE IInv'
<1>1. /\ pc = "chunks" /\ (idx - 1) * width = End /\ pc' = "done" /\ idx' = 1
      /\ UNCHANGED <<env, ret, buffer, data, offset>>
  BY DEF ChunksDone, Goto
<1>2. /\ element = "object" /\ idx <= Len(ret) + 1 /\ idx - 1 <= Len(source)
      /\ Back(idx - 1) /\ idx \in 1 .. MaxElements + 1
      /\ (holder = "vector" => Len(ret) * width = End)
  BY <1>1 DEF IInv, Chunks, CursorsOK
<1>3. SourceOK /\ Len(ret) \in Nat /\ width \in Nat \ {0}
  BY <1>1, Reading DEF ReadingStates
<1> DEFINE g == idx - 1
<1>4. g \in Nat /\ g \in 0 .. Len(ret)
  BY <1>2, <1>3, ListAssumption
<1>5. holder = "array" \/ g = Len(ret)
  <2>1. CASE holder = "vector"
    <3>1. g * width <= Len(ret) * width /\ Len(ret) * width <= g * width
      <4>1. g * width \in Nat
        BY <1>3, <1>4, TimesNext
      <4>2. g * width = Len(ret) * width
        BY <1>1, <1>2, <2>1
      <4> QED BY <4>1, <4>2
    <3>2. g <= Len(ret) /\ Len(ret) <= g
      BY <1>3, <1>4, <3>1, TimesCancels
    <3> QED BY <1>3, <1>4, <3>2
  <2> QED BY <1>3, <2>1 DEF SourceOK
<1>6. UNCHANGED <<holder, element, width, source, base, missing>> /\ End' = End
  BY <1>1, SameEnv, SameReceived
<1>7. Ends'
  <2>1. g * width = End /\ g <= Len(source) /\ \A i \in 1 .. g : ret[i] = source[i]
    BY <1>1, <1>2 DEF Back
  <2> HIDE DEF g
  <2>2. g * width < (g + 1) * width
    BY <1>3, <1>4, TimesLess
  <2>3. End < (g + 1) * width
    BY <2>1, <2>2
  <2>4. EndsFixed'
    BY <1>1, <1>2, <1>4, <1>5, <1>6, <2>1, <2>3 DEF EndsFixed, Back
  <2> QED BY <1>2, <1>6, <2>4 DEF Ends
<1>8. RetOK'
  BY <1>1, SameRet
<1>9. Chunks' /\ Offsets' /\ NoFault'
  BY <1>1 DEF Chunks, Offsets, NoFault
<1>10. offset' \in 0 .. UINT32_VALUES - 1 /\ idx' \in 1 .. MaxElements + 1
  BY <1>1, ListAssumption DEF IInv, CursorsOK
<1>11. pc \in ReadingStates /\ pc' \in {"chunks", "offsets"} \cup Finished
  BY <1>1 DEF ReadingStates, Finished
<1> QED BY <1>1, <1>7, <1>8, <1>9, <1>10, <1>11, ReadStep

-----------------------------------------------------------------------------
(* deserialize: variable-size elements.                                    *)

LEMMA DeserializeEmptyInvariant == ASSUME IInv, DeserializeEmpty PROVE IInv'
<1>1. /\ pc = "deserialize" /\ element = "variable" /\ End = 0 /\ ret' = <<>>
      /\ pc' = "done" /\ idx' = 1 /\ UNCHANGED <<env, buffer, data, offset>>
  BY DEF DeserializeEmpty, Goto
<1>2. holder = "vector"
  BY <1>1 DEF IInv, SourceOK
<1>3. UNCHANGED <<holder, element, width, source, base, missing>> /\ End' = End
  BY <1>1, SameEnv, SameReceived
<1>4. RetOK'
  <2>1. IsList(ret') /\ Len(ret') \in 0 .. MaxElements
    BY <1>1, ListAssumption DEF IsList
  <2> QED BY <1>2, <1>3, <2>1 DEF RetOK, IsList, Byte
<1>5. Ends'
  BY <1>1, <1>3 DEF Ends, EndsVariable
<1>6. Chunks' /\ Offsets' /\ NoFault'
  BY <1>1 DEF Chunks, Offsets, NoFault
<1>7. offset' \in 0 .. UINT32_VALUES - 1 /\ idx' \in 1 .. MaxElements + 1
  BY <1>1, ListAssumption DEF IInv, CursorsOK
<1>8. pc \in ReadingStates /\ pc' \in {"chunks", "offsets"} \cup Finished
  BY <1>1 DEF ReadingStates, Finished
<1> QED BY <1>1, <1>4, <1>5, <1>6, <1>7, <1>8, ReadStep

(* The first offset is the size of the table, as far as 32 bits hold it.   *)
LEMMA FirstOffset ==
    ASSUME IInv, pc = "deserialize", element = "variable", BYTES_PER_LENGTH_OFFSET <= End
    PROVE  /\ 1 <= Len(source) /\ 1 \in 1 .. Len(source)
           /\ At(source, 0) = TableSize(source)
           /\ TableSize(source) = Len(source) * BYTES_PER_LENGTH_OFFSET
           /\ TableSize(source) \in Nat /\ TableSize(source) <= size
           /\ WordsAt(0) = {TableSize(source) % UINT32_VALUES}
           /\ TableSize(source) % UINT32_VALUES \in Nat
           /\ TableSize(source) % UINT32_VALUES <= TableSize(source)
           /\ Fits32 => TableSize(source) % UINT32_VALUES = TableSize(source)
<1> DEFINE B == BYTES_PER_LENGTH_OFFSET
           U == UINT32_VALUES
           T == TableSize(source)
<1>1. /\ SourceOK /\ IsList(source) /\ Len(source) \in Nat /\ size = At(source, Len(source))
      /\ End = size - missing /\ size \in Nat /\ missing \in Nat
  BY Reading DEF ReadingStates
<1>2. B \in Nat \ {0} /\ U \in Nat \ {0}
  BY ListAssumption
<1>3. T \in Nat /\ At(source, 0) = T /\ T <= size
  BY <1>1, AtEnds
<1>4. T = Len(source) * B
  BY DEF TableSize
<1>5. Len(source) # 0
  <2> SUFFICES ASSUME Len(source) = 0 PROVE FALSE
    OBVIOUS
  <2>1. T = 0
    BY <1>2, <1>4
  <2>2. size = 0
    BY <1>1, <1>3, <2>1
  <2> QED BY <1>1, <1>2, <2>2
<1>6. 1 <= Len(source) /\ 1 \in 1 .. Len(source)
  BY <1>1, <1>5
<1>7. 1 * B <= End /\ (1 - 1) * B = 0 /\ 1 - 1 = 0
  BY <1>2
<1>8. WordsAt(0) = {T % U}
  BY <1>3, <1>6, <1>7, TableRead DEF ReadingStates
<1> HIDE DEF T
<1>9. T % U \in 0 .. U - 1 /\ T % U <= T /\ (T < U => T % U = T)
  BY <1>2, <1>3, Remainder
<1>10. T % U \in Nat /\ (Fits32 => T % U = T)
  <2> DEFINE r == T % U
  <2>1. r \in 0 .. U - 1 /\ (T < U => r = T)
    BY <1>9
  <2> HIDE DEF r
  <2>2. r \in Nat /\ (size < U => r = T)
    BY <1>1, <1>2, <1>3, <2>1
  <2> QED BY <2>2 DEF Fits32, r
<1> QED BY <1>3, <1>4, <1>6, <1>8, <1>9, <1>10 DEF T

LEMMA DeserializeVariableInvariant == ASSUME IInv, DeserializeVariable PROVE IInv'
<1> DEFINE B == BYTES_PER_LENGTH_OFFSET
           T == TableSize(source)
           l == Len(source)
<1>1. /\ pc = "deserialize" /\ element = "variable" /\ B <= End
      /\ pc' = "offsets" /\ idx' = 1 /\ UNCHANGED <<env, buffer, data>>
  BY DEF DeserializeVariable, Goto
<1>2. PICK first \in WordsAt(0) : /\ first >= B /\ offset' = first
                                  /\ ret' = [n \in 1 .. first \div B |-> <<>>]
  BY DEF DeserializeVariable
<1>3. /\ At(source, 0) = T /\ T = l * B /\ T \in Nat /\ first \in Nat /\ first <= T
      /\ Fits32 => first = T
  <2>1. first = T % UINT32_VALUES
    BY <1>1, FirstOffset
  <2> QED BY <1>1, <2>1, FirstOffset
<1>4. l \in Nat /\ l <= MaxElements /\ MaxElements \in Nat /\ B \in Nat \ {0} /\ holder = "vector"
  <2>1. holder = "vector"
    BY <1>1 DEF IInv, SourceOK
  <2> QED BY <1>1, <2>1, Reading, ListAssumption DEF ReadingStates
<1> DEFINE q == first \div B
<1>5. q \in Nat /\ q <= l /\ 1 <= q /\ (Fits32 => q = l)
  <2>1. q \in Nat /\ first = q * B + (first % B) /\ first % B \in 0 .. B - 1
    BY <1>3, <1>4, Quotient
  <2> DEFINE r == first % B
             m == q * B
  <2>2. m \in Nat /\ first = m + r /\ r \in 0 .. B - 1 /\ (q = 0 => m = 0)
    <3> HIDE DEF q
    <3>1. m \in Nat
      BY <1>4, <2>1, TimesNext
    <3>2. q = 0 => m = 0
      BY <1>4
    <3> HIDE DEF m
    <3> QED BY <2>1, <3>1, <3>2 DEF m
  <2> HIDE DEF r
  <2>3. q <= l
    <3>1. q * B <= l * B
      <4> HIDE DEF m, q, T, l
      <4>1. m <= l * B
        BY <1>3, <1>4, <2>2
      <4> QED BY <4>1 DEF m
    <3> QED BY <1>4, <2>1, <3>1, TimesCancels
  <2>4. 1 <= q
    <3> HIDE DEF m, q
    <3> QED BY <1>2, <1>4, <2>1, <2>2
  <2>5. Fits32 => q = l
    BY <1>3, <1>4, QuotientExact
  <2> QED BY <2>1, <2>3, <2>4, <2>5
<1>6. ret' = [n \in 1 .. q |-> <<>>]
  BY <1>2
<1> HIDE DEF q, T
<1>7. IsList(ret') /\ Len(ret') = q
  <2>1. DOMAIN ret' = 1 .. q /\ ret' = [n \in DOMAIN ret' |-> ret'[n]]
    BY <1>6
  <2>2. \A n \in 1 .. q : ret'[n] \in Seq(Byte)
    BY <1>6
  <2> QED BY <1>5, <2>1, <2>2, FunctionIsSeq DEF IsList
<1>8. UNCHANGED <<holder, element, width, source, base, missing>> /\ End' = End
      /\ (Fits32' <=> Fits32)
  BY <1>1, SameEnv, SameReceived
<1>9. RetOK'
  <2>1. Len(ret') \in 0 .. MaxElements
    BY <1>4, <1>5, <1>7
  <2> QED BY <1>4, <1>7, <1>8, <2>1 DEF RetOK, IsList, Byte
<1>10. Offsets'
  <2>1. idx' \in 1 .. Len(ret') /\ Len(ret') <= Len(source')
    BY <1>1, <1>4, <1>5, <1>7, <1>8
  <2>2. ASSUME Fits32
        PROVE  /\ Len(ret') = Len(source) /\ offset' = T
               /\ idx' * B <= End /\ idx' - 1 = 0
    <3>1. idx' * B <= End
      BY <1>1, <1>4
    <3>3. idx' - 1 = 0
      BY <1>1
    <3>4. Len(ret') = Len(source)
      BY <1>5, <1>7, <2>2
    <3>2. Len(ret') = Len(source) /\ offset' = T /\ idx' - 1 = 0
      BY <1>2, <1>3, <2>2, <3>3, <3>4
    <3> QED BY <3>1, <3>2
  <2>3. At(source, idx - 1)' = At(source, 0) \/ ~Fits32
    BY <1>8, <2>2 DEF At, TableSize
  <2>4. ASSUME Fits32, NEW i \in 1 .. idx' - 1 PROVE ret'[i] = source'[i]
    <3>1. 1 .. idx' - 1 = {}
      BY <2>2, <2>4
    <3> QED BY <2>4, <3>1
  <2> QED BY <1>1, <1>3, <1>8, <2>1, <2>2, <2>3, <2>4 DEF Offsets, Back
<1>11. Ends' /\ Chunks' /\ NoFault'
  BY <1>1 DEF Ends, Chunks, NoFault
<1>12. offset' \in 0 .. UINT32_VALUES - 1 /\ idx' \in 1 .. MaxElements + 1
  BY <1>1, <1>2, <1>4, OffsetsAre32
<1>13. pc \in ReadingStates /\ pc' \in {"chunks", "offsets"} \cup Finished
  BY <1>1 DEF ReadingStates
<1> QED BY <1>1, <1>9, <1>10, <1>11, <1>12, <1>13, ReadStep

(* The next offset is where the element at hand ends.                      *)
LEMMA NextOffset ==
    ASSUME IInv, pc = "offsets", idx < Len(ret), TableEnd <= End, Fits32
    PROVE  /\ idx \in 1 .. Len(source) /\ offset = At(source, idx - 1)
           /\ At(source, idx - 1) \in Nat /\ At(source, idx - 1) <= At(source, idx)
           /\ At(source, idx) <= size
           /\ WordsAt(idx * BYTES_PER_LENGTH_OFFSET) = {At(source, idx)}
<1>1. /\ element = "variable" /\ idx \in 1 .. Len(ret) /\ Len(ret) = Len(source)
      /\ offset = At(source, idx - 1)
  BY DEF IInv, Offsets
<1>2. SourceOK /\ Len(source) \in Nat /\ size \in Nat
  BY Reading DEF ReadingStates
<1>3. /\ idx \in 1 .. Len(source) /\ idx + 1 \in 1 .. Len(source) /\ (idx + 1) - 1 = idx
  BY <1>1, <1>2
<1>4. /\ At(source, idx - 1) \in Nat /\ At(source, idx) \in Nat /\ At(source, idx) <= size
      /\ At(source, idx - 1) <= At(source, idx)
  <2> DEFINE x == At(source, idx - 1)
             y == At(source, idx)
             s == Len(source[idx])
  <2>1. x \in Nat /\ s \in Nat /\ y = x + s /\ y <= size
    BY <1>2, <1>3, PlaceIs
  <2> HIDE DEF x, y, s
  <2>2. x \in Nat /\ y \in Nat /\ y <= size /\ x <= y
    BY <2>1
  <2> QED BY <2>2 DEF x, y
<1>5. (idx + 1) * BYTES_PER_LENGTH_OFFSET <= End
  BY DEF TableEnd
<1>6. WordsAt(idx * BYTES_PER_LENGTH_OFFSET) = {At(source, idx) % UINT32_VALUES}
  BY <1>1, <1>3, <1>5, TableRead DEF ReadingStates
<1>7. At(source, idx) % UINT32_VALUES = At(source, idx)
  <2>1. At(source, idx) < UINT32_VALUES
    BY <1>2, <1>4, ListAssumption DEF Fits32
  <2> QED BY <1>2, <1>3, <2>1, OffsetWordIs
<1> QED BY <1>1, <1>3, <1>4, <1>6, <1>7

(* What an element becomes.                                                *)
LEMMA ElementIs ==
    ASSUME BufferOK, SourceOK, NEW to \in Nat, offset \in Nat, to <= End,
           NEW e \in ElementsOf(to)
    PROVE  e \in Seq(Byte) /\ (Own(to) => e = source[idx])
<1>1. Slice(offset, to) \in Seq(Byte)
  BY SliceIs
<1>2. <<Other>> \in Seq(Byte)
  BY DEF Byte
<1> QED BY <1>1, <1>2 DEF ElementsOf, Own

LEMMA DeserializeElementInvariant == ASSUME IInv, DeserializeElement PROVE IInv'
<1>1. /\ pc = "offsets" /\ idx < Len(ret) /\ TableEnd <= End /\ idx' = idx + 1
      /\ pc' = "offsets" /\ UNCHANGED <<env, buffer, data>>
  BY DEF DeserializeElement
<1>2. PICK next_offset \in WordsAt(idx * BYTES_PER_LENGTH_OFFSET) :
         /\ offset <= next_offset /\ next_offset <= End
         /\ \E elem \in ElementsOf(next_offset) : ret' = [ret EXCEPT ![idx] = elem]
         /\ offset' = next_offset
  BY DEF DeserializeElement
<1>3. /\ element = "variable" /\ idx \in 1 .. Len(ret) /\ Len(ret) <= Len(source)
      /\ Fits32 => Len(ret) = Len(source) /\ Back(idx - 1)
      /\ offset \in 0 .. UINT32_VALUES - 1
  BY <1>1 DEF IInv, Offsets, CursorsOK
<1>4. /\ SourceOK /\ BufferOK /\ RetOK /\ IsList(ret) /\ Len(ret) \in Nat
      /\ Len(source) \in Nat /\ Len(ret) <= MaxElements
  BY <1>1, Reading DEF ReadingStates
<1>5. next_offset \in 0 .. UINT32_VALUES - 1 /\ next_offset \in Nat /\ offset \in Nat
  BY <1>3, OffsetsAre32, ListAssumption
<1>17. PICK e \in ElementsOf(next_offset) : ret' = [ret EXCEPT ![idx] = e]
  BY <1>2
<1>6. e \in Seq(Byte) /\ (Own(next_offset) => e = source[idx])
  BY <1>2, <1>4, <1>5, ElementIs
<1>7. /\ IsList(ret') /\ Len(ret') = Len(ret) /\ ret'[idx] = e
      /\ \A n \in 1 .. Len(ret) : n # idx => ret'[n] = ret[n]
  <2>1. ret' = Replaced(ret, idx, e)
    BY <1>17 DEF Replaced
  <2> QED BY <1>3, <1>4, <1>6, <2>1, ReplacedIs
<1>8. UNCHANGED <<holder, element, width, source, base, missing>> /\ End' = End
      /\ (Fits32' <=> Fits32)
  BY <1>1, SameEnv, SameReceived
<1>9. RetOK'
  <2>1. holder = "vector" /\ Len(ret) \in 0 .. MaxElements
    BY <1>3, <1>4 DEF SourceOK, RetOK
  <2> QED BY <1>7, <1>8, <2>1 DEF RetOK, IsList, Byte
<1>10. /\ idx' \in 1 .. Len(ret) /\ idx' - 1 = idx /\ idx' \in 1 .. MaxElements + 1
  BY <1>1, <1>3, <1>4, ListAssumption
<1>11. ASSUME Fits32
       PROVE  /\ offset' = At(source, idx) /\ idx' * BYTES_PER_LENGTH_OFFSET <= End
              /\ offset' <= End /\ \A i \in 1 .. idx : ret'[i] = source[i]
  <2>1. /\ idx \in 1 .. Len(source) /\ offset = At(source, idx - 1)
        /\ next_offset = At(source, idx)
    BY <1>1, <1>11, NextOffset
  <2>2. e = source[idx]
    <3>1. Slice(offset, next_offset) = source[idx]
      BY <1>1, <1>2, <2>1, ElementRead DEF ReadingStates
    <3>2. idx \in DOMAIN source
      BY <1>4, <2>1, BeforeExists DEF SourceOK
    <3> QED BY <1>6, <3>1, <3>2 DEF Own
  <2>3. ASSUME NEW i \in 1 .. idx PROVE ret'[i] = source[i]
    <3>1. CASE i = idx
      BY <1>7, <2>2, <3>1
    <3>2. CASE i # idx
      <4>1. i \in 1 .. idx - 1 /\ i \in 1 .. Len(ret)
        BY <1>3, <1>4, <3>2
      <4> QED BY <1>3, <1>7, <1>11, <3>2, <4>1 DEF Back
    <3> QED BY <3>1, <3>2
  <2>4. idx' * BYTES_PER_LENGTH_OFFSET <= End
    BY <1>1 DEF TableEnd
  <2> QED BY <1>2, <2>1, <2>3, <2>4
<1>12. Offsets'
  <2>1. At(source, idx - 1)' = At(source, idx)
    BY <1>8, <1>10 DEF At, TableSize
  <2>2. ASSUME Fits32
        PROVE  /\ Len(ret') = Len(source') /\ offset' = At(source, idx - 1)'
               /\ idx' * BYTES_PER_LENGTH_OFFSET <= End' /\ offset' <= End'
               /\ Back(idx - 1)'
    <3>1. \A i \in 1 .. idx' - 1 : ret'[i] = source'[i]
      BY <1>8, <1>10, <1>11, <2>2
    <3> QED BY <1>3, <1>7, <1>8, <1>11, <2>1, <2>2, <3>1 DEF Back
  <2>3. idx' \in 1 .. Len(ret') /\ Len(ret') <= Len(source')
    BY <1>3, <1>7, <1>8, <1>10
  <2> QED BY <1>3, <1>8, <2>2, <2>3 DEF Offsets
<1>13. Ends' /\ Chunks' /\ NoFault'
  BY <1>1 DEF Ends, Chunks, NoFault
<1>14. offset' \in 0 .. UINT32_VALUES - 1
  BY <1>2, <1>5
<1>15. pc \in ReadingStates /\ pc' \in {"chunks", "offsets"} \cup Finished
  BY <1>1 DEF ReadingStates
<1> QED BY <1>1, <1>9, <1>10, <1>12, <1>13, <1>14, <1>15, ReadStep

(* The last element, of a list that fits.                                  *)
LEMMA LastIs ==
    ASSUME IInv, pc = "offsets", idx = Len(ret), Fits32
    PROVE  /\ Len(ret) = Len(source) /\ Len(ret) \in 1 .. Len(source)
           /\ offset = At(source, Len(ret) - 1) /\ offset <= End /\ Back(Len(ret) - 1)
<1> DEFINE B == BYTES_PER_LENGTH_OFFSET
<1>1. /\ element = "variable" /\ idx \in 1 .. Len(ret) /\ Len(ret) = Len(source)
      /\ offset = At(source, idx - 1) /\ idx * B <= End
      /\ idx = 1 \/ offset <= End
      /\ Back(idx - 1)
  BY DEF IInv, Offsets
<1>2. SourceOK /\ IsList(source) /\ Len(source) \in Nat /\ End \in Nat
  BY Reading DEF ReadingStates
<1>3. offset <= End
  <2>1. CASE idx = 1
    <3>1. idx - 1 = 0
      BY <2>1
    <3>2. offset = TableSize(source)
      BY <1>1, <1>2, <3>1, AtEnds
    <3>3. TableSize(source) = idx * B
      BY <1>1 DEF TableSize
    <3> QED BY <1>1, <3>2, <3>3
  <2> QED BY <1>1, <2>1
<1> QED BY <1>1, <1>2, <1>3

LEMMA DeserializeLastInvariant == ASSUME IInv, DeserializeLast PROVE IInv'
<1>1. PICK e \in ElementsOf(End) :
         /\ pc = "offsets" /\ idx = Len(ret) /\ ret' = [ret EXCEPT ![idx] = e]
         /\ pc' = "done" /\ idx' = 1 /\ UNCHANGED <<env, buffer, data, offset>>
  BY DEF DeserializeLast, Goto
<1>2. /\ element = "variable" /\ idx \in 1 .. Len(ret) /\ offset \in 0 .. UINT32_VALUES - 1
  BY <1>1 DEF IInv, Offsets, CursorsOK
<1>3. /\ SourceOK /\ BufferOK /\ RetOK /\ IsList(ret) /\ Len(ret) \in Nat
      /\ Len(source) \in Nat /\ End \in Nat
  BY <1>1, Reading DEF ReadingStates
<1>4. offset \in Nat /\ End <= End
  BY <1>2, <1>3, ListAssumption
<1>5. e \in Seq(Byte) /\ (Own(End) => e = source[idx])
  BY <1>3, <1>4, ElementIs
<1>6. /\ IsList(ret') /\ Len(ret') = Len(ret) /\ ret'[idx] = e
      /\ \A n \in 1 .. Len(ret) : n # idx => ret'[n] = ret[n]
  <2>1. ret' = Replaced(ret, idx, e)
    BY <1>1 DEF Replaced
  <2> QED BY <1>2, <1>3, <1>5, <2>1, ReplacedIs
<1>7. UNCHANGED <<holder, element, width, source, base, missing>>
      /\ received' = received /\ End' = End /\ (Fits32' <=> Fits32)
  BY <1>1, SameEnv, SameReceived
<1>8. RetOK'
  <2>1. holder = "vector" /\ Len(ret) \in 0 .. MaxElements
    BY <1>2, <1>3 DEF SourceOK, RetOK
  <2> QED BY <1>6, <1>7, <2>1 DEF RetOK, IsList, Byte
<1>9. Ends'
  <2>1. ASSUME Fits32 PROVE EndsVariable'
    <3>1. /\ Len(ret) = Len(source) /\ Len(ret) \in 1 .. Len(source)
          /\ offset = At(source, Len(ret) - 1) /\ offset <= End /\ Back(Len(ret) - 1)
      BY <1>1, <2>1, LastIs
    <3>2. \A i \in 1 .. Len(ret) - 1 : ret'[i] = source[i]
      <4> SUFFICES ASSUME NEW i \in 1 .. Len(ret) - 1 PROVE ret'[i] = source[i]
        OBVIOUS
      <4>1. i \in 1 .. Len(ret) /\ i # idx
        BY <1>1, <1>3
      <4>2. ret'[i] = ret[i]
        BY <1>6, <4>1
      <4> QED BY <3>1, <4>2 DEF Back
    <3>3. ASSUME At(source, Len(ret)) <= End PROVE ret'[idx] = source[idx]
      <4>1. At(source, idx) = End
        <5>1. size = At(source, Len(source)) /\ End = size - missing /\ missing \in Nat
              /\ size \in Nat
          BY <1>1, Reading DEF ReadingStates
        <5>2. At(source, idx) = size /\ size <= End
          BY <1>1, <3>1, <3>3, <5>1
        <5> QED BY <5>1, <5>2
      <4>2. idx \in 1 .. Len(source) /\ offset = At(source, idx - 1) /\ At(source, idx) <= End
        BY <1>1, <3>1, <3>3
      <4>3. Slice(offset, End) = source[idx]
        BY <1>1, <4>1, <4>2, ElementRead DEF ReadingStates
      <4>4. idx \in DOMAIN source
        BY <1>3, <4>2, BeforeExists DEF SourceOK
      <4>5. Own(End)
        BY <4>3, <4>4 DEF Own
      <4> QED BY <1>5, <1>6, <4>5
    <3>4. At(source, Len(ret))' = At(source, Len(ret))
      BY <1>6, <1>7 DEF At, TableSize
    <3>5. Back(Len(ret) - 1)'
      BY <1>6, <1>7, <3>2 DEF Back
    <3>6. ASSUME At(source, Len(ret))' <= End' PROVE Back(Len(ret))'
      <4>1. ret'[idx] = source[idx]
        BY <1>7, <3>3, <3>4, <3>6
      <4>2. \A i \in 1 .. Len(ret) : i = idx \/ i \in 1 .. Len(ret) - 1
        BY <1>1, <1>3
      <4> QED BY <1>6, <1>7, <3>2, <4>1, <4>2 DEF Back
    <3>7. Len(ret') = Len(source')
      BY <1>6, <1>7, <3>1
    <3>8. ret' # <<>>
      BY <1>3, <1>6, <3>1
    <3> QED BY <3>5, <3>6, <3>7, <3>8 DEF EndsVariable
  <2> QED BY <1>2, <1>7, <2>1 DEF Ends
<1>10. Chunks' /\ Offsets' /\ NoFault'
  BY <1>1 DEF Chunks, Offsets, NoFault
<1>11. offset' \in 0 .. UINT32_VALUES - 1 /\ idx' \in 1 .. MaxElements + 1
  BY <1>1, <1>2, ListAssumption
<1>12. pc \in ReadingStates /\ pc' \in {"chunks", "offsets"} \cup Finished
  BY <1>1 DEF ReadingStates, Finished
<1> QED BY <1>1, <1>8, <1>9, <1>10, <1>11, <1>12, ReadStep

LEMMA ElementFaultsInvariant == ASSUME IInv, ElementFaults PROVE IInv'
<1>1. /\ pc = "offsets" /\ pc' \in {"threw", "undefined"} /\ idx' = 1
      /\ UNCHANGED <<env, ret, buffer, data, offset>>
  BY DEF ElementFaults, Goto
<1>2. SourceOK /\ IsList(source)
  BY <1>1, Reading DEF ReadingStates
<1>3. ASSUME Fits32, missing = 0, idx = Len(ret), ~Own(End) PROVE FALSE
  <2>1. /\ idx = Len(source) /\ idx \in 1 .. Len(source) /\ offset = At(source, idx - 1)
    BY <1>1, <1>3, LastIs
  <2>2. /\ End = size - missing /\ size \in Nat /\ IsList(source) /\ End \in Nat
        /\ size = At(source, Len(source))
    BY <1>1, Reading DEF ReadingStates
  <2>3. End = At(source, idx) /\ At(source, idx) <= End
    BY <1>3, <2>1, <2>2
  <2>4. Slice(offset, End) = source[idx]
    BY <1>1, <2>1, <2>3, ElementRead DEF ReadingStates
  <2>5. idx \in DOMAIN source
    BY <1>2, <2>1, BeforeExists
  <2> QED BY <1>3, <2>4, <2>5 DEF Own
<1>4. ASSUME Fits32, idx < Len(ret), TableEnd <= End,
             NEW next_offset \in WordsAt(idx * BYTES_PER_LENGTH_OFFSET),
             next_offset <= End, ~Own(next_offset)
      PROVE  FALSE
  <2>1. /\ idx \in 1 .. Len(source) /\ offset = At(source, idx - 1)
        /\ next_offset = At(source, idx)
    BY <1>1, <1>4, NextOffset
  <2>2. Slice(offset, next_offset) = source[idx]
    BY <1>1, <1>4, <2>1, ElementRead DEF ReadingStates
  <2>3. idx \in DOMAIN source
    BY <1>2, <2>1, BeforeExists
  <2> QED BY <1>4, <2>2, <2>3 DEF Own
<1>5. ~(Fits32 /\ missing = 0)
  BY <1>3, <1>4 DEF ElementFaults
<1> QED BY <1>1, <1>5, GivingUp DEF ReadingStates

-----------------------------------------------------------------------------
(* Accesses outside the buffer.                                            *)

(* serialize makes none if the room is that of the list,                   *)
LEMMA InRoom ==
    ASSUME IInv, pc = "serialize", element = "variable", idx <= Len(source), room = size
    PROVE  /\ FitsAt(base, idx * BYTES_PER_LENGTH_OFFSET)
           /\ FitsAt(data, Len(source[idx]))
<1>1. /\ SourceOK /\ BufferOK /\ idx \in 1 .. Len(source) + 1
      /\ data = base + At(source, idx - 1)
  BY DEF IInv, Serializing
<1>2. /\ base \in Nat /\ Len(source) \in Nat /\ Len(buffer) = 2 * base + room
      /\ room \in Nat
  BY <1>1, SizeIs, RoomIs DEF BufferOK, IsBuffer
<1>3. idx \in 1 .. Len(source)
  BY <1>1, <1>2
<1> DEFINE x == At(source, idx - 1)
           y == At(source, idx)
           s == Len(source[idx])
           o == idx * BYTES_PER_LENGTH_OFFSET
           T == TableSize(source)
           z == Len(buffer)
<1>4. /\ x \in Nat /\ s \in Nat /\ y = x + s /\ y <= room /\ T \in Nat /\ T <= x
      /\ o \in Nat /\ o <= T /\ z = 2 * base + room /\ data = base + x
  BY <1>1, <1>2, <1>3, PlaceIs, TablePlaceIs
<1> HIDE DEF x, y, s, o, T, z
<1>5. base + o <= z /\ (base + x) + s <= z
  BY <1>2, <1>4
<1> QED BY <1>4, <1>5 DEF FitsAt, s, o, z

(* and deserialize makes none if no byte of a list that fits is lost.      *)
LEMMA FirstInside ==
    ASSUME IInv, pc = "deserialize", element = "variable", End > 0, Fits32, missing = 0
    PROVE  /\ BYTES_PER_LENGTH_OFFSET <= End
           /\ \A first \in WordsAt(0) : first >= BYTES_PER_LENGTH_OFFSET
<1> DEFINE B == BYTES_PER_LENGTH_OFFSET
           T == TableSize(source)
<1>1. /\ SourceOK /\ IsList(source) /\ Len(source) \in Nat /\ size = At(source, Len(source))
      /\ End = size /\ size \in Nat
  BY Reading DEF ReadingStates
<1>2. T \in Nat /\ T <= size /\ At(source, 0) = T /\ T = Len(source) * B /\ B \in Nat \ {0}
  BY <1>1, AtEnds, ListAssumption DEF TableSize
<1>3. Len(source) # 0
  <2> SUFFICES ASSUME Len(source) = 0 PROVE FALSE
    OBVIOUS
  <2>1. T = 0
    BY <1>2
  <2> QED BY <1>1, <1>2, <2>1
<1>4. B <= T
  <2>1. 1 <= Len(source) /\ 1 * B = B
    BY <1>1, <1>2, <1>3
  <2>2. 1 * B <= Len(source) * B
    BY <1>1, <1>2, <2>1, TimesGrows
  <2> QED BY <1>2, <2>1, <2>2
<1>5. B <= End
  BY <1>1, <1>2, <1>4
<1>6. WordsAt(0) = {T}
  BY <1>5, FirstOffset
<1> QED BY <1>4, <1>5, <1>6

LEMMA NextInside ==
    ASSUME IInv, pc = "offsets", idx < Len(ret), Fits32, missing = 0
    PROVE  /\ TableEnd <= End
           /\ \A next_offset \in WordsAt(idx * BYTES_PER_LENGTH_OFFSET) :
                 offset <= next_offset /\ next_offset <= End
<1> DEFINE B == BYTES_PER_LENGTH_OFFSET
           T == TableSize(source)
<1>1. /\ element = "variable" /\ idx \in 1 .. Len(ret) /\ Len(ret) = Len(source)
  BY DEF IInv, Offsets
<1>2. /\ SourceOK /\ IsList(source) /\ Len(source) \in Nat /\ End = size /\ size \in Nat
      /\ size = At(source, Len(source))
  BY Reading DEF ReadingStates
<1>3. idx + 1 \in 1 .. Len(source)
  BY <1>1, <1>2
<1>4. (idx + 1) * B <= T /\ (idx + 1) * B \in Nat /\ T \in Nat /\ T <= size
  BY <1>1, <1>2, <1>3, TablePlaceIs, AtEnds
<1>5. TableEnd <= End
  <2> DEFINE e == (idx + 1) * B
  <2>1. e \in Nat /\ e <= T /\ T \in Nat /\ T <= End
    BY <1>2, <1>4
  <2> HIDE DEF e, T
  <2>2. e <= End
    BY <1>2, <2>1
  <2> QED BY <2>2 DEF e, TableEnd
<1>6. /\ WordsAt(idx * B) = {At(source, idx)} /\ offset <= At(source, idx)
      /\ At(source, idx) <= End
  BY <1>2, <1>5, NextOffset
<1> QED BY <1>5, <1>6

LEMMA OutsideInvariant == ASSUME IInv, Outside PROVE IInv'
<1>1. /\ element = "variable" /\ pc' = "undefined" /\ idx' = 1
      /\ UNCHANGED <<env, ret, buffer, data, offset>>
  BY DEF Outside, Goto
<1>2. CASE /\ pc = "serialize" /\ idx <= Len(source)
           /\ \/ ~FitsAt(base, idx * BYTES_PER_LENGTH_OFFSET)
              \/ ~FitsAt(data, Len(source[idx]))
  <2>1. room # size
    BY <1>1, <1>2, InRoom
  <2>2. ~Fits32
    BY <2>1, RoomIs DEF IInv
  <2>3. UNCHANGED <<holder, element, width, source, base, missing, size, room>>
        /\ (Fits32' <=> Fits32) /\ SourceOK'
    BY <1>1, SameEnv DEF IInv
  <2>4. RetOK' /\ BufferOK'
    BY <1>1, SameRet, SameBuffer DEF IInv, BufferOK
  <2>5. CursorsOK'
    <3>1. idx' \in 1 .. MaxElements + 1
      BY <1>1, ListAssumption
    <3> QED BY <1>1, <2>3, <3>1 DEF IInv, CursorsOK, Finished
  <2>6. Serializing' /\ Complete' /\ Chunks' /\ Offsets' /\ Ends' /\ NoFault'
    BY <1>1, <2>1, <2>2, <2>3 DEF Serializing, Complete, Chunks, Offsets, Ends, NoFault
  <2> QED BY <2>3, <2>4, <2>5, <2>6 DEF IInv
<1>3. CASE /\ pc = "deserialize" /\ End > 0
           /\ ~(/\ BYTES_PER_LENGTH_OFFSET <= End
                /\ \A first \in WordsAt(0) : first >= BYTES_PER_LENGTH_OFFSET)
  BY <1>1, <1>3, FirstInside, GivingUp DEF ReadingStates
<1>4. CASE /\ pc = "offsets" /\ idx < Len(ret)
           /\ \/ TableEnd > End
              \/ /\ TableEnd <= End
                 /\ \E next_offset \in WordsAt(idx * BYTES_PER_LENGTH_OFFSET) :
                       ~(offset <= next_offset /\ next_offset <= End)
  <2>1. ASSUME Fits32, missing = 0 PROVE FALSE
    <3>1. /\ TableEnd <= End
          /\ \A next_offset \in WordsAt(idx * BYTES_PER_LENGTH_OFFSET) :
                offset <= next_offset /\ next_offset <= End
      BY <1>4, <2>1, NextInside
    <3>2. ~(TableEnd > End)
      <4>1. idx \in Nat /\ End \in Nat /\ BYTES_PER_LENGTH_OFFSET \in Nat
        <5>1. idx \in 1 .. MaxElements + 1
          BY DEF IInv, CursorsOK
        <5> QED BY <1>4, <5>1, Reading, ListAssumption DEF ReadingStates
      <4>2. TableEnd \in Nat
        BY <4>1, TimesNext DEF TableEnd
      <4> HIDE DEF TableEnd, End
      <4> QED BY <3>1, <4>1, <4>2
    <3> QED BY <1>4, <3>1, <3>2
  <2> QED BY <1>1, <1>4, <2>1, GivingUp DEF ReadingStates
<1> QED BY <1>2, <1>3, <1>4 DEF Outside

-----------------------------------------------------------------------------
(* Every step keeps the invariant.                                         *)
LEMMA StutterInvariant == ASSUME IInv, UNCHANGED vars PROVE IInv'
<1>1. UNCHANGED <<env, holder, element, width, source, base, missing, ret, buffer, data,
                  offset, idx, pc>>
  BY DEF vars, env, type
<1>2. UNCHANGED <<size, room, received, End>> /\ (Fits32' <=> Fits32) /\ SourceOK'
  BY <1>1, SameEnv, SameReceived DEF IInv
<1>3. RetOK' /\ BufferOK' /\ CursorsOK'
  BY <1>1, <1>2, SameRet, SameBuffer DEF IInv, BufferOK, CursorsOK
<1>4. Serializing' /\ Complete'
  <2>1. At(source, idx - 1)' = At(source, idx - 1)
    BY <1>1 DEF At, TableSize
  <2>2. ASSUME NEW n, HasPart(buffer, n) PROVE HasPart(buffer, n)'
    <3>1. HasPart(buffer', n)
      BY <1>1, <2>2
    <3> QED BY <1>1, <3>1, SamePart
  <2>3. Serializing'
    <3>1. CASE pc = "serialize"
      <4>1. /\ idx \in 1 .. Len(source) + 1 /\ (element = "basic" => idx = 1)
            /\ (element # "basic" => data = base + At(source, idx - 1))
            /\ idx = 1 \/ At(source, idx - 1) <= room
        BY <3>1 DEF IInv, Serializing
      <4>2. ASSUME room' = size', NEW n \in 1 .. idx' - 1 PROVE HasPart(buffer, n)'
        <5>1. HasPart(buffer, n)
          BY <1>1, <1>2, <3>1, <4>2 DEF IInv, Serializing
        <5> QED BY <2>2, <5>1
      <4> QED BY <1>1, <1>2, <2>1, <4>1, <4>2 DEF Serializing
    <3> QED BY <1>1, <3>1 DEF Serializing
  <2>4. Complete'
    <3>1. ASSUME pc' # "serialize", room' = size', NEW n \in 1 .. Len(source')
          PROVE  HasPart(buffer, n)'
      <4>1. HasPart(buffer, n)
        BY <1>1, <1>2, <3>1 DEF IInv, Complete
      <4> QED BY <2>2, <4>1
    <3> QED BY <1>1, <1>2, <3>1 DEF IInv, Complete
  <2> QED BY <2>3, <2>4
<1>5. Chunks' /\ Offsets' /\ NoFault'
  BY <1>1, <1>2 DEF IInv, Chunks, Offsets, NoFault, Back, At, TableSize
<1>6. Ends'
  BY <1>1, <1>2 DEF IInv, Ends, EndsFixed, EndsVariable, Back, At, TableSize, Slice
<1> QED BY <1>2, <1>3, <1>4, <1>5, <1>6 DEF IInv

LEMMA StepInvariant == ASSUME IInv, [Next]_vars PROVE IInv'
BY SerializeBasicInvariant, SerializeObjectInvariant, SerializeVariableInvariant,
   SerializedInvariant, DeserializeThrowsInvariant, DeserializeBasicInvariant,
   DeserializeObjectsInvariant, DeserializeChunkInvariant, ChunkThrowsInvariant,
   ChunkCompletedInvariant, ChunksDoneInvariant, NoSizeInvariant, DeserializeEmptyInvariant,
   DeserializeVariableInvariant, DeserializeElementInvariant, DeserializeLastInvariant,
   ElementFaultsInvariant, OutsideInvariant, StutterInvariant DEF Next, Terminating

(* The inductive invariant: serialize has written what it has come to, and *)
(* deserialize has what it has read.                                       *)
THEOREM Invariance == Spec => []IInv
<1>1. Init => IInv
  BY InitInvariant
<1>2. IInv /\ [Next]_vars => IInv'
  BY StepInvariant
<1> QED BY <1>1, <1>2, PTL DEF Spec

-----------------------------------------------------------------------------
(* What the invariant says of the checked properties.                      *)

(* ListCodec!TypeOK: every variable has its type, whatever the list, the   *)
(* buffer and the bytes lost, and data never passes the size of the list.  *)
THEOREM TypeCorrect == Spec => []TypeOK
<1>1. IInv => TypeOK
  BY DEF IInv, TypeOK, SourceOK, RetOK, BufferOK, IsBuffer, CursorsOK
<1> QED BY <1>1, Invariance, PTL

(* An encoding in 32 bits is a list whose size fits.                       *)
LEMMA FitsIsRepresentable ==
    ASSUME SourceOK
    PROVE  Representable <=> Fits32
<1>1. IsList(source) /\ size = At(source, Len(source))
  BY SizeIs
<1>2. Len(Encoding(source)) = size
  BY <1>1, EncodingIs DEF IsEncoding
<1> QED BY <1>2 DEF Representable, Fits32

(* The offsets in the buffer are those of the encoding.                    *)
LEMMA OffsetInBuffer ==
    ASSUME SourceOK, Fits32, element = "variable", NEW n \in 1 .. Len(source),
           HasPart(buffer, n)
    PROVE  Holds(buffer, base + (n - 1) * BYTES_PER_LENGTH_OFFSET, Word(At(source, n - 1)))
<1> DEFINE x == At(source, n - 1)
<1>1. x \in Nat /\ x <= size
  BY PlaceIs
<1>2. size \in Nat /\ size < UINT32_VALUES /\ UINT32_VALUES \in Nat
  BY SizeIs, ListAssumption DEF Fits32
<1> HIDE DEF x
<1>3. x < UINT32_VALUES
  BY <1>1, <1>2
<1>4. x % UINT32_VALUES = x
  BY <1>3, OffsetWordIs DEF x
<1> QED BY <1>4 DEF HasPart, x

(* When all parts are there, the room holds the encoding.                  *)
LEMMA RoomIsEncoding ==
    ASSUME SourceOK, BufferOK, Fits32, room = size,
           \A n \in 1 .. Len(source) : HasPart(buffer, n)
    PROVE  /\ Encoding(source) \in Seq(Byte) /\ Len(Encoding(source)) = size
           /\ \A p \in 1 .. size : buffer[base + p] = Encoding(source)[p]
<1>1. /\ base \in Nat /\ size \in Nat /\ room \in Nat /\ Len(source) \in Nat /\ IsList(source)
      /\ size = At(source, Len(source))
  BY SizeIs, RoomIs
<1>2. buffer \in Seq(Byte) /\ Len(buffer) = 2 * base + size
  BY DEF BufferOK, IsBuffer
<1> DEFINE code == SubSeq(buffer, base + 1, base + size)
<1>3. /\ code \in Seq(Byte) /\ Len(code) = size
      /\ \A p \in 1 .. size : code[p] = buffer[base + p]
  <2> DEFINE from == base + 1
             to == base + size
  <2>1. \A i \in from .. to : i \in 1 .. Len(buffer)
    BY <1>1, <1>2
  <2>2. \A i \in from .. to : buffer[i] \in Byte
    BY <1>2, <2>1
  <2>3. from \in Int /\ to \in Int
    BY <1>1
  <2>4. to - from + 1 = size
    BY <1>1
  <2>5. \A p \in 1 .. size : from + p - 1 = base + p
    BY <1>1
  <2>6. (IF from <= to THEN to - from + 1 ELSE 0) = size
    BY <1>1
  <2> DEFINE c == SubSeq(buffer, from, to)
  <2>7. /\ c \in Seq(Byte) /\ Len(c) = (IF from <= to THEN to - from + 1 ELSE 0)
        /\ \A i \in 1 .. to - from + 1 : c[i] = buffer[from + i - 1]
    <3> HIDE DEF from, to
    <3> QED BY <2>2, <2>3, SubSeqProperties
  <2> HIDE DEF c
  <2>8. c \in Seq(Byte) /\ Len(c) = size /\ \A p \in 1 .. size : c[p] = buffer[base + p]
    BY <2>4, <2>5, <2>6, <2>7
  <2> QED BY <2>8 DEF c
<1> HIDE DEF code
<1>4. HasElements(code, source)
  <2>1. ASSUME NEW n \in 1 .. Len(source), NEW j \in 1 .. Len(source[n])
        PROVE  code[At(source, n - 1) + j] = source[n][j]
    <3> DEFINE x == At(source, n - 1)
               y == At(source, n)
               s == Len(source[n])
    <3>1. x \in Nat /\ s \in Nat /\ y = x + s /\ y <= size
      BY PlaceIs
    <3>2. buffer[(base + x) + j] = source[n][j]
      BY DEF HasPart, Holds
    <3> HIDE DEF x, y, s
    <3>3. j \in 1 .. s
      BY DEF s
    <3>4. x + j \in 1 .. size /\ base + (x + j) = (base + x) + j
      BY <1>1, <3>1, <3>3
    <3>5. code[x + j] = source[n][j]
      BY <1>3, <3>2, <3>4
    <3> QED BY <3>5 DEF x
  <2> QED BY <2>1 DEF HasElements
<1>5. HasOffsets(code, source)
  <2>1. ASSUME element = "variable", NEW n \in 1 .. Len(source),
               NEW j \in 1 .. BYTES_PER_LENGTH_OFFSET
        PROVE  code[(n - 1) * BYTES_PER_LENGTH_OFFSET + j] = Word(At(source, n - 1))[j]
    <3> DEFINE B == BYTES_PER_LENGTH_OFFSET
               o == (n - 1) * B
               e == n * B
               T == TableSize(source)
    <3>1. o \in Nat /\ e \in Nat /\ o + B = e /\ e <= T /\ T \in Nat /\ T <= size /\ B \in Nat
      BY <1>1, <2>1, TablePlaceIs, AtEnds
    <3>2. Holds(buffer, base + o, Word(At(source, n - 1)))
      BY <2>1, OffsetInBuffer
    <3>3. Len(Word(At(source, n - 1))) = B
      BY PlaceIs, WordIsSeq
    <3>4. buffer[(base + o) + j] = Word(At(source, n - 1))[j]
      BY <3>2, <3>3 DEF Holds
    <3> HIDE DEF o, e, T
    <3>5. o + j \in 1 .. size /\ base + (o + j) = (base + o) + j
      BY <1>1, <3>1
    <3>6. code[o + j] = Word(At(source, n - 1))[j]
      BY <1>3, <3>4, <3>5
    <3> QED BY <3>6 DEF o
  <2> QED BY <2>1 DEF HasOffsets
<1>6. IsEncoding(code, source)
  BY <1>1, <1>3, <1>4, <1>5 DEF IsEncoding
<1>7. code = Encoding(source)
  BY <1>1, <1>6, OnlyEncoding
<1> QED BY <1>3, <1>7

(* ListCodec!LayoutExact: what serialize leaves is the encoding, of the    *)
(* announced size, and not one byte before or after it is touched.         *)
THEOREM SerializesExactly == Spec => []LayoutExact
<1>1. ASSUME IInv PROVE LayoutExact
  <2> SUFFICES ASSUME Representable, pc # "serialize"
               PROVE  /\ room = size
                      /\ buffer = Filled(base, Stale) \o Encoding(source) \o Filled(base, Stale)
    BY DEF LayoutExact
  <2>1. SourceOK /\ BufferOK /\ Complete
    BY <1>1 DEF IInv
  <2>2. Fits32 /\ room = size /\ base \in Nat /\ size \in Nat
    BY <2>1, FitsIsRepresentable, RoomIs, SizeIs
  <2>3. \A n \in 1 .. Len(source) : HasPart(buffer, n)
    BY <2>1, <2>2 DEF Complete
  <2> DEFINE code == Encoding(source)
             b == Filled(base, Stale) \o code \o Filled(base, Stale)
  <2>4. /\ code \in Seq(Byte) /\ Len(code) = size
        /\ \A p \in 1 .. size : buffer[base + p] = code[p]
    BY <2>1, <2>2, <2>3, RoomIsEncoding
  <2> HIDE DEF code
  <2>5. IsBetween(b, base, code)
    BY DEF IsBetween
  <2> HIDE DEF b
  <2>6. /\ b \in Seq(Byte) /\ Len(b) = 2 * base + size
        /\ \A p \in 1 .. Len(b) : p <= base \/ p > base + size => b[p] = Stale
        /\ \A p \in 1 .. size : b[base + p] = code[p]
    <3>1. /\ b \in Seq(Byte) /\ Len(b) = 2 * base + Len(code)
          /\ \A p \in 1 .. Len(b) : p <= base \/ p > base + Len(code) => b[p] = Stale
          /\ \A p \in 1 .. Len(code) : b[base + p] = code[p]
      <4>1. base \in Nat /\ code \in Seq(Byte)
        BY <2>2, <2>4
      <4> QED BY <4>1, <2>5, Between
    <3>2. Len(code) = size
      BY <2>4
    <3> QED BY <3>1, <3>2, Zenon
  <2>7. /\ buffer \in Seq(Byte) /\ Len(buffer) = 2 * base + size
        /\ \A p \in 1 .. Len(buffer) : p <= base \/ p > base + size => buffer[p] = Stale
    BY <2>1, <2>2 DEF BufferOK, IsBuffer
  <2>8. ASSUME NEW p \in 1 .. 2 * base + size PROVE buffer[p] = b[p]
    <3>1. CASE p <= base \/ p > base + size
      BY <2>6, <2>7, <3>1
    <3>2. CASE ~(p <= base \/ p > base + size)
      <4> DEFINE q == p - base
      <4>1. q \in 1 .. size /\ base + q = p
        BY <2>2, <3>2
      <4> HIDE DEF q
      <4> QED BY <2>4, <2>6, <4>1
    <3> QED BY <3>1, <3>2
  <2>9. buffer = b
    BY <2>6, <2>7, <2>8, SeqEqual
  <2> QED BY <2>2, <2>9 DEF b, code
<1> QED BY <1>1, Invariance, PTL

(* What was read of fixed-size elements is the encoding of their list,     *)
(* unless an array was not filled.                                         *)
LEMMA FixedBytes ==
    ASSUME IInv, pc = "done", element \in {"basic", "object"},
           ~(holder = "array" /\ element = "object")
    PROVE  /\ Encoding(ret) \in Seq(Byte) /\ Len(Encoding(ret)) = End
           /\ \A p \in 1 .. End : received[p] = Encoding(ret)[p]
<1>1. PICK g \in 0 .. Len(ret) : /\ g * width = End /\ g <= Len(source) /\ Back(g)
                                 /\ g = Len(ret)
  BY DEF IInv, Ends, EndsFixed
<1>2. /\ SourceOK /\ BufferOK /\ RetOK /\ IsList(ret) /\ Len(ret) \in Nat
      /\ Len(source) \in Nat /\ width \in Nat \ {0} /\ End \in Nat /\ base \in Nat
      /\ \A n \in 1 .. Len(source) : HasPart(buffer, n)
  BY Reading
<1>3. g \in Nat /\ g <= Len(ret)
  BY <1>2
<1>4. ASSUME NEW n \in 1 .. g PROVE ret[n] = source[n] /\ Len(source[n]) = width
                                    /\ n \in 1 .. Len(source)
  <2>1. n \in 1 .. Len(source)
    BY <1>1, <1>2, <1>3
  <2> QED BY <1>1, <1>2, <2>1 DEF Back, SourceOK
<1>5. \A n \in 1 .. Len(ret) : Len(ret[n]) = width
  <2>1. CASE holder = "array"
    BY <1>2, <2>1 DEF RetOK
  <2>2. CASE holder # "array"
    BY <1>1, <1>4, <2>2
  <2> QED BY <2>1, <2>2
<1>6. \A n \in 0 .. Len(ret) : Before(ret)[n] = n * width
  BY <1>2, <1>5, BeforeUniform
<1>7. TableSize(ret) = 0
  BY DEF TableSize
<1> DEFINE code == Encoding(ret)
<1>8. IsEncoding(code, ret)
  BY <1>2, EncodingIs
<1> HIDE DEF code
<1>9. \A n \in 0 .. Len(ret) : At(ret, n) = n * width
  <2> SUFFICES ASSUME NEW n \in 0 .. Len(ret) PROVE At(ret, n) = n * width
    OBVIOUS
  <2>1. n * width \in Nat
    <3>1. n \in Nat
      BY <1>2
    <3> QED BY <1>2, <3>1, TimesNext
  <2> QED BY <1>6, <1>7, <2>1 DEF At
<1>10. code \in Seq(Byte) /\ Len(code) = Len(ret) * width
  <2>1. Len(ret) \in 0 .. Len(ret)
    BY <1>2
  <2> QED BY <1>8, <1>9, <2>1 DEF IsEncoding
<1>11. End <= Len(ret) * width /\ Len(ret) * width \in Nat
  BY <1>1, <1>2, <1>3, TimesGrows
<1>12. ASSUME NEW p \in 1 .. End PROVE received[p] = code[p]
  <2> DEFINE l == Len(ret)
             c == Before(ret)
  <2>1. l \in Nat /\ ret \in [1 .. l -> Seq(Byte)] /\ Sums!AreLengths(c, ret, l)
    BY <1>2, BeforeExists
  <2>2. p \in 1 .. c[l]
    <3>1. l \in 0 .. l
      BY <2>1
    <3>2. c[l] = l * width
      BY <1>6, <3>1
    <3> HIDE DEF c
    <3>3. End <= c[l] /\ c[l] \in Nat
      BY <1>11, <3>2
    <3> HIDE DEF l
    <3> QED BY <1>2, <3>3
  <2>3. Sums!IsAPosition(p, ret, c, l)
    <3> HIDE DEF c, l
    <3> QED BY <2>1, <2>2, Sums!EveryPosition
  <2>4. PICK n \in 1 .. l : \E j \in 1 .. Len(ret[n]) : p = c[n - 1] + j
    BY <2>3 DEF Sums!IsAPosition
  <2>5. PICK j \in 1 .. Len(ret[n]) : p = c[n - 1] + j
    BY <2>4
  <2>6. n - 1 \in 0 .. l /\ n - 1 \in Nat /\ n \in Nat
    BY <2>1
  <2>7. c[n - 1] = (n - 1) * width /\ At(ret, n - 1) = (n - 1) * width
    BY <1>6, <1>9, <2>6
  <2>8. n \in 1 .. g
    <3> SUFFICES ASSUME g <= n - 1 PROVE FALSE
      BY <1>3, <2>6
    <3>1. g * width <= (n - 1) * width /\ (n - 1) * width \in Nat
      BY <1>2, <1>3, <2>6, TimesGrows
    <3> DEFINE m == (n - 1) * width
    <3>2. End <= m /\ m \in Nat /\ p = m + j /\ j \in Nat /\ j > 0
      <4>1. j \in Nat /\ j > 0
        BY <1>5
      <4> QED BY <1>1, <2>5, <2>7, <3>1, <4>1
    <3> HIDE DEF m
    <3> QED BY <1>2, <3>2
  <2>9. ret[n] = source[n] /\ n \in 1 .. Len(source) /\ Len(source[n]) = width
    BY <1>4, <2>8
  <2>10. code[p] = source[n][j]
    <3>1. code[At(ret, n - 1) + j] = ret[n][j]
      BY <1>8 DEF IsEncoding, HasElements
    <3> QED BY <2>5, <2>7, <2>9, <3>1
  <2>11. buffer[base + p] = source[n][j]
    <3>1. n - 1 \in 0 .. Len(source)
      BY <1>2, <2>9
    <3>2. At(source, n - 1) = (n - 1) * width /\ (n - 1) * width \in Nat
      BY <1>2, <3>1, AtUniform
    <3>3. buffer[base + At(source, n - 1) + j] = source[n][j]
      BY <1>2, <2>9 DEF HasPart, Holds
    <3> DEFINE m == (n - 1) * width
    <3>4. m \in Nat /\ p = m + j /\ j \in Nat /\ buffer[base + m + j] = source[n][j]
      <4>1. j \in Nat
        BY <1>5
      <4> QED BY <2>5, <2>7, <3>2, <3>3, <4>1
    <3> HIDE DEF m
    <3>5. base + m + j = base + p
      BY <1>2, <3>4
    <3> QED BY <3>4, <3>5
  <2>12. received[p] = buffer[base + p]
    BY <1>2, ReceivedIs
  <2> QED BY <2>10, <2>11, <2>12
<1> QED BY <1>1, <1>10, <1>11, <1>12 DEF code

(* ListCodec!ArrivedIntact: whatever bytes were lost, what deserialize     *)
(* accepts has the elements that arrived in full where they were.          *)
THEOREM KeepsWhatArrived == Spec => []ArrivedIntact
<1>1. ASSUME IInv PROVE ArrivedIntact
  <2> SUFFICES ASSUME Representable, pc = "done"
               PROVE  /\ \A n \in DOMAIN source :
                            Arrived(n) => n \in DOMAIN ret /\ ret[n] = source[n]
                      /\ \/ holder = "array" /\ element = "object"
                         \/ element = "variable" /\ (End > 0 => Len(ret) = Len(source))
                         \/ element # "variable" /\ received = Encoding(ret)
    BY DEF ArrivedIntact
  <2>1. /\ SourceOK /\ BufferOK /\ RetOK /\ Fits32 /\ IsList(source) /\ IsList(ret)
        /\ Len(source) \in Nat /\ Len(ret) \in Nat /\ End \in Nat /\ width \in Nat \ {0}
        /\ DOMAIN source = 1 .. Len(source) /\ DOMAIN ret = 1 .. Len(ret)
    BY <1>1, FitsIsRepresentable, Reading, BeforeExists
  <2>2. element \in {"basic", "object", "variable"}
    BY <1>1, <2>1 DEF IInv, Ends, SourceOK
  <2>3. ASSUME NEW n \in 1 .. Len(source), Arrived(n)
        PROVE  n \in 1 .. Len(ret) /\ ret[n] = source[n]
    <3>1. n \in 0 .. Len(source) /\ n \in Nat /\ n > 0
      BY <2>1
    <3>2. At(source, n) <= End
      <4>1. Len(FlattenSeq(SubSeq(source, 1, n))) = Before(source)[n]
        BY <2>1, <3>1, FirstElements
      <4> QED BY <2>3, <4>1 DEF Arrived, At, TableSize
    <3>3. CASE element # "variable"
      <4>1. PICK g \in 0 .. Len(ret) : Back(g) /\ End < (g + 1) * width
        BY <1>1, <2>2, <3>3 DEF IInv, Ends, EndsFixed
      <4>2. At(source, n) = n * width /\ n * width \in Nat
        BY <2>1, <3>1, <3>3, AtUniform
      <4>3. g \in Nat /\ g + 1 \in Nat /\ (g + 1) * width \in Nat
        <5>1. g \in Nat /\ g + 1 \in Nat
          BY <2>1
        <5> QED BY <2>1, <5>1, TimesNext
      <4>4. n * width < (g + 1) * width
        BY <2>1, <3>2, <4>1, <4>2, <4>3
      <4>5. n < g + 1
        BY <2>1, <3>1, <4>3, <4>4, Below
      <4>6. n \in 1 .. g /\ n \in 1 .. Len(ret)
        BY <2>1, <3>1, <4>3, <4>5
      <4> QED BY <4>1, <4>6 DEF Back
    <3>4. CASE element = "variable"
      <4>1. EndsVariable
        BY <1>1, <2>1, <3>4 DEF IInv, Ends
      <4>2. ret # <<>>
        <5> SUFFICES ASSUME ret = <<>> PROVE FALSE
          OBVIOUS
        <5>1. End = 0
          BY <4>1 DEF EndsVariable
        <5>2. /\ n * BYTES_PER_LENGTH_OFFSET <= TableSize(source)
              /\ n * BYTES_PER_LENGTH_OFFSET \in Nat
              /\ TableSize(source) \in Nat /\ At(source, n) \in Nat
              /\ TableSize(source) <= At(source, n)
          BY <2>1, <3>4, TablePlaceIs, PlaceIs
        <5>3. 1 * BYTES_PER_LENGTH_OFFSET <= n * BYTES_PER_LENGTH_OFFSET
          BY <3>1, ListAssumption, TimesGrows
        <5>4. 1 * BYTES_PER_LENGTH_OFFSET \in Nat \ {0}
          BY ListAssumption
        <5> DEFINE x == n * BYTES_PER_LENGTH_OFFSET
                   y == 1 * BYTES_PER_LENGTH_OFFSET
        <5> HIDE DEF x, y
        <5>5. x <= TableSize(source) /\ y <= x /\ y > 0 /\ x \in Nat /\ y \in Nat
          BY <5>2, <5>3, <5>4 DEF x, y
        <5> QED BY <3>2, <5>1, <5>2, <5>5
      <4>3. /\ Len(ret) = Len(source) /\ Back(Len(ret) - 1)
            /\ At(source, Len(ret)) <= End => Back(Len(ret))
        BY <4>1, <4>2 DEF EndsVariable
      <4>4. CASE n = Len(ret)
        BY <2>3, <3>2, <4>3, <4>4 DEF Back
      <4>5. CASE n # Len(ret)
        <5>1. Len(ret) = Len(source) /\ Len(ret) \in Nat /\ n # Len(ret)
          BY <2>1, <4>3, <4>5
        <5>2. n \in 1 .. Len(ret)
          BY <2>3, <5>1
        <5>3. n \in 1 .. Len(ret) - 1
          BY <5>1, <5>2
        <5> QED BY <4>3, <5>2, <5>3 DEF Back
      <4> QED BY <4>4, <4>5
    <3> QED BY <3>3, <3>4
  <2>4. CASE element = "variable"
    <3>1. ASSUME End > 0 PROVE Len(ret) = Len(source)
      <4>1. EndsVariable
        BY <1>1, <2>1, <2>4 DEF IInv, Ends
      <4>2. End # 0
        BY <3>1
      <4> QED BY <4>1, <4>2 DEF EndsVariable
    <3> QED BY <2>1, <2>3, <2>4, <3>1
  <2>5. CASE element \in {"basic", "object"} /\ ~(holder = "array" /\ element = "object")
    <3> DEFINE code == Encoding(ret)
    <3>1. /\ code \in Seq(Byte) /\ Len(code) = End
          /\ \A p \in 1 .. End : received[p] = code[p]
      BY <1>1, <2>5, FixedBytes
    <3>2. received \in Seq(Byte) /\ Len(received) = End
      BY <2>1, ReceivedIs DEF End
    <3> HIDE DEF code, End, received
    <3>3. received = code
      BY <3>1, <3>2, SeqEqual
    <3> QED BY <2>1, <2>3, <2>5, <3>3 DEF code
  <2>6. CASE holder = "array" /\ element = "object"
    BY <2>1, <2>3, <2>6
  <2> QED BY <2>2, <2>4, <2>5, <2>6
<1> QED BY <1>1, Invariance, PTL

(* ListCodec!RoundTrip: deserializing all the bytes of a list that fits    *)
(* gives the list back, whatever it held before, without an exception or   *)
(* an access outside the buffer.                                           *)
THEOREM ComesBack == Spec => []RoundTrip
<1>1. ASSUME IInv PROVE RoundTrip
  <2> SUFFICES ASSUME Representable, missing = 0, element # "vector"
               PROVE  /\ pc \notin {"threw", "undefined"}
                      /\ pc = "done" => ret = source
    BY DEF RoundTrip
  <2>1. SourceOK /\ Fits32
    BY <1>1, FitsIsRepresentable DEF IInv
  <2>2. pc \notin {"threw", "undefined"}
    BY <1>1, <2>1 DEF IInv, NoFault
  <2>3. ASSUME pc = "done" PROVE ret = source
    <3> DEFINE c == Len(ret)
               l == Len(source)
    <3>1. /\ c \in Nat /\ l \in Nat /\ size \in Nat /\ size = At(source, l)
          /\ width \in Nat \ {0} /\ End = size - missing /\ IsList(ret) /\ IsList(source)
          /\ RetOK
      BY <1>1, <2>3, Reading
    <3>2. End = size
      BY <3>1
    <3>3. SUFFICES c = l /\ \A n \in 1 .. c : ret[n] = source[n]
      <4>1. ret \in Seq(Seq(Byte)) /\ source \in Seq(Seq(Byte))
        BY <3>1 DEF IsList
      <4> QED BY <3>3, <4>1, SeqEqual
    <3>4. CASE element # "variable"
      <4>1. PICK g \in 0 .. c : /\ g <= l /\ Back(g) /\ End < (g + 1) * width
                                /\ (holder = "array" /\ element = "object") \/ g = c
        BY <1>1, <2>1, <2>3, <3>4 DEF IInv, Ends, EndsFixed, SourceOK
      <4>2. g \in Nat /\ g <= c
        BY <3>1
      <4>3. l * width < (g + 1) * width
        BY <2>1, <3>2, <3>4, <4>1, FixedSize
      <4>4. g = l
        <5>1. g + 1 \in Nat
          BY <4>2
        <5>2. l < g + 1
          BY <3>1, <4>3, <5>1, Below
        <5> QED BY <3>1, <4>1, <4>2, <5>2
      <4>5. c = l
        BY <3>1, <4>1, <4>4 DEF RetOK
      <4> QED BY <4>1, <4>4, <4>5 DEF Back
    <3>5. CASE element = "variable" /\ ret = <<>>
      <4>1. size = 0 /\ c = 0
        BY <1>1, <2>1, <2>3, <3>2, <3>5 DEF IInv, Ends, EndsVariable
      <4>2. l = 0
        <5> SUFFICES ASSUME l # 0 PROVE FALSE
          OBVIOUS
        <5> DEFINE B == BYTES_PER_LENGTH_OFFSET
        <5>1. 1 \in 1 .. l /\ 1 * B = B /\ B \in Nat \ {0}
          BY <3>1, ListAssumption
        <5>2. 1 * B <= TableSize(source)
          BY <2>1, <3>5, <5>1, TablePlaceIs
        <5>3. TableSize(source) <= size /\ TableSize(source) \in Nat
          BY <3>1, AtEnds
        <5> HIDE DEF B
        <5> QED BY <4>1, <5>1, <5>2, <5>3
      <4> QED BY <4>1, <4>2
    <3>6. CASE element = "variable" /\ ret # <<>>
      <4>1. c = l /\ (At(source, c) <= End => Back(c))
        BY <1>1, <2>1, <2>3, <3>6 DEF IInv, Ends, EndsVariable
      <4>2. At(source, c) <= End
        BY <3>1, <3>2, <4>1
      <4> QED BY <4>1, <4>2 DEF Back
    <3> QED BY <3>4, <3>5, <3>6
  <2> QED BY <2>2, <2>3
<1> QED BY <1>1, Invariance, PTL
=============================================================================
