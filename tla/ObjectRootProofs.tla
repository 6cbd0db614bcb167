-------------------------- MODULE ObjectRootProofs --------------------------
(***************************************************************************)
(* The safety of ObjectRoot, for every object, however deeply nested,      *)
(* every number of cpus and every failure.                                 *)
(***************************************************************************)
EXTENDS ObjectRoot, SequenceTheorems, FiniteSetTheorems, TLAPS

(* The arithmetic of trees, whatever their leaves.                         *)
NoChunk(lo, end) == ZeroChunk
Pure == INSTANCE MerkleProofs WITH Chunk <- NoChunk

(* The recursion of RootsOf.                                               *)
NextRoots(n, below) == AllRoots(object, below)

Levels == INSTANCE NatRecursion WITH Base <- <<>>, Succ <- NextRoots

(* The first n steps of a path.                                            *)
Upper(p, n) == SubSeq(p, 1, n)

-----------------------------------------------------------------------------
(* Paths.                                                                  *)

(* A path is a sequence of numbers.                                        *)
LEMMA PathType ==
    ASSUME NEW o, NEW p \in Paths(o)
    PROVE  p \in Seq(Nat) /\ Len(p) \in 0 .. MaxDepth
<1>1. PICK m \in 0 .. MaxDepth : p \in [1 .. m -> 1 .. MaxWidth]
  BY DEF Paths, SeqOf
<1>2. MaxDepth \in Nat /\ MaxWidth \in Nat /\ m \in Nat
  BY <1>1, ObjectAssumption
<1>3. p \in [1 .. m -> Nat]
  BY <1>1, <1>2
<1> QED BY <1>2, <1>3

(* What the definition of a path says of each of its steps.                *)
LEMMA PathSteps ==
    ASSUME NEW o, NEW p \in Paths(o), NEW n \in 1 .. Len(p)
    PROVE  /\ Composite(Part(o, Upper(p, n - 1)))
           /\ p[n] \in DOMAIN Part(o, Upper(p, n - 1)).elems
<1>1. DOMAIN p = 1 .. Len(p)
  BY PathType, LenProperties
<1> QED BY <1>1 DEF Paths, Upper

(* Whoever has those steps, within the bounds, is a path.                  *)
LEMMA IsAPath ==
    ASSUME NEW o, NEW p \in Seq(1 .. MaxWidth), Len(p) <= MaxDepth,
           \A n \in 1 .. Len(p) :
              /\ Composite(Part(o, Upper(p, n - 1)))
              /\ p[n] \in DOMAIN Part(o, Upper(p, n - 1)).elems
    PROVE  p \in Paths(o)
<1>1. /\ Len(p) \in Nat /\ DOMAIN p = 1 .. Len(p)
      /\ p \in [1 .. Len(p) -> 1 .. MaxWidth]
  BY LenProperties
<1>2. Len(p) \in 0 .. MaxDepth
  BY <1>1, ObjectAssumption
<1>3. p \in SeqOf(1 .. MaxWidth, MaxDepth)
  BY <1>1, <1>2 DEF SeqOf
<1> QED BY <1>1, <1>3 DEF Paths, Upper

(* Its steps are within the width of what has parts.                       *)
LEMMA PathWidth ==
    ASSUME NEW o, NEW p \in Paths(o)
    PROVE  p \in Seq(1 .. MaxWidth)
<1>1. PICK m \in 0 .. MaxDepth : p \in [1 .. m -> 1 .. MaxWidth]
  BY DEF Paths, SeqOf
<1> QED BY <1>1, ObjectAssumption

(* The object itself.                                                      *)
LEMMA EmptyPath == \A o : <<>> \in Paths(o)
<1> SUFFICES ASSUME NEW o PROVE <<>> \in Paths(o)
  OBVIOUS
<1> DEFINE e == <<>>
<1>1. e \in Seq(1 .. MaxWidth) /\ Len(e) = 0 /\ 0 <= MaxDepth
  BY EmptySeq, ObjectAssumption
<1> HIDE DEF e
<1>2. \A n \in 1 .. Len(e) :
        /\ Composite(Part(o, Upper(e, n - 1)))
        /\ e[n] \in DOMAIN Part(o, Upper(e, n - 1)).elems
  BY <1>1
<1>3. e \in Paths(o)
  BY <1>1, <1>2, IsAPath
<1> QED BY <1>3 DEF e

(* The first steps of the first steps.                                     *)
LEMMA UpperType ==
    ASSUME NEW S, NEW p \in Seq(S), NEW n \in 0 .. Len(p)
    PROVE  /\ Upper(p, n) \in Seq(S) /\ Len(Upper(p, n)) = n
           /\ \A i \in 1 .. n : Upper(p, n)[i] = p[i]
<1>1. Len(p) \in Nat /\ n \in Int /\ 1 \in Int
  BY LenProperties
<1>2. \A i \in 1 .. n : p[i] \in S
  BY <1>1, ElementOfSeq
<1>3. /\ SubSeq(p, 1, n) \in Seq(S)
      /\ Len(SubSeq(p, 1, n)) = IF 1 <= n THEN n - 1 + 1 ELSE 0
      /\ \A i \in 1 .. n - 1 + 1 : SubSeq(p, 1, n)[i] = p[1 + i - 1]
  BY <1>1, <1>2, SubSeqProperties
<1> QED BY <1>1, <1>3 DEF Upper

(* Those of more steps are those of all of them.                           *)
LEMMA UpperUpper ==
    ASSUME NEW S, NEW p \in Seq(S), NEW n \in 0 .. Len(p), NEW m \in 0 .. n
    PROVE  Upper(Upper(p, n), m) = Upper(p, m)
<1>1. Len(p) \in Nat
  BY LenProperties
<1>2. m \in 0 .. Len(p)
  BY <1>1
<1>3. /\ Upper(p, n) \in Seq(S) /\ Len(Upper(p, n)) = n
      /\ \A i \in 1 .. n : Upper(p, n)[i] = p[i]
  BY UpperType
<1>4. /\ Upper(p, m) \in Seq(S) /\ Len(Upper(p, m)) = m
      /\ \A i \in 1 .. m : Upper(p, m)[i] = p[i]
  BY <1>2, UpperType
<1>5. /\ Upper(Upper(p, n), m) \in Seq(S) /\ Len(Upper(Upper(p, n), m)) = m
      /\ \A i \in 1 .. m : Upper(Upper(p, n), m)[i] = Upper(p, n)[i]
  <2> DEFINE u == Upper(p, n)
  <2>1. u \in Seq(S) /\ m \in 0 .. Len(u)
    BY <1>3
  <2> HIDE DEF u
  <2>2. /\ Upper(u, m) \in Seq(S) /\ Len(Upper(u, m)) = m
        /\ \A i \in 1 .. m : Upper(u, m)[i] = u[i]
    BY <2>1, UpperType
  <2> QED BY <2>2 DEF u
<1>6. \A i \in 1 .. m : Upper(Upper(p, n), m)[i] = Upper(p, m)[i]
  BY <1>1, <1>3, <1>4, <1>5
<1> QED BY <1>4, <1>5, <1>6, SeqEqual

(* All of the steps, and none.                                             *)
LEMMA UpperAll ==
    ASSUME NEW S, NEW p \in Seq(S)
    PROVE  Upper(p, Len(p)) = p /\ Upper(p, 0) = <<>>
<1>1. Len(p) \in Nat /\ Len(p) \in 0 .. Len(p)
  BY LenProperties
<1>2. Upper(p, Len(p)) = p
  <2>1. /\ Upper(p, Len(p)) \in Seq(S) /\ Len(Upper(p, Len(p))) = Len(p)
        /\ \A i \in 1 .. Len(p) : Upper(p, Len(p))[i] = p[i]
    BY <1>1, UpperType
  <2> QED BY <2>1, SeqEqual
<1>3. Upper(p, 0) = <<>>
  BY SubSeqEmpty DEF Upper
<1> QED BY <1>2, <1>3

(* The first steps of a path are a path.                                   *)
LEMMA UpperPath ==
    ASSUME NEW o, NEW p \in Paths(o), NEW n \in 0 .. Len(p)
    PROVE  Upper(p, n) \in Paths(o)
<1>1. p \in Seq(1 .. MaxWidth) /\ Len(p) \in 0 .. MaxDepth
  BY PathType, PathWidth
<1>2. /\ Upper(p, n) \in Seq(1 .. MaxWidth) /\ Len(Upper(p, n)) = n
      /\ \A i \in 1 .. n : Upper(p, n)[i] = p[i]
  BY <1>1, UpperType
<1>3. ASSUME NEW i \in 1 .. n
      PROVE  /\ Composite(Part(o, Upper(Upper(p, n), i - 1)))
             /\ Upper(p, n)[i] \in DOMAIN Part(o, Upper(Upper(p, n), i - 1)).elems
  <2>1. i \in 1 .. Len(p) /\ i - 1 \in 0 .. n
    BY <1>1
  <2>2. Upper(Upper(p, n), i - 1) = Upper(p, i - 1)
    BY <1>1, <2>1, UpperUpper
  <2>3. Upper(p, n)[i] = p[i]
    BY <1>2
  <2> QED BY <2>1, <2>2, <2>3, PathSteps
<1>4. n <= MaxDepth
  BY <1>1, ObjectAssumption
<1> QED BY <1>2, <1>3, <1>4, IsAPath

(* A part that is not the object is a part of the one above it.            *)
LEMMA Above ==
    ASSUME NEW o, NEW q \in Paths(o), q # <<>>
    PROVE  /\ Front(q) \in Paths(o) /\ Composite(Part(o, Front(q)))
           /\ Last(q) \in DOMAIN Part(o, Front(q)).elems
           /\ q = Append(Front(q), Last(q))
           /\ Len(q) \in Nat \ {0} /\ Len(Front(q)) = Len(q) - 1
           /\ Front(q) = Upper(q, Len(q) - 1)
<1>1. q \in Seq(Nat)
  BY PathType
<1>2. Len(q) \in Nat \ {0}
  BY <1>1, EmptySeq
<1>3. Front(q) = Upper(q, Len(q) - 1) /\ Last(q) = q[Len(q)]
  BY DEF Front, Last, Upper
<1>4. Len(q) - 1 \in 0 .. Len(q) /\ Len(q) \in 1 .. Len(q)
  BY <1>2
<1>5. Front(q) \in Paths(o)
  BY <1>3, <1>4, UpperPath
<1>6. Composite(Part(o, Front(q))) /\ Last(q) \in DOMAIN Part(o, Front(q)).elems
  BY <1>3, <1>4, PathSteps
<1>7. /\ Front(q) \in Seq(Nat) /\ Len(Front(q)) = Len(q) - 1
      /\ \A i \in 1 .. Len(q) - 1 : Front(q)[i] = q[i]
  BY <1>1, <1>3, <1>4, UpperType
<1>8. q = Append(Front(q), Last(q))
  <2>1. q[Len(q)] \in Nat
    BY <1>1, <1>4, ElementOfSeq
  <2> DEFINE f == Front(q)
             l == Last(q)
  <2>2. f \in Seq(Nat) /\ l \in Nat
    BY <1>3, <1>7, <2>1
  <2> HIDE DEF f, l
  <2>3. /\ Append(f, l) \in Seq(Nat) /\ Len(Append(f, l)) = Len(f) + 1
        /\ \A i \in 1 .. Len(f) : Append(f, l)[i] = f[i]
        /\ Append(f, l)[Len(f) + 1] = l
    BY <2>2, AppendProperties
  <2>4. \A i \in 1 .. Len(q) : Append(f, l)[i] = q[i]
    BY <1>2, <1>3, <1>7, <2>3 DEF f, l
  <2>5. Len(Append(f, l)) = Len(q)
    BY <1>2, <1>7, <2>3 DEF f
  <2>6. Append(f, l) = q
    BY <1>1, <2>3, <2>4, <2>5, SeqEqual
  <2> QED BY <2>6 DEF f, l
<1> QED BY <1>2, <1>3, <1>5, <1>6, <1>7, <1>8

(* What is assumed of the parts of an object.                              *)
LEMMA PartTyped ==
    ASSUME NEW o \in Objects, NEW p \in Paths(o)
    PROVE  /\ OfItsType(Part(o, p))
           /\ Composite(Part(o, p)) =>
                /\ Len(p) < MaxDepth
                /\ Len(Part(o, p).elems) \in Nat
                /\ Len(Part(o, p).elems) <= MaxWidth
                /\ DOMAIN Part(o, p).elems = 1 .. Len(Part(o, p).elems)
<1>1. /\ OfItsType(Part(o, p))
      /\ Composite(Part(o, p)) => Len(p) < MaxDepth
  BY ObjectAssumption
<1>2. ASSUME Composite(Part(o, p))
      PROVE  /\ Len(Part(o, p).elems) \in Nat
             /\ Len(Part(o, p).elems) <= MaxWidth
             /\ DOMAIN Part(o, p).elems = 1 .. Len(Part(o, p).elems)
  <2> DEFINE elems == Part(o, p).elems
  <2>1. elems \in Seq(Range(elems)) /\ Len(elems) <= MaxWidth
    BY <1>1, <1>2 DEF OfItsType
  <2> HIDE DEF elems
  <2>2. Len(elems) \in Nat /\ DOMAIN elems = 1 .. Len(elems)
    BY <2>1, LenProperties
  <2> QED BY <2>1, <2>2 DEF elems
<1> QED BY <1>1, <1>2

(* The paths of the parts of a part.                                       *)
LEMMA Below ==
    ASSUME NEW o \in Objects, NEW p \in Paths(o), Composite(Part(o, p)),
           NEW c \in DOMAIN Part(o, p).elems
    PROVE  /\ Append(p, c) \in Paths(o) /\ Append(p, c) # <<>>
           /\ Front(Append(p, c)) = p /\ Last(Append(p, c)) = c
           /\ Len(Append(p, c)) = Len(p) + 1
<1>1. p \in Seq(1 .. MaxWidth) /\ Len(p) \in 0 .. MaxDepth /\ MaxDepth \in Nat
  BY PathWidth, PathType, ObjectAssumption
<1>2. Len(p) < MaxDepth /\ c \in 1 .. MaxWidth
  BY PartTyped, ObjectAssumption
<1> DEFINE q == Append(p, c)
<1>3. /\ q \in Seq(1 .. MaxWidth) /\ q # <<>> /\ Len(q) = Len(p) + 1
      /\ \A i \in 1 .. Len(p) : q[i] = p[i]
      /\ q[Len(p) + 1] = c
  BY <1>1, <1>2, AppendProperties
<1> HIDE DEF q
<1>4. Len(p) \in 0 .. Len(q) /\ Len(q) - 1 = Len(p)
  BY <1>1, <1>3
<1>5. Upper(q, Len(p)) = p
  <2>1. /\ Upper(q, Len(p)) \in Seq(1 .. MaxWidth) /\ Len(Upper(q, Len(p))) = Len(p)
        /\ \A i \in 1 .. Len(p) : Upper(q, Len(p))[i] = q[i]
    BY <1>3, <1>4, UpperType
  <2>2. \A i \in 1 .. Len(p) : Upper(q, Len(p))[i] = p[i]
    BY <1>3, <2>1
  <2> QED BY <1>1, <2>1, <2>2, SeqEqual
<1>6. ASSUME NEW n \in 1 .. Len(q)
      PROVE  /\ Composite(Part(o, Upper(q, n - 1)))
             /\ q[n] \in DOMAIN Part(o, Upper(q, n - 1)).elems
  <2>1. CASE n = Len(q)
    BY <1>3, <1>4, <1>5, <2>1
  <2>2. CASE n # Len(q)
    <3>1. n \in 1 .. Len(p) /\ n - 1 \in 0 .. Len(p)
      BY <1>1, <1>4, <2>2
    <3>2. Upper(Upper(q, Len(p)), n - 1) = Upper(q, n - 1)
      BY <1>3, <1>4, <3>1, UpperUpper
    <3>3. /\ Composite(Part(o, Upper(p, n - 1)))
          /\ p[n] \in DOMAIN Part(o, Upper(p, n - 1)).elems
      BY <3>1, PathSteps
    <3> QED BY <1>3, <1>5, <3>1, <3>2, <3>3
  <2> QED BY <2>1, <2>2
<1>7. q \in Paths(o)
  <2>1. Len(q) <= MaxDepth
    BY <1>1, <1>2, <1>3
  <2> QED BY <1>3, <1>6, <2>1, IsAPath
<1>8. Front(q) = p /\ Last(q) = c
  BY <1>3, <1>4, <1>5 DEF Front, Last, Upper
<1> QED BY <1>3, <1>7, <1>8 DEF q

(* The same of the parts of a path of the object hashed.                   *)
LEMMA PartsBelow ==
    ASSUME object \in Objects, NEW p \in Paths(object), NEW q \in Parts(p)
    PROVE  /\ q \in Paths(object) /\ q # <<>> /\ Front(q) = p
           /\ Composite(At(p)) /\ Last(q) \in DOMAIN At(p).elems
           /\ q = Append(p, Last(q)) /\ Len(q) = Len(p) + 1
<1>1. /\ Composite(At(p))
      /\ \E c \in DOMAIN At(p).elems : q = Append(p, c)
  BY DEF Parts
<1>2. PICK c \in DOMAIN At(p).elems : q = Append(p, c)
  BY <1>1
<1>3. /\ Append(p, c) \in Paths(object) /\ Append(p, c) # <<>>
      /\ Front(Append(p, c)) = p /\ Last(Append(p, c)) = c
      /\ Len(Append(p, c)) = Len(p) + 1
  BY <1>1, <1>2, Below DEF At
<1> QED BY <1>1, <1>2, <1>3

(* Every part is among those of the one above it.                          *)
LEMMA PartOfAbove ==
    ASSUME NEW q \in Paths(object), q # <<>>
    PROVE  /\ Front(q) \in Paths(object) /\ Composite(At(Front(q)))
           /\ q \in Parts(Front(q)) /\ Len(Front(q)) = Len(q) - 1
           /\ Len(q) \in Nat \ {0}
<1>1. /\ Front(q) \in Paths(object) /\ Composite(Part(object, Front(q)))
      /\ Last(q) \in DOMAIN Part(object, Front(q)).elems
      /\ q = Append(Front(q), Last(q))
      /\ Len(q) \in Nat \ {0} /\ Len(Front(q)) = Len(q) - 1
  BY Above
<1> QED BY <1>1 DEF At, Parts

(* A part has finitely many parts.                                         *)
LEMMA PartsFinite ==
    ASSUME object \in Objects, NEW p \in Paths(object)
    PROVE  IsFiniteSet(Parts(p))
<1>1. CASE Composite(At(p))
  <2>1. IsFiniteSet(DOMAIN At(p).elems)
    <3>1. /\ Len(At(p).elems) \in Nat
          /\ DOMAIN At(p).elems = 1 .. Len(At(p).elems)
      BY <1>1, PartTyped DEF At
    <3> DEFINE n == Len(At(p).elems)
    <3>2. 1 \in Int /\ n \in Int
      BY <3>1
    <3> HIDE DEF n
    <3>3. IsFiniteSet(1 .. n)
      BY <3>2, FS_Interval
    <3> QED BY <3>1, <3>3 DEF n
  <2> DEFINE D == DOMAIN At(p).elems
             f == [c \in D |-> Append(p, c)]
  <2>2. Parts(p) = {Append(p, c) : c \in D}
    BY <1>1 DEF Parts
  <2>3. f \in Surjection(D, Parts(p))
    BY <2>2 DEF Surjection
  <2> HIDE DEF D, f
  <2> QED BY <2>1, <2>3, FS_Surjection DEF D
<1>2. CASE ~Composite(At(p))
  BY <1>2, FS_EmptySet DEF Parts
<1> QED BY <1>1, <1>2

-----------------------------------------------------------------------------
(* Heights and numbers of chunks.                                          *)

(* The arithmetic of Merkle does not depend on the leaves.                 *)
LEMMA TreeArithmetic ==
    ASSUME NEW leaves
    PROVE  /\ Tree(leaves)!Pow2 = Pure!Pow2
           /\ \A n : Tree(leaves)!log2ceil(n) = Pure!log2ceil(n)
           /\ \A n \in Nat : Tree(leaves)!CeilDiv(n, 1) = n
<1>1. Tree(leaves)!Pow2 = Pure!Pow2
  BY DEF Tree!Pow2, Pure!Pow2
<1>2. \A n : Tree(leaves)!bit_width(n) = Pure!bit_width(n)
  BY <1>1 DEF Tree!bit_width, Pure!bit_width
<1>3. \A n : Tree(leaves)!log2ceil(n) = Pure!log2ceil(n)
  BY <1>2 DEF Tree!log2ceil, Pure!log2ceil
<1>4. \A n \in Nat : Tree(leaves)!CeilDiv(n, 1) = n
  BY DEF Tree!CeilDiv
<1> QED BY <1>1, <1>3, <1>4

(* CeilDiv by the upper bounds it has.                                     *)
LEMMA CeilDivFacts ==
    ASSUME NEW n \in Nat, NEW k \in Nat \ {0}
    PROVE  /\ CeilDiv(n, k) \in Nat /\ CeilDiv(n, k) <= n
           /\ \A q \in Nat : CeilDiv(n, k) <= q <=> n <= k * q
<1>1. CeilDiv(n, k) = Pure!CeilDiv(n, k)
  BY DEF CeilDiv, Pure!CeilDiv
<1>2. Pure!CeilDiv(n, k) \in Nat
  BY Pure!CeilDivBounds, ObjectAssumption
<1>3. ASSUME NEW q \in Nat PROVE Pure!CeilDiv(n, k) <= q <=> n <= k * q
  BY Pure!CeilDivAtMost, ObjectAssumption
<1>4. n <= k * n
  OBVIOUS
<1> QED BY <1>1, <1>2, <1>3, <1>4

(* More elements do not take fewer chunks.                                 *)
LEMMA CeilDivMore ==
    ASSUME NEW m \in Nat, NEW n \in Nat, NEW k \in Nat \ {0}, m <= n
    PROVE  CeilDiv(m, k) <= CeilDiv(n, k)
<1> DEFINE a == CeilDiv(m, k)
           b == CeilDiv(n, k)
<1>1. a \in Nat /\ b \in Nat
  BY CeilDivFacts
<1>2. \A q \in Nat : a <= q <=> m <= k * q
  BY CeilDivFacts
<1>3. \A q \in Nat : b <= q <=> n <= k * q
  BY CeilDivFacts
<1> HIDE DEF a, b
<1>4. n <= k * b
  BY <1>1, <1>3
<1>5. k * b \in Nat
  BY <1>1
<1>6. m <= k * b
  BY <1>4, <1>5
<1> QED BY <1>1, <1>2, <1>6 DEF a, b

(* Two numbers with the same upper bounds are one.                         *)
LEMMA SameBounds ==
    ASSUME NEW a \in Nat, NEW b \in Nat, \A q \in Nat : a <= q <=> b <= q
    PROVE  a = b
<1>1. a <= b /\ b <= a
  OBVIOUS
<1> QED BY <1>1

(* A length counted in a smaller unit.                                     *)
LEMMA CeilDivScaled ==
    ASSUME NEW n \in Nat, NEW k \in Nat \ {0}, NEW s \in Nat \ {0}
    PROVE  CeilDiv(n * s, k * s) = CeilDiv(n, k)
<1> DEFINE a == CeilDiv(n * s, k * s)
           b == CeilDiv(n, k)
<1>1. n * s \in Nat /\ k * s \in Nat \ {0}
  OBVIOUS
<1>2. a \in Nat /\ \A q \in Nat : a <= q <=> n * s <= (k * s) * q
  <2> DEFINE x == n * s
             y == k * s
  <2> HIDE DEF x, y
  <2>1. x \in Nat /\ y \in Nat \ {0}
    BY <1>1 DEF x, y
  <2>2. CeilDiv(x, y) \in Nat /\ \A q \in Nat : CeilDiv(x, y) <= q <=> x <= y * q
    BY <2>1, CeilDivFacts
  <2> QED BY <2>2 DEF x, y
<1>3. b \in Nat /\ \A q \in Nat : b <= q <=> n <= k * q
  BY CeilDivFacts
<1> HIDE DEF a, b
<1>4. ASSUME NEW q \in Nat PROVE n * s <= (k * s) * q <=> n <= k * q
  <2> DEFINE z == k * q
  <2>1. (k * s) * q = z * s /\ z \in Nat
    OBVIOUS
  <2> HIDE DEF z
  <2>2. n * s <= z * s <=> n <= z
    <3>1. ASSUME n <= z PROVE n * s <= z * s
      BY <2>1, <3>1
    <3>2. ASSUME n > z PROVE n * s > z * s
      BY <2>1, <3>2
    <3>3. n * s \in Int /\ z * s \in Int
      BY <2>1
    <3> QED BY <2>1, <3>1, <3>2, <3>3
  <2> QED BY <2>1, <2>2 DEF z
<1>5. \A q \in Nat : a <= q <=> b <= q
  BY <1>2, <1>3, <1>4
<1> QED BY <1>2, <1>3, <1>5, SameBounds DEF a, b

(* Bits to bytes to chunks is bits to chunks.                              *)
LEMMA CeilDivTwice ==
    ASSUME NEW n \in Nat, NEW k \in Nat \ {0}, NEW j \in Nat \ {0}
    PROVE  CeilDiv(CeilDiv(n, k), j) = CeilDiv(n, k * j)
<1> DEFINE c == CeilDiv(n, k)
           a == CeilDiv(c, j)
           b == CeilDiv(n, k * j)
<1>1. c \in Nat /\ \A q \in Nat : c <= q <=> n <= k * q
  BY CeilDivFacts
<1>2. k * j \in Nat \ {0}
  OBVIOUS
<1>3. b \in Nat /\ \A q \in Nat : b <= q <=> n <= (k * j) * q
  <2> DEFINE y == k * j
  <2> HIDE DEF y
  <2>1. y \in Nat \ {0}
    BY <1>2 DEF y
  <2>2. CeilDiv(n, y) \in Nat /\ \A q \in Nat : CeilDiv(n, y) <= q <=> n <= y * q
    BY <2>1, CeilDivFacts
  <2> QED BY <2>2 DEF y
<1> HIDE DEF c
<1>4. a \in Nat /\ \A q \in Nat : a <= q <=> c <= j * q
  BY <1>1, CeilDivFacts
<1> HIDE DEF a, b
<1>5. ASSUME NEW q \in Nat PROVE c <= j * q <=> n <= (k * j) * q
  <2>1. j * q \in Nat /\ k * (j * q) = (k * j) * q
    OBVIOUS
  <2> QED BY <1>1, <2>1
<1>6. \A q \in Nat : a <= q <=> b <= q
  BY <1>3, <1>4, <1>5
<1> QED BY <1>3, <1>4, <1>6, SameBounds DEF a, b, c

(* What the type of a part says of its size.                               *)
Room(o) == IF IsList(o) THEN o.N ELSE length(o)

(* A length is a number, within the room; values fill a chunk.             *)
LEMMA Sized ==
    ASSUME NEW o, OfItsType(o)
    PROVE  /\ PerChunk(o) \in Nat \ {0} /\ length(o) \in Nat /\ Room(o) \in Nat
           /\ length(o) <= Room(o)
           /\ o.kind = "packed" => /\ o.sizeof \in Nat \ {0}
                                   /\ BYTES_PER_CHUNK = PerChunk(o) * o.sizeof
<1>1. CHAR_BIT \in Nat \ {0} /\ BYTES_PER_CHUNK \in Nat \ {0}
  BY ObjectAssumption
<1>2. o.kind = "packed" => /\ o.sizeof \in Nat \ {0} /\ PerChunk(o) \in Nat \ {0}
                           /\ BYTES_PER_CHUNK = PerChunk(o) * o.sizeof
  <2> SUFFICES ASSUME o.kind = "packed"
               PROVE  /\ o.sizeof \in Nat \ {0} /\ PerChunk(o) \in Nat \ {0}
                      /\ BYTES_PER_CHUNK = PerChunk(o) * o.sizeof
    OBVIOUS
  <2> DEFINE s == o.sizeof
             k == BYTES_PER_CHUNK \div s
  <2>1. s \in 1 .. BYTES_PER_CHUNK /\ BYTES_PER_CHUNK % s = 0
    BY DEF OfItsType
  <2>2. PerChunk(o) = k
    BY DEF PerChunk
  <2> HIDE DEF s
  <2>3. k \in Nat /\ BYTES_PER_CHUNK = s * k + (BYTES_PER_CHUNK % s)
    BY <1>1, <2>1
  <2> HIDE DEF k
  <2>4. BYTES_PER_CHUNK = k * s
    BY <1>1, <2>1, <2>3
  <2>5. k # 0
    BY <1>1, <2>1, <2>4
  <2>6. s \in Nat \ {0} /\ k \in Nat \ {0}
    BY <2>1, <2>3, <2>5
  <2> QED BY <2>2, <2>4, <2>6, Zenon DEF s
<1>3. PerChunk(o) \in Nat \ {0}
  <2>1. CASE o.kind = "bits"
    <3>1. CHAR_BIT * BYTES_PER_CHUNK \in Nat \ {0}
      BY <1>1
    <3> QED BY <2>1, <3>1 DEF PerChunk
  <2>2. CASE o.kind \notin {"packed", "bits"}
    BY <2>2 DEF PerChunk
  <2> QED BY <1>2, <2>1, <2>2
<1>4. length(o) \in Nat
  <2>1. CASE o.kind \in {"packed", "roots"}
    BY <2>1 DEF length, OfItsType
  <2>2. CASE o.kind = "bits"
    <3>1. o.bits \in Seq(BOOLEAN)
      BY <2>2 DEF OfItsType
    <3>2. Len(o.bits) \in Nat
      BY <3>1, LenProperties
    <3> QED BY <2>2, <3>2 DEF length
  <2>3. CASE o.kind = "basic"
    BY <2>3 DEF length
  <2>4. CASE Composite(o)
    <3>1. o.elems \in Seq(Range(o.elems))
      BY <2>4 DEF OfItsType
    <3>2. Len(o.elems) \in Nat
      BY <3>1, LenProperties
    <3> QED BY <2>4, <3>2 DEF length, Composite
  <2> QED BY <2>1, <2>2, <2>3, <2>4 DEF OfItsType, Composite
<1>5. Room(o) \in Nat /\ length(o) <= Room(o)
  BY <1>4 DEF Room, OfItsType
<1> QED BY <1>2, <1>3, <1>4, <1>5

(* The height of the type, as the library computes heights.                *)
LEMMA HeightOfRoom ==
    ASSUME NEW o, OfItsType(o)
    PROVE  Height(o) = Pure!log2ceil(CeilDiv(Room(o), PerChunk(o)))
<1> DEFINE per == PerChunk(o)
           room == Room(o)
           P == Pure!Pow2
           c == CeilDiv(room, per)
           l == Pure!log2ceil(c)
           Least(h) == /\ room <= per * P[h]
                       /\ \A g \in 0 .. h - 1 : per * P[g] < room
<1>1. Height(o) = CHOOSE h \in 0 .. room : Least(h)
  <2>1. Tree(<<>>)!Pow2 = P
    BY TreeArithmetic
  <2> QED BY <2>1 DEF Height, Room
<1>2. per \in Nat \ {0} /\ room \in Nat
  BY Sized
<1> HIDE DEF per, room
<1>3. c \in Nat /\ c <= room /\ \A q \in Nat : c <= q <=> room <= per * q
  BY <1>2, CeilDivFacts
<1>4. \A n \in Nat : P[n] \in Nat \ {0}
  BY Pure!Pow2Type, ObjectAssumption
<1> HIDE DEF c, P
<1>5. ASSUME NEW h \in Nat
      PROVE  Least(h) <=> c <= P[h] /\ \A g \in 0 .. h - 1 : P[g] < c
  <2>1. c <= P[h] <=> room <= per * P[h]
    BY <1>3, <1>4
  <2>2. ASSUME NEW g \in 0 .. h - 1 PROVE P[g] < c <=> per * P[g] < room
    <3>1. P[g] \in Nat
      BY <1>4
    <3>2. c <= P[g] <=> room <= per * P[g]
      BY <1>3, <3>1
    <3>3. per * P[g] \in Nat
      BY <1>2, <3>1
    <3> QED BY <1>2, <1>3, <3>1, <3>2, <3>3
  <2> QED BY <2>1, <2>2
<1> HIDE DEF Least
<1>6. CASE c = 0
  <2>1. l = 0
    BY <1>6 DEF Pure!log2ceil
  <2>2. room = 0
    <3>1. room <= per * 0
      BY <1>3, <1>6
    <3> QED BY <1>2, <3>1
  <2>3. Least(0)
    BY <1>4, <1>5, <1>6
  <2> DEFINE H == CHOOSE h \in 0 .. room : Least(h)
  <2>4. H \in 0 .. room
    BY <2>2, <2>3
  <2>5. H = 0
    BY <2>2, <2>4
  <2>6. Height(o) = l
    BY <1>1, <2>1, <2>5
  <2> QED BY <2>6 DEF l, c, per, room
<1>7. CASE c # 0
  <2>1. c \in Nat \ {0}
    BY <1>3, <1>7
  <2>2. /\ l \in Nat /\ c <= P[l] /\ \A j \in Nat : j < l => P[j] < c
    BY <2>1, Pure!Log2Ceil, ObjectAssumption DEF P
  <2> HIDE DEF l
  <2>3. l \in 0 .. room
    <3>1. CASE l = 0
      BY <1>2, <3>1
    <3>2. CASE l # 0
      <4>1. l - 1 \in Nat /\ l - 1 < l
        BY <2>2, <3>2
      <4>2. P[l - 1] < c
        BY <2>2, <4>1
      <4>3. l - 1 < P[l - 1]
        BY <4>1, Pure!Pow2Above, ObjectAssumption DEF P
      <4>4. P[l - 1] \in Nat
        BY <1>4, <4>1
      <4> QED BY <1>2, <1>3, <2>2, <4>2, <4>3, <4>4
    <3> QED BY <3>1, <3>2
  <2>4. Least(l)
    <3>1. \A g \in 0 .. l - 1 : P[g] < c
      BY <2>2
    <3> QED BY <1>5, <2>2, <3>1
  <2>5. ASSUME NEW h \in 0 .. room, Least(h) PROVE h = l
    <3>1. h \in Nat
      BY <1>2
    <3>2. c <= P[h] /\ \A g \in 0 .. h - 1 : P[g] < c
      BY <1>5, <2>5, <3>1
    <3>3. \A j \in Nat : j < h => P[j] < c
      BY <3>1, <3>2
    <3>4. Pure!log2ceil(c) = h
      BY <2>1, <3>1, <3>2, <3>3, Pure!Log2CeilUnique, ObjectAssumption DEF P
    <3> QED BY <3>4 DEF l
  <2> DEFINE H == CHOOSE h \in 0 .. room : Least(h)
  <2>6. H \in 0 .. room /\ Least(H)
    BY <2>3, <2>4
  <2>7. H = l
    BY <2>5, <2>6
  <2> QED BY <1>1, <2>7 DEF l, c, per, room
<1> QED BY <1>6, <1>7 DEF l, c, per, room

-----------------------------------------------------------------------------
(* Bits.                                                                   *)

(* The bytes of a bit sequence, without the sentinel.                      *)
ByteOf(o, b) ==
    {j \in 0 .. CHAR_BIT - 1 :
        CHAR_BIT * (b - 1) + j < Len(o.bits) /\ o.bits[CHAR_BIT * (b - 1) + j + 1]}

(* Of a place in the bytes, the bit.                                       *)
LEMMA DivMod ==
    ASSUME NEW n \in Nat, NEW k \in Nat \ {0}
    PROVE  /\ n \div k \in Nat /\ n % k \in 0 .. k - 1
           /\ n = k * (n \div k) + (n % k)
OBVIOUS

(* The bytes hashed are those of the bits alone: the sentinel is gone.     *)
LEMMA HashedBytes ==
    ASSUME NEW o, OfItsType(o), o.kind = "bits"
    PROVE  hashed_bytes(o) = [b \in 1 .. CeilDiv(Len(o.bits), CHAR_BIT) |-> ByteOf(o, b)]
<1> DEFINE n == Len(o.bits)
           k == CHAR_BIT
           d == n \div k
           m == n % k
           c == CeilDiv(n, k)
<1>1. n \in Nat /\ k \in Nat \ {0} /\ o.list \in BOOLEAN
  <2>1. o.bits \in Seq(BOOLEAN) /\ o.list \in BOOLEAN
    BY DEF OfItsType
  <2> QED BY <2>1, LenProperties, ObjectAssumption
<1>2. d \in Nat /\ m \in 0 .. k - 1 /\ n = k * d + m
  BY <1>1, DivMod
<1>3. c \in Nat /\ \A q \in Nat : c <= q <=> n <= k * q
  BY <1>1, CeilDivFacts
<1> HIDE DEF c, d, m, k
<1>4. m = 0 => c = d
  <2> SUFFICES ASSUME m = 0 PROVE c = d
    OBVIOUS
  <2>1. \A q \in Nat : c <= q <=> d <= q
    <3> SUFFICES ASSUME NEW q \in Nat PROVE n <= k * q <=> d <= q
      BY <1>3
    <3>1. n = k * d
      BY <1>1, <1>2
    <3>2. CASE d <= q
      BY <1>1, <1>2, <3>1, <3>2
    <3>3. CASE d > q
      BY <1>1, <1>2, <3>1, <3>3
    <3> QED BY <1>2, <3>2, <3>3
  <2> QED BY <1>2, <1>3, <2>1, SameBounds
<1>5. m # 0 => c = d + 1
  <2> SUFFICES ASSUME m # 0 PROVE c = d + 1
    OBVIOUS
  <2>1. n <= k * (d + 1)
    BY <1>1, <1>2
  <2>2. ~ (n <= k * d)
    BY <1>1, <1>2
  <2> QED BY <1>2, <1>3, <2>1, <2>2
<1> DEFINE s == serialize(o)
<1>6. CASE ~o.list
  <2>1. hashed_bytes(o) = s
    BY <1>6 DEF hashed_bytes
  <2>2. s = [b \in 1 .. c |-> ByteOf(o, b)]
    BY <1>6 DEF serialize, ByteOf, c, k
  <2> QED BY <2>1, <2>2 DEF c, k
<1>7. CASE o.list
  <2>1. s = [b \in 1 .. d + 1 |->
               {j \in 0 .. k - 1 : \/ k * (b - 1) + j < n /\ o.bits[k * (b - 1) + j + 1]
                                   \/ k * (b - 1) + j = n}]
    BY <1>7 DEF serialize, d, k
  <2> HIDE DEF s
  <2>2. s \in Seq(SUBSET (0 .. k - 1)) /\ Len(s) = d + 1 /\ DOMAIN s = 1 .. d + 1
    <3>1. d + 1 \in Nat
      BY <1>2
    <3>2. s \in [1 .. d + 1 -> SUBSET (0 .. k - 1)]
      BY <2>1
    <3> QED BY <3>1, <3>2
  <2>3. ASSUME NEW b \in 1 .. d
        PROVE  s[b] = ByteOf(o, b)
    <3>1. b \in 1 .. d + 1
      BY <1>2
    <3>2. ASSUME NEW j \in 0 .. k - 1 PROVE k * (b - 1) + j # n
      <4>1. k * (b - 1) + j < k * (b - 1) + k
        BY <1>1, <1>2
      <4>2. k * (b - 1) + k = k * b /\ k * b <= k * d
        BY <1>1, <1>2
      <4> QED BY <1>1, <1>2, <4>1, <4>2
    <3>3. s[b] = {j \in 0 .. k - 1 : \/ k * (b - 1) + j < n /\ o.bits[k * (b - 1) + j + 1]
                                     \/ k * (b - 1) + j = n}
      BY <2>1, <3>1
    <3> QED BY <3>2, <3>3 DEF ByteOf, k
  <2>4. s[d + 1] = ByteOf(o, d + 1) \cup {m}
    <3> DEFINE b == d + 1
    <3>1. b \in 1 .. d + 1 /\ b - 1 = d
      BY <1>2
    <3> HIDE DEF b
    <3>2. s[b] = {j \in 0 .. k - 1 : \/ k * d + j < n /\ o.bits[k * d + j + 1]
                                     \/ k * d + j = n}
      BY <2>1, <3>1
    <3>3. \A j \in 0 .. k - 1 : k * d + j = n <=> j = m
      BY <1>1, <1>2
    <3>4. ByteOf(o, b) = {j \in 0 .. k - 1 : k * d + j < n /\ o.bits[k * d + j + 1]}
      BY <3>1, Zenon DEF ByteOf, k
    <3>5. s[b] = ByteOf(o, b) \cup {m}
      BY <1>2, <3>2, <3>3, <3>4
    <3> QED BY <3>5 DEF b
  <2>5. \A j \in ByteOf(o, d + 1) : j \in 0 .. m - 1
    <3> SUFFICES ASSUME NEW j \in ByteOf(o, d + 1) PROVE j \in 0 .. m - 1
      OBVIOUS
    <3>1. j \in 0 .. k - 1 /\ k * d + j < n
      <4> DEFINE b == d + 1
      <4>1. b - 1 = d /\ j \in ByteOf(o, b)
        BY <1>2
      <4> HIDE DEF b
      <4>2. j \in {i \in 0 .. k - 1 : k * d + i < n /\ o.bits[k * d + i + 1]}
        BY <4>1, Zenon DEF ByteOf, k
      <4> QED BY <4>2
    <3> QED BY <1>1, <1>2, <3>1
  <2>6. Max(Last(s)) = m
    <3>1. Last(s) = ByteOf(o, d + 1) \cup {m}
      BY <2>2, <2>4 DEF Last
    <3> DEFINE L == Last(s)
    <3>2. m \in L /\ \A y \in L : y \in Int /\ m >= y
      BY <1>2, <2>5, <3>1
    <3> HIDE DEF L
    <3>3. \A x \in L : (\A y \in L : x >= y) => x = m
      BY <1>2, <3>2
    <3>4. Max(L) = m
      BY <3>2, <3>3 DEF Max
    <3> QED BY <3>4 DEF L
  <2>7. CASE m = 0
    <3>1. hashed_bytes(o) = Front(s)
      BY <1>7, <2>6, <2>7 DEF hashed_bytes, s
    <3>2. Front(s) = SubSeq(s, 1, d)
      BY <1>2, <2>2 DEF Front
    <3>3. /\ SubSeq(s, 1, d) \in Seq(SUBSET (0 .. k - 1)) /\ Len(SubSeq(s, 1, d)) = d
          /\ \A i \in 1 .. d : SubSeq(s, 1, d)[i] = s[i]
      <4>1. 1 \in Int /\ d \in Int
        BY <1>2
      <4>2. \A i \in 1 .. d : s[i] \in SUBSET (0 .. k - 1)
        <5>1. \A i \in 1 .. d : i \in 1 .. d + 1
          BY <1>2
        <5> QED BY <2>2, <5>1
      <4>3. /\ SubSeq(s, 1, d) \in Seq(SUBSET (0 .. k - 1))
            /\ Len(SubSeq(s, 1, d)) = IF 1 <= d THEN d - 1 + 1 ELSE 0
            /\ \A i \in 1 .. d - 1 + 1 : SubSeq(s, 1, d)[i] = s[1 + i - 1]
        BY <4>1, <4>2, SubSeqProperties
      <4> QED BY <1>2, <4>3
    <3> DEFINE f == SubSeq(s, 1, d)
    <3>4. f = [i \in 1 .. d |-> s[i]]
      <4> HIDE DEF f
      <4>1. DOMAIN f = 1 .. d /\ f = [i \in DOMAIN f |-> f[i]]
        BY <3>3 DEF f
      <4> QED BY <3>3, <4>1 DEF f
    <3>5. f = [i \in 1 .. d |-> ByteOf(o, i)]
      BY <2>3, <3>4
    <3> QED BY <1>4, <2>7, <3>1, <3>2, <3>5 DEF c, k
  <2>8. CASE m # 0
    <3>1. hashed_bytes(o) = [s EXCEPT ![d + 1] = s[d + 1] \ {m}]
      BY <1>7, <2>2, <2>6, <2>8 DEF hashed_bytes, s
    <3>2. s[d + 1] \ {m} = ByteOf(o, d + 1)
      <4>1. m \notin ByteOf(o, d + 1)
        BY <1>2, <2>5
      <4> QED BY <2>4, <4>1
    <3>3. \A b \in 1 .. d + 1 : b \in 1 .. d \/ b = d + 1
      BY <1>2
    <3> DEFINE h == [s EXCEPT ![d + 1] = s[d + 1] \ {m}]
    <3>4. h = [b \in 1 .. d + 1 |-> h[b]]
      BY <2>2
    <3>5. \A b \in 1 .. d + 1 : h[b] = ByteOf(o, b)
      <4> SUFFICES ASSUME NEW b \in 1 .. d + 1 PROVE h[b] = ByteOf(o, b)
        OBVIOUS
      <4>1. CASE b = d + 1
        BY <2>2, <3>2, <4>1
      <4>2. CASE b # d + 1
        <5>1. h[b] = s[b]
          BY <2>2, <4>2
        <5> QED BY <2>3, <3>3, <4>2, <5>1
      <4> QED BY <4>1, <4>2
    <3> HIDE DEF h
    <3>6. h = [b \in 1 .. d + 1 |-> ByteOf(o, b)]
      BY <3>4, <3>5
    <3> QED BY <1>5, <2>8, <3>1, <3>6 DEF c, k, h
  <2> QED BY <2>7, <2>8
<1> QED BY <1>1, <1>6, <1>7

(* The bits of a chunk, as the bytes hold them.                            *)
LEMMA BitOfBytes ==
    ASSUME NEW o, OfItsType(o), o.kind = "bits",
           NEW c \in Nat \ {0}, NEW i \in 0 .. CHAR_BIT * BYTES_PER_CHUNK - 1
    PROVE  LET b   == BYTES_PER_CHUNK * (c - 1) + i \div CHAR_BIT + 1
               bit == CHAR_BIT * BYTES_PER_CHUNK * (c - 1) + i
           IN  b <= Len(hashed_bytes(o)) /\ i % CHAR_BIT \in hashed_bytes(o)[b]
               <=> bit < Len(o.bits) /\ o.bits[bit + 1]
<1> DEFINE n == Len(o.bits)
           k == CHAR_BIT
           z == BYTES_PER_CHUNK
           u == i \div k
           v == i % k
           t == z * (c - 1) + u
           bit == k * z * (c - 1) + i
           h == hashed_bytes(o)
           bytes == CeilDiv(n, k)
<1>1. n \in Nat /\ k \in Nat \ {0} /\ z \in Nat \ {0}
  <2>1. o.bits \in Seq(BOOLEAN)
    BY DEF OfItsType
  <2> QED BY <2>1, LenProperties, ObjectAssumption
<1>2. h = [b \in 1 .. bytes |-> ByteOf(o, b)]
  BY HashedBytes
<1>3. bytes \in Nat /\ \A q \in Nat : bytes <= q <=> n <= k * q
  BY <1>1, CeilDivFacts
<1> HIDE DEF n, k, z, h, bytes
<1>4. i \in Nat
  <2>1. k * z \in Nat
    BY <1>1
  <2> QED BY <2>1 DEF k, z
<1>5. u \in Nat /\ v \in 0 .. k - 1 /\ i = k * u + v
  BY <1>1, <1>4, DivMod
<1> HIDE DEF u, v
<1>6. t \in Nat /\ bit = k * t + v /\ bit \in Nat
  <2>1. z * (c - 1) \in Nat /\ k * z * (c - 1) = k * (z * (c - 1))
    BY <1>1
  <2> DEFINE w == z * (c - 1)
  <2>2. w \in Nat /\ bit = k * w + i /\ t = w + u
    BY <2>1
  <2> HIDE DEF w, t, bit
  <2>3. k * (w + u) = k * w + k * u
    BY <1>1, <1>5, <2>2
  <2> QED BY <1>1, <1>4, <1>5, <2>2, <2>3
<1> HIDE DEF t, bit
<1>7. Len(h) = bytes
  BY <1>2, <1>3
<1>8. t + 1 <= bytes /\ v \in h[t + 1] <=> bit < n /\ o.bits[bit + 1]
  <2>1. bit < n => t + 1 <= bytes
    <3>1. bytes <= t <=> n <= k * t
      BY <1>3, <1>6
    <3>2. k * t \in Nat
      BY <1>1, <1>6
    <3> QED BY <1>1, <1>3, <1>5, <1>6, <3>1, <3>2
  <2>2. ASSUME t + 1 <= bytes
        PROVE  v \in h[t + 1] <=> bit < n /\ o.bits[bit + 1]
    <3> DEFINE b == t + 1
    <3>1. b \in 1 .. bytes /\ b - 1 = t
      BY <1>3, <1>6, <2>2
    <3> HIDE DEF b
    <3>2. h[b] = {j \in 0 .. k - 1 : k * t + j < n /\ o.bits[k * t + j + 1]}
      <4>1. h[b] = ByteOf(o, b)
        BY <1>2, <3>1
      <4> QED BY <3>1, <4>1, Zenon DEF ByteOf, k, n
    <3>3. v \in h[b] <=> bit < n /\ o.bits[bit + 1]
      BY <1>5, <1>6, <3>2
    <3> QED BY <3>3 DEF b
  <2> QED BY <2>1, <2>2
<1> QED BY <1>7, <1>8 DEF t, u, v, bit, h, n, z, k

(* The chunks of the bytes are the chunks of the bits.                     *)
LEMMA ChunksOfBits ==
    ASSUME NEW o, OfItsType(o), o.kind = "bits"
    PROVE  BitChunks(o) =
             [c \in 1 .. CeilDiv(length(o), PerChunk(o)) |->
                 BitChunk({i \in 0 .. PerChunk(o) - 1 :
                     LET bit == PerChunk(o) * (c - 1) + i
                     IN  bit < length(o) /\ o.bits[bit + 1]})]
<1> DEFINE n == Len(o.bits)
           k == CHAR_BIT
           z == BYTES_PER_CHUNK
           h == hashed_bytes(o)
           count == CeilDiv(n, k * z)
<1>1. n \in Nat /\ k \in Nat \ {0} /\ z \in Nat \ {0}
  <2>1. o.bits \in Seq(BOOLEAN)
    BY DEF OfItsType
  <2> QED BY <2>1, LenProperties, ObjectAssumption
<1>2. length(o) = n /\ PerChunk(o) = k * z
  BY DEF length, PerChunk
<1>3. CeilDiv(Len(h), z) = count
  <2>1. h = [b \in 1 .. CeilDiv(n, k) |-> ByteOf(o, b)]
    BY HashedBytes
  <2>2. CeilDiv(n, k) \in Nat
    BY <1>1, CeilDivFacts
  <2> HIDE DEF h
  <2>3. Len(h) = CeilDiv(n, k)
    BY <2>1, <2>2
  <2>4. CeilDiv(CeilDiv(n, k), z) = CeilDiv(n, k * z)
    BY <1>1, CeilDivTwice
  <2> QED BY <2>3, <2>4
<1> DEFINE Stored(c) == {i \in 0 .. k * z - 1 :
               LET b == z * (c - 1) + i \div k + 1 IN b <= Len(h) /\ i % k \in h[b]}
           Meant(c) == {i \in 0 .. k * z - 1 :
               LET bit == k * z * (c - 1) + i IN bit < n /\ o.bits[bit + 1]}
<1>4. ASSUME NEW c \in 1 .. count PROVE Stored(c) = Meant(c)
  <2>1. c \in Nat \ {0}
    OBVIOUS
  <2>2. ASSUME NEW i \in 0 .. k * z - 1
        PROVE  LET b   == z * (c - 1) + i \div k + 1
                   bit == k * z * (c - 1) + i
               IN  b <= Len(h) /\ i % k \in h[b] <=> bit < n /\ o.bits[bit + 1]
    BY <2>1, BitOfBytes
  <2> QED BY <2>2
<1>5. BitChunks(o) = [c \in 1 .. count |-> BitChunk(Stored(c))]
  BY <1>3 DEF BitChunks
<1>6. [c \in 1 .. count |-> BitChunk(Stored(c))]
      = [c \in 1 .. count |-> BitChunk(Meant(c))]
  <2> HIDE DEF Stored, Meant
  <2> QED BY <1>4
<1> QED BY <1>2, <1>5, <1>6

-----------------------------------------------------------------------------
(* The vector a call hashes.                                               *)

(* A chunk to each is as many chunks.                                      *)
LEMMA ChunkOne ==
    ASSUME NEW n \in Nat
    PROVE  CeilDiv(n, 1) = n
BY DEF CeilDiv

(* It has a chunk for every PerChunk elements.                             *)
LEMMA NumberOfChunks ==
    ASSUME NEW p, OfItsType(At(p)), At(p).kind # "basic"
    PROVE  Len(chunks(p)) = CeilDiv(length(At(p)), PerChunk(At(p)))
<1> DEFINE o == At(p)
           count == CeilDiv(length(o), PerChunk(o))
<1>1. count \in Nat /\ PerChunk(o) \in Nat \ {0} /\ length(o) \in Nat
  BY Sized, CeilDivFacts
<1>2. CASE o.kind \in {"packed", "roots"}
  <2>1. BYTES_PER_CHUNK \div o.sizeof = PerChunk(o)
    <3>1. CASE o.kind = "packed"
      BY <3>1 DEF PerChunk
    <3>2. CASE o.kind = "roots"
      <4>1. BYTES_PER_CHUNK \div BYTES_PER_CHUNK = 1
        BY ObjectAssumption
      <4>2. o.sizeof = BYTES_PER_CHUNK /\ PerChunk(o) = 1
        BY <3>2 DEF OfItsType, PerChunk
      <4> QED BY <4>1, <4>2
    <3> QED BY <1>2, <3>1, <3>2
  <2>2. length(o) = o.size /\ chunks(p) = ValueChunks(o)
    BY <1>2 DEF length, chunks
  <2>3. \E f : ValueChunks(o) = [c \in 1 .. count |-> f[c]]
    <3> DEFINE f == ValueChunks(o)
    <3>1. f = [c \in 1 .. count |-> f[c]]
      BY <2>1, <2>2 DEF ValueChunks
    <3> QED BY <3>1
  <2> HIDE DEF count
  <2> QED BY <1>1, <2>2, <2>3 DEF count
<1>3. CASE o.kind = "bits"
  <2>1. \E f : BitChunks(o) = [c \in 1 .. count |-> f[c]]
    <3> DEFINE f == BitChunks(o)
    <3>1. f = [c \in 1 .. count |->
                 BitChunk({i \in 0 .. PerChunk(o) - 1 :
                     LET bit == PerChunk(o) * (c - 1) + i
                     IN  bit < length(o) /\ o.bits[bit + 1]})]
      BY <1>3, ChunksOfBits
    <3> HIDE DEF f, count, o
    <3>2. f = [c \in 1 .. count |-> f[c]]
      BY <3>1
    <3> QED BY <3>2 DEF f
  <2>2. chunks(p) = BitChunks(o)
    BY <1>3 DEF chunks
  <2> HIDE DEF count
  <2> QED BY <1>1, <2>1, <2>2 DEF count
<1>4. CASE Composite(o)
  <2> DEFINE elems == o.elems
  <2>1. chunks(p) = [c \in DOMAIN elems |-> result[Append(p, c)]]
    BY <1>4 DEF chunks, Composite
  <2>2. length(o) = Len(elems) /\ PerChunk(o) = 1 /\ elems \in Seq(Range(elems))
    BY <1>4 DEF length, PerChunk, Composite, OfItsType
  <2> HIDE DEF elems
  <2>3. DOMAIN elems = 1 .. Len(elems) /\ Len(elems) \in Nat
    BY <2>2, LenProperties
  <2>4. Len(chunks(p)) = Len(elems)
    BY <2>1, <2>3
  <2>5. CeilDiv(Len(elems), 1) = Len(elems)
    BY <2>3, ChunkOne
  <2> QED BY <2>2, <2>4, <2>5
<1> QED BY <1>2, <1>3, <1>4 DEF OfItsType, Composite

(* Its limit is that of the type, in chunks.                               *)
LEMMA LimitOfType ==
    ASSUME NEW o, OfItsType(o), o.kind # "basic"
    PROVE  limit(o) = IF IsList(o) \/ o.kind = "bits"
                      THEN CeilDiv(Room(o), PerChunk(o)) ELSE 0
<1>1. CASE o.kind = "bits"
  <2>1. Room(o) = o.N
    BY <1>1 DEF Room, IsList, length, OfItsType
  <2> QED BY <1>1, <2>1 DEF limit, PerChunk
<1>2. CASE o.kind = "packed" /\ o.list
  <2> DEFINE k == PerChunk(o)
             s == o.sizeof
             n == o.N
  <2>1. k \in Nat \ {0} /\ s \in Nat \ {0} /\ BYTES_PER_CHUNK = k * s
    BY <1>2, Sized
  <2>2. n \in Nat /\ Room(o) = n
    BY <1>2 DEF OfItsType, IsList, Room
  <2>3. limit(o) = CeilDiv(n * s, k * s)
    BY <1>2, <2>1 DEF limit
  <2> HIDE DEF k, s, n
  <2>4. CeilDiv(n * s, k * s) = CeilDiv(n, k)
    BY <2>1, <2>2, CeilDivScaled
  <2> QED BY <1>2, <2>2, <2>3, <2>4 DEF k, IsList
<1>3. CASE o.kind \in {"roots", "objects"} /\ o.list
  <2>1. PerChunk(o) = 1 /\ limit(o) = o.N /\ Room(o) = o.N /\ o.N \in Nat /\ IsList(o)
    BY <1>3 DEF PerChunk, limit, Room, IsList, OfItsType
  <2> QED BY <2>1, ChunkOne
<1>4. CASE \/ o.kind = "container"
           \/ o.kind \in {"packed", "roots", "objects"} /\ ~o.list
  <2>1. limit(o) = 0
    BY <1>4 DEF limit
  <2>2. ~IsList(o) /\ o.kind # "bits"
    BY <1>4 DEF IsList
  <2> QED BY <2>1, <2>2
<1>5. \/ o.kind = "bits" \/ o.kind = "container"
      \/ o.kind \in {"packed", "roots", "objects"} /\ o.list \in BOOLEAN
  BY DEF OfItsType
<1> QED BY <1>1, <1>2, <1>3, <1>4, <1>5

(* Its tree is as high as that of the type.                                *)
LEMMA TreeOfType ==
    ASSUME NEW p, OfItsType(At(p)), At(p).kind # "basic", NEW leaves
    PROVE  LET n == Len(chunks(p))
               l == limit(At(p))
           IN  /\ n \in Nat /\ l \in Nat /\ (l > 0 => n <= l)
               /\ Tree(leaves)!TreeHeight(n, l) = Height(At(p))
               /\ Tree(leaves)!CeilDiv(n, 1) = n
<1> DEFINE o == At(p)
           n == Len(chunks(p))
           l == limit(o)
           k == PerChunk(o)
           a == CeilDiv(length(o), k)
           b == CeilDiv(Room(o), k)
<1>1. /\ k \in Nat \ {0} /\ length(o) \in Nat /\ Room(o) \in Nat
      /\ length(o) <= Room(o)
  BY Sized
<1>2. n = a
  BY NumberOfChunks
<1>3. l = IF IsList(o) \/ o.kind = "bits" THEN b ELSE 0
  BY LimitOfType
<1>4. a \in Nat /\ b \in Nat
  BY <1>1, CeilDivFacts
<1>5. a <= b
  BY <1>1, CeilDivMore
<1>6. Height(o) = Pure!log2ceil(b)
  BY HeightOfRoom
<1>7. Room(o) = IF IsList(o) THEN o.N ELSE length(o)
  BY DEF Room
<1>8. /\ \A x : Tree(leaves)!log2ceil(x) = Pure!log2ceil(x)
      /\ \A x \in Nat : Tree(leaves)!CeilDiv(x, 1) = x
  BY TreeArithmetic
<1>9. Tree(leaves)!TreeHeight(n, l) = IF l = 0 THEN Tree(leaves)!log2ceil(n)
                                      ELSE Tree(leaves)!log2ceil(l)
  BY DEF Tree!TreeHeight
<1> HIDE DEF n, l
<1>10. n \in Nat /\ l \in Nat /\ (l > 0 => n <= l)
  <2> HIDE DEF a, b
  <2> QED BY <1>2, <1>3, <1>4, <1>5
<1>11. (IF l = 0 THEN n ELSE l) = b
  <2>1. ~IsList(o) => a = b
    BY <1>7
  <2> HIDE DEF a, b
  <2> QED BY <1>2, <1>3, <1>4, <1>5, <2>1
<1>12. Tree(leaves)!TreeHeight(n, l) = Pure!log2ceil(b)
  BY <1>8, <1>9, <1>11
<1> QED BY <1>2, <1>4, <1>6, <1>8, <1>10, <1>12 DEF n, l

-----------------------------------------------------------------------------
(* The reference, one level at a time.                                     *)

(* The root of a part is that over the roots of its parts.                 *)
LEMMA RootUnfolds ==
    ASSUME object \in Objects, NEW p \in Paths(object)
    PROVE  /\ RootAt(p) = RootOver(object, p, RootsOf(object)[MaxDepth - Len(p)])
           /\ \A q \in Parts(p) : RootsOf(object)[MaxDepth - Len(p)][q] = RootAt(q)
<1> DEFINE roots == RootsOf(object)
           n == MaxDepth + 1 - Len(p)
<1>1. roots = Levels!rec
  BY DEF RootsOf, Levels!rec, NextRoots
<1>2. \A m \in Nat : roots[m] = IF m = 0 THEN <<>> ELSE AllRoots(object, roots[m - 1])
  <2>1. \A m \in Nat : Levels!rec[m] = IF m = 0 THEN <<>>
                                       ELSE NextRoots(m, Levels!rec[m - 1])
    BY Levels!RecursionUnfolds
  <2> QED BY <1>1, <2>1 DEF NextRoots
<1> HIDE DEF roots
<1>3. n \in Nat /\ n # 0 /\ n - 1 = MaxDepth - Len(p)
  BY PathType, ObjectAssumption
<1>4. roots[n] = AllRoots(object, roots[MaxDepth - Len(p)])
  BY <1>2, <1>3
<1>5. roots[n][p] = RootOver(object, p, roots[MaxDepth - Len(p)])
  BY <1>4 DEF AllRoots
<1>6. ASSUME NEW q \in Parts(p) PROVE roots[MaxDepth - Len(p)][q] = RootAt(q)
  <2>1. Len(q) = Len(p) + 1
    BY PartsBelow
  <2>2. MaxDepth + 1 - Len(q) = MaxDepth - Len(p)
    BY <2>1, PathType, ObjectAssumption
  <2> QED BY <2>2 DEF RootAt, roots
<1> QED BY <1>5, <1>6 DEF RootAt, roots

(* The root of a basic value is its chunk.                                 *)
LEMMA RootOfBasic ==
    ASSUME TypeOK, NEW p \in Paths(object), At(p).kind = "basic"
    PROVE  RootAt(p) = Value(At(p).id, 0, 1)
<1> DEFINE below == RootsOf(object)[MaxDepth - Len(p)]
<1>1. RootAt(p) = RootOver(object, p, below)
  BY RootUnfolds DEF TypeOK
<1> HIDE DEF below
<1>2. Part(object, p).kind = "basic" /\ At(p) = Part(object, p)
  BY DEF At
<1>3. RootOver(object, p, below) = Value(Part(object, p).id, 0, 1)
  BY <1>2 DEF RootOver, IsList
<1> QED BY <1>1, <1>2, <1>3

(* The vectors hashed keep what their hashes need.                         *)
LEMMA VectorRespected ==
    ASSUME TypeOK, NEW p \in Paths(object), At(p).kind # "basic"
    PROVE  Respected(p)
<1>1. OfItsType(At(p))
  BY ObjectAssumption DEF TypeOK, At
<1> DEFINE n == Len(chunks(p))
           l == limit(At(p))
           leaves == chunks(p)
<1>2. /\ l > 0 => n <= l
      /\ Tree(leaves)!TreeHeight(n, l) = Height(At(p))
  <2> HIDE DEF leaves
  <2>1. LET m == Len(chunks(p))
            k == limit(At(p))
        IN  /\ m \in Nat /\ k \in Nat /\ (k > 0 => m <= k)
            /\ Tree(leaves)!TreeHeight(m, k) = Height(At(p))
            /\ Tree(leaves)!CeilDiv(m, 1) = m
    BY <1>1, TreeOfType
  <2> QED BY <2>1
<1>3. Height(At(p)) < zero_hash_depth
  BY <1>1 DEF OfItsType
<1> QED BY <1>2, <1>3 DEF Respected

Body(p) == Tree(chunks(p))!Merkleize(1, 0, Len(chunks(p)), limit(At(p)))

(* And over the right chunks of the parts they are the reference.          *)
LEMMA RootOfVector ==
    ASSUME TypeOK, NEW p \in Paths(object), At(p).kind # "basic",
           \A q \in Parts(p) : result[q] = RootAt(q)
    PROVE  RootAt(p) = IF IsList(At(p)) THEN Hash(Body(p), Length(length(At(p))))
                                        ELSE Body(p)
<1>1. OfItsType(At(p)) /\ object \in Objects
  BY ObjectAssumption DEF TypeOK, At
<1> DEFINE o == At(p)
           s == chunks(p)
           below == RootsOf(object)[MaxDepth - Len(p)]
           leaves == CASE o.kind \in {"packed", "roots"} -> ValueChunks(o)
                       [] o.kind = "bits" ->
                            [c \in 1 .. CeilDiv(length(o), PerChunk(o)) |->
                                BitChunk({i \in 0 .. PerChunk(o) - 1 :
                                    LET bit == PerChunk(o) * (c - 1) + i
                                    IN  bit < length(o) /\ o.bits[bit + 1]})]
                       [] OTHER -> [c \in DOMAIN o.elems |-> below[Append(p, c)]]
<1>2. /\ RootAt(p) = RootOver(object, p, below)
      /\ \A q \in Parts(p) : below[q] = RootAt(q)
  BY <1>1, RootUnfolds
<1> HIDE DEF below
<1>3. leaves = s
  <2>1. CASE o.kind \in {"packed", "roots"}
    BY <2>1 DEF chunks
  <2>2. CASE o.kind = "bits"
    <3>1. s = BitChunks(o)
      BY <2>2 DEF chunks
    <3>2. leaves = [c \in 1 .. CeilDiv(length(o), PerChunk(o)) |->
                      BitChunk({i \in 0 .. PerChunk(o) - 1 :
                          LET bit == PerChunk(o) * (c - 1) + i
                          IN  bit < length(o) /\ o.bits[bit + 1]})]
      BY <2>2
    <3> HIDE DEF leaves
    <3> QED BY <1>1, <2>2, <3>1, <3>2, ChunksOfBits
  <2>3. CASE Composite(o)
    <3>1. \A c \in DOMAIN o.elems : Append(p, c) \in Parts(p)
      BY <2>3 DEF Parts
    <3>2. \A c \in DOMAIN o.elems : below[Append(p, c)] = result[Append(p, c)]
      BY <1>2, <3>1
    <3>3. leaves = [c \in DOMAIN o.elems |-> below[Append(p, c)]]
      BY <2>3 DEF Composite
    <3>4. s = [c \in DOMAIN o.elems |-> result[Append(p, c)]]
      BY <2>3 DEF chunks, Composite
    <3> HIDE DEF leaves, s
    <3> QED BY <3>2, <3>3, <3>4
  <2> QED BY <1>1, <2>1, <2>2, <2>3 DEF OfItsType, Composite
<1> DEFINE body == Tree(leaves)!Subtree(Height(o), 1, 0, Len(leaves))
<1>4. RootOver(object, p, below) = IF IsList(o) THEN Hash(body, Length(length(o)))
                                                ELSE body
  <2>1. o.kind # "basic" /\ o = Part(object, p)
    BY DEF At
  <2> QED BY <2>1 DEF RootOver
<1>5. body = Body(p)
  <2> HIDE DEF leaves
  <2> DEFINE n == Len(s)
             l == limit(o)
  <2>1. body = Tree(s)!Subtree(Height(o), 1, 0, n)
    BY <1>3
  <2>2. /\ n \in Nat
        /\ Tree(s)!TreeHeight(n, l) = Height(o)
        /\ Tree(s)!CeilDiv(n, 1) = n
    <3> DEFINE t == s
    <3>1. LET m == Len(chunks(p))
              k == limit(At(p))
          IN  /\ m \in Nat /\ k \in Nat /\ (k > 0 => m <= k)
              /\ Tree(t)!TreeHeight(m, k) = Height(At(p))
              /\ Tree(t)!CeilDiv(m, 1) = m
      <4> HIDE DEF t
      <4> QED BY <1>1, TreeOfType
    <3> QED BY <3>1
  <2>3. Body(p) = Tree(s)!Subtree(Tree(s)!TreeHeight(Tree(s)!CeilDiv(n, 1), l), 1, 0, 0 + n)
    BY DEF Body, Tree!Merkleize
  <2>4. 0 + n = n
    BY <2>2
  <2> HIDE DEF s, n, l, o
  <2> QED BY <2>1, <2>2, <2>3, <2>4
<1> QED BY <1>2, <1>4, <1>5

-----------------------------------------------------------------------------
(* Every step moves one call.                                              *)

(* The call of a part begins.                                              *)
Begins(q) ==
    /\ q # <<>> /\ pc[q] = "idle" /\ pc' = [pc EXCEPT ![q] = "call"]
    /\ pc[Front(q)] \in {"members", "unwind"}
    /\ cpu_count' = [cpu_count EXCEPT ![q] = passed_on(Front(q))]
    /\ At(Front(q)).kind = "container" => \A r \in Parts(Front(q)) : ~Active(r)
    /\ UNCHANGED <<object, hardware_concurrency, result, faults>>

(* It goes on, to the place given.                                         *)
GoesOn(p, to) ==
    /\ pc' = [pc EXCEPT ![p] = to]
    /\ \/ pc[p] = "call" /\ Composite(At(p)) /\ to = "members"
       \/ pc[p] = "call" /\ At(p).kind = "basic" /\ to = "ok"
       \/ pc[p] = "call" /\ ~Composite(At(p)) /\ At(p).kind # "basic" /\ to = "hash"
       \/ pc[p] = "members" /\ to = "hash" /\ \A q \in Parts(p) : pc[q] = "ok"
       \/ pc[p] = "members" /\ to = "unwind"
       \/ pc[p] = "unwind" /\ to = "threw" /\ \A q \in Parts(p) : ~Active(q)
       \/ pc[p] = "hash" /\ to = "mix" /\ IsList(At(p))
       \/ pc[p] = "hash" /\ to = "ok" /\ ~IsList(At(p))
       \/ pc[p] = "mix" /\ to = "ok"
       \/ pc[p] \in {"call", "hash"} /\ to = "threw"
    /\ UNCHANGED <<object, hardware_concurrency, cpu_count>>
    /\ \/ /\ faults' = faults
          /\ to \in {"unwind", "threw"} => \E q \in Paths(object) : Failed(q)
       \/ faults' = faults + 1 /\ to \in {"unwind", "threw"}

(* Every step is one of those two kinds.                                   *)
LEMMA StepMoves ==
    ASSUME IInv, NEW p \in Paths(object), Step(p) \/ Throws(p)
    PROVE  \/ \E q \in Parts(p) : Begins(q)
           \/ \E to \in {"members", "unwind", "hash", "mix", "ok", "threw"} :
                 GoesOn(p, to)
<1> DEFINE Goes == \E to \in {"members", "unwind", "hash", "mix", "ok", "threw"} :
                      GoesOn(p, to)
<1>0. /\ TypeOK /\ object \in Objects /\ Places(p) /\ faults \in Nat
      /\ DOMAIN pc = Paths(object)
  BY ObjectAssumption DEF IInv, TypeOK
<1>1. CASE Basic(p)
  <2>1. GoesOn(p, "ok")
    BY <1>1 DEF Basic, GoesOn, Goto
  <2> QED BY <2>1
<1>2. CASE Enter(p)
  <2>1. GoesOn(p, "hash")
    BY <1>2 DEF Enter, GoesOn, Goto, Composite
  <2> QED BY <2>1
<1>3. CASE EnterComposite(p)
  <2>1. GoesOn(p, "members")
    BY <1>3 DEF EnterComposite, GoesOn, Goto
  <2> QED BY <2>1
<1>4. ASSUME NEW q \in Parts(p), Start(p, q) PROVE Begins(q)
  <2>1. q # <<>> /\ Front(q) = p
    BY <1>0, PartsBelow
  <2>2. /\ pc[p] \in {"members", "unwind"} /\ pc[q] = "idle"
        /\ pc' = [pc EXCEPT ![q] = "call"]
        /\ cpu_count' = [cpu_count EXCEPT ![q] = passed_on(p)]
        /\ UNCHANGED <<object, hardware_concurrency, result, faults>>
        /\ Cardinality({r \in Parts(p) : Active(r)}) < at_once(p)
    BY <1>4 DEF Start, Goto
  <2>3. ASSUME At(p).kind = "container" PROVE \A r \in Parts(p) : ~Active(r)
    <3> DEFINE A == {r \in Parts(p) : Active(r)}
    <3>1. IsFiniteSet(A)
      <4>1. IsFiniteSet(Parts(p)) /\ A \in SUBSET Parts(p)
        BY <1>0, PartsFinite
      <4> QED BY <4>1, FS_Subset
    <3>2. Cardinality(A) < 1
      BY <2>2, <2>3 DEF at_once, one_by_one
    <3> HIDE DEF A
    <3>3. Cardinality(A) = 0
      BY <3>1, <3>2, FS_CardinalityType
    <3>4. A = {}
      BY <3>1, <3>3, FS_EmptySet
    <3> QED BY <3>4 DEF A
  <2> QED BY <2>1, <2>2, <2>3 DEF Begins
<1>5. CASE Gathered(p)
  <2>1. GoesOn(p, "hash")
    BY <1>5 DEF Gathered, GoesOn, Goto
  <2> QED BY <2>1
<1>6. CASE PartThrew(p)
  <2>1. \E q \in Paths(object) : Failed(q)
    BY <1>0, <1>6, PartsBelow DEF PartThrew, Failed
  <2>2. GoesOn(p, "unwind")
    BY <1>6, <2>1 DEF PartThrew, GoesOn, Goto
  <2> QED BY <2>2
<1>7. CASE Unwind(p)
  <2>1. GoesOn(p, "threw")
    BY <1>7 DEF Unwind, GoesOn, Goto, Failed
  <2> QED BY <2>1
<1>8. CASE HashVector(p)
  <2>1. CASE IsList(At(p))
    <3>1. GoesOn(p, "mix")
      BY <1>8, <2>1 DEF HashVector, GoesOn, Goto
    <3> QED BY <3>1
  <2>2. CASE ~IsList(At(p))
    <3>1. GoesOn(p, "ok")
      BY <1>8, <2>2 DEF HashVector, GoesOn, Goto
    <3> QED BY <3>1
  <2> QED BY <2>1, <2>2
<1>9. CASE HashUndefined(p)
  <2>1. pc[p] = "hash" /\ ~Respected(p)
    BY <1>9 DEF HashUndefined
  <2> QED BY <1>0, <2>1, VectorRespected DEF Places
<1>10. CASE mix_in_length(p)
  <2>1. GoesOn(p, "ok")
    BY <1>10 DEF mix_in_length, GoesOn, Goto
  <2> QED BY <2>1
<1>11. CASE Throws(p)
  <2>1. CASE pc[p] = "members"
    <3>1. GoesOn(p, "unwind")
      BY <1>11, <2>1 DEF Throws, GoesOn, Goto
    <3> QED BY <3>1
  <2>2. CASE pc[p] # "members"
    <3>1. GoesOn(p, "threw")
      BY <1>11, <2>2 DEF Throws, GoesOn, Goto
    <3> QED BY <3>1
  <2> QED BY <2>1, <2>2
<1> QED BY <1>1, <1>2, <1>3, <1>4, <1>5, <1>6, <1>7, <1>8, <1>9, <1>10, <1>11
       DEF Step

(* The object stays, and with it its paths and parts.                      *)
LEMMA Unchanging ==
    ASSUME object' = object
    PROVE  /\ Paths(object)' = Paths(object)
           /\ \A p : At(p)' = At(p) /\ Parts(p)' = Parts(p)
BY DEF At, Parts

(* The types stay.                                                         *)
LEMMA StepTyped ==
    ASSUME IInv, NEW p \in Paths(object), Step(p) \/ Throws(p)
    PROVE  TypeOK'
<1>1. /\ TypeOK /\ object \in Objects /\ faults \in 0 .. MaxFaults
      /\ DOMAIN pc = Paths(object) /\ DOMAIN result = Paths(object)
      /\ pc \in [Paths(object) -> Finished \cup {"idle", "call", "members",
                                    "unwind", "hash", "mix", "undefined"}]
      /\ cpu_count \in [Paths(object) -> 0 .. MaxCpu]
      /\ hardware_concurrency \in Cores /\ MaxCpu \in Nat \ {0}
      /\ MaxFaults \in Nat
  BY ObjectAssumption DEF IInv, TypeOK
<1>2. DOMAIN result' = DOMAIN result
  BY DEF Step, Throws, Basic, Enter, EnterComposite, Start, Gathered, PartThrew,
         Unwind, HashVector, HashUndefined, mix_in_length, WriteResult
<1>3. faults' \in 0 .. MaxFaults
  <2>1. faults' = faults \/ (faults < MaxFaults /\ faults' = faults + 1)
    BY DEF Step, Throws, Basic, Enter, EnterComposite, Start, Gathered, PartThrew,
         Unwind, HashVector, HashUndefined, mix_in_length
  <2> QED BY <1>1, <2>1
<1>4. CASE \E q \in Parts(p) : Begins(q)
  <2>1. PICK q \in Parts(p) : Begins(q)
    BY <1>4
  <2>2. /\ q \in Paths(object) /\ Front(q) = p
    BY <1>1, <2>1, PartsBelow
  <2>3. /\ object' = object /\ hardware_concurrency' = hardware_concurrency
        /\ pc' = [pc EXCEPT ![q] = "call"]
        /\ cpu_count' = [cpu_count EXCEPT ![q] = passed_on(p)]
    BY <2>1, <2>2 DEF Begins
  <2>4. passed_on(p) \in 0 .. MaxCpu
    <3>1. passed_on(p) \in {cpu_count[p], 1}
      BY DEF passed_on
    <3>2. 1 \in 0 .. MaxCpu /\ cpu_count[p] \in 0 .. MaxCpu
      BY <1>1
    <3> QED BY <3>1, <3>2
  <2> QED BY <1>1, <1>2, <1>3, <2>2, <2>3, <2>4 DEF TypeOK
<1>5. CASE \E to \in {"members", "unwind", "hash", "mix", "ok", "threw"} :
              GoesOn(p, to)
  <2>1. PICK to \in {"members", "unwind", "hash", "mix", "ok", "threw"} :
              GoesOn(p, to)
    BY <1>5
  <2>2. /\ object' = object /\ hardware_concurrency' = hardware_concurrency
        /\ pc' = [pc EXCEPT ![p] = to] /\ cpu_count' = cpu_count
    BY <2>1 DEF GoesOn
  <2> QED BY <1>1, <1>2, <1>3, <2>1, <2>2 DEF TypeOK, Finished
<1> QED BY <1>4, <1>5, StepMoves

(* A part stays the part of one that waits for it; what a step changes it  *)
(* changes at one call.                                                    *)
LEMMA StepCalled ==
    ASSUME IInv, NEW p \in Paths(object), Step(p) \/ Throws(p),
           NEW q \in Paths(object), q # <<>>
    PROVE  Called(q)'
<1> USE DEF Finished, Active
<1> DEFINE f == Front(q)
<1>1. /\ TypeOK /\ object \in Objects /\ DOMAIN pc = Paths(object)
      /\ DOMAIN cpu_count = Paths(object) /\ Called(q)
  BY DEF IInv, TypeOK
<1>2. f \in Paths(object) /\ f # q /\ q \in Parts(f)
  <2>1. Len(f) = Len(q) - 1 /\ Len(q) \in Nat \ {0}
    BY PartOfAbove
  <2> QED BY <2>1, PartOfAbove
<1> HIDE DEF f
<1>3. Called(q) <=>
        (pc[q] # "idle" => /\ pc[f] \notin {"idle", "call"}
                           /\ cpu_count[q] = passed_on(f)
                           /\ Active(q) => pc[f] \in {"members", "unwind"})
  BY DEF Called, f
<1>4. Called(q)' <=>
        (pc'[q] # "idle" => /\ pc'[f] \notin {"idle", "call"}
                            /\ cpu_count'[q] = passed_on(f)'
                            /\ Active(q)' => pc'[f] \in {"members", "unwind"})
  BY DEF Called, f
<1>5. ASSUME NEW b \in Parts(p), Begins(b) PROVE Called(q)'
  <2>1. /\ b \in Paths(object) /\ object' = object
        /\ pc[b] = "idle" /\ pc' = [pc EXCEPT ![b] = "call"]
        /\ pc[Front(b)] \in {"members", "unwind"}
        /\ cpu_count' = [cpu_count EXCEPT ![b] = passed_on(Front(b))]
    BY <1>1, <1>5, PartsBelow DEF Begins
  <2>2. CASE b = f
    <3>1. pc'[q] = pc[q] /\ pc[q] = "idle"
      BY <1>1, <1>2, <1>3, <2>1, <2>2
    <3> QED BY <1>4, <3>1
  <2>3. CASE b # f
    <3>1. pc'[f] = pc[f] /\ cpu_count'[f] = cpu_count[f]
      BY <1>1, <1>2, <2>1, <2>3
    <3>2. passed_on(f)' = passed_on(f)
      BY <2>1, <3>1 DEF passed_on, At
    <3>3. CASE b = q
      <4>1. Front(b) = f
        BY <3>3 DEF f
      <4> QED BY <1>1, <1>2, <1>4, <2>1, <3>1, <3>2, <3>3, <4>1
    <3>4. CASE b # q
      <4>1. pc'[q] = pc[q] /\ cpu_count'[q] = cpu_count[q]
        BY <1>1, <1>2, <2>1, <3>4
      <4> QED BY <1>1, <1>3, <1>4, <3>1, <3>2, <4>1
    <3> QED BY <3>3, <3>4
  <2> QED BY <2>2, <2>3
<1>6. ASSUME NEW to \in {"members", "unwind", "hash", "mix", "ok", "threw"},
             GoesOn(p, to)
      PROVE  Called(q)'
  <2>1. /\ pc' = [pc EXCEPT ![p] = to] /\ object' = object
        /\ cpu_count' = cpu_count
    BY <1>6 DEF GoesOn
  <2>2. passed_on(f)' = passed_on(f)
    BY <2>1 DEF passed_on, At
  <2>3. CASE p = q
    <3>1. pc'[f] = pc[f] /\ pc[q] # "idle" /\ Active(q)
      BY <1>1, <1>2, <1>6, <2>1, <2>3 DEF GoesOn
    <3> QED BY <1>1, <1>3, <1>4, <2>1, <2>2, <3>1
  <2>4. CASE p = f
    <3>1. pc'[q] = pc[q] /\ pc'[f] = to
      BY <1>1, <1>2, <2>1, <2>4
    <3>2. ASSUME pc[q] # "idle", Active(q) PROVE to \in {"members", "unwind"}
      <4>1. pc[f] \in {"members", "unwind"}
        BY <1>1, <1>3, <3>2
      <4> QED BY <1>2, <1>6, <2>4, <3>2, <4>1 DEF GoesOn
    <3> QED BY <1>1, <1>3, <1>4, <2>1, <2>2, <3>1, <3>2
  <2>5. CASE p # q /\ p # f
    <3>1. pc'[q] = pc[q] /\ pc'[f] = pc[f]
      BY <1>1, <1>2, <2>1, <2>5
    <3> QED BY <1>1, <1>3, <1>4, <2>1, <2>2, <3>1
  <2> QED BY <2>3, <2>4, <2>5
<1> QED BY <1>5, <1>6, StepMoves

(* A container still hashes one member at a time.                          *)
LEMMA StepOneAtATime ==
    ASSUME IInv, NEW p \in Paths(object), Step(p) \/ Throws(p),
           NEW c \in Paths(object)
    PROVE  OneAtATime(c)'
<1> USE DEF Finished, Active
<1>1. /\ object \in Objects /\ DOMAIN pc = Paths(object) /\ OneAtATime(c)
  BY DEF IInv, TypeOK
<1>2. ASSUME object' = object, At(c).kind = "container",
             NEW q \in Parts(c), NEW r \in Parts(c), Active(q)', Active(r)',
             \A x \in Parts(c) : Active(x)' => Active(x)
      PROVE  q = r
  <2>1. Active(q) /\ Active(r)
    BY <1>2
  <2> QED BY <1>1, <1>2, <2>1 DEF OneAtATime
<1>3. ASSUME NEW b \in Parts(p), Begins(b) PROVE OneAtATime(c)'
  <2>1. /\ b \in Paths(object) /\ Front(b) = p /\ object' = object
        /\ pc' = [pc EXCEPT ![b] = "call"]
        /\ At(p).kind = "container" => \A r \in Parts(p) : ~Active(r)
    BY <1>1, <1>3, PartsBelow DEF Begins
  <2> SUFFICES ASSUME At(c).kind = "container",
                      NEW q \in Parts(c), NEW r \in Parts(c),
                      Active(q)', Active(r)'
               PROVE  q = r
    BY <2>1, Unchanging DEF OneAtATime
  <2>2. \A x \in Parts(c) : x \in Paths(object) /\ Front(x) = c
    BY <1>1, PartsBelow
  <2>3. CASE c = p
    <3>1. \A x \in Parts(c) : x # b => ~Active(x)'
      BY <1>1, <2>1, <2>2, <2>3
    <3> QED BY <3>1
  <2>4. CASE c # p
    <3>1. \A x \in Parts(c) : Active(x)' => Active(x)
      BY <1>1, <2>1, <2>2, <2>4
    <3> QED BY <1>2, <2>1, <3>1
  <2> QED BY <2>3, <2>4
<1>4. ASSUME NEW to \in {"members", "unwind", "hash", "mix", "ok", "threw"},
             GoesOn(p, to)
      PROVE  OneAtATime(c)'
  <2>1. /\ pc' = [pc EXCEPT ![p] = to] /\ object' = object /\ Active(p)
    BY <1>4 DEF GoesOn
  <2> SUFFICES ASSUME At(c).kind = "container",
                      NEW q \in Parts(c), NEW r \in Parts(c),
                      Active(q)', Active(r)'
               PROVE  q = r
    BY <2>1, Unchanging DEF OneAtATime
  <2>2. \A x \in Parts(c) : x \in Paths(object)
    BY <1>1, PartsBelow
  <2>3. \A x \in Parts(c) : Active(x)' => Active(x)
    BY <1>1, <2>1, <2>2
  <2> QED BY <1>2, <2>1, <2>3
<1> QED BY <1>3, <1>4, StepMoves

(* Places still agree with what is there.                                  *)
LEMMA StepPlaces ==
    ASSUME IInv, NEW p \in Paths(object), Step(p) \/ Throws(p),
           NEW q \in Paths(object)
    PROVE  Places(q)' /\ Complete(q)'
<1>1. /\ object \in Objects /\ DOMAIN pc = Paths(object)
      /\ Places(q) /\ Complete(q)
  BY DEF IInv, TypeOK
<1>2. \A x \in Parts(q) : x \in Paths(object) /\ Front(x) = q /\ Composite(At(q))
  BY <1>1, PartsBelow
<1>3. ASSUME NEW b \in Parts(p), Begins(b) PROVE Places(q)' /\ Complete(q)'
  <2>1. /\ b \in Paths(object) /\ Front(b) = p /\ object' = object
        /\ pc' = [pc EXCEPT ![b] = "call"]
        /\ pc[p] \in {"members", "unwind"} /\ pc[b] = "idle"
    BY <1>1, <1>3, PartsBelow DEF Begins
  <2>2. pc'[q] = pc[q] \/ pc'[q] = "call"
    BY <1>1, <2>1
  <2>3. Places(q)'
    BY <1>1, <2>1, <2>2, Unchanging DEF Places
  <2>4. Complete(q)'
    <3> SUFFICES ASSUME pc'[q] \in {"hash", "mix", "ok"}, NEW x \in Parts(q)
                 PROVE  pc'[x] = "ok"
      BY <2>1, Unchanging DEF Complete
    <3>1. pc[q] \in {"hash", "mix", "ok"} /\ pc[x] = "ok"
      BY <1>1, <2>2 DEF Complete
    <3> QED BY <1>1, <1>2, <2>1, <3>1
  <2> QED BY <2>3, <2>4
<1>4. ASSUME NEW to \in {"members", "unwind", "hash", "mix", "ok", "threw"},
             GoesOn(p, to)
      PROVE  Places(q)' /\ Complete(q)'
  <2>1. /\ pc' = [pc EXCEPT ![p] = to] /\ object' = object
        /\ pc[p] \in {"call", "members", "unwind", "hash", "mix"}
    BY <1>4 DEF GoesOn
  <2>2. Places(p)
    BY DEF IInv, TypeOK
  <2>3. Places(q)'
    <3>1. /\ to \in {"members", "unwind"} => Composite(At(p))
          /\ to = "hash" => At(p).kind # "basic"
      BY <1>4, <2>2 DEF GoesOn, Places, Composite
    <3>2. pc'[q] = IF q = p THEN to ELSE pc[q]
      BY <1>1, <2>1
    <3> QED BY <1>1, <2>1, <3>1, <3>2, Unchanging DEF Places
  <2>4. Complete(q)'
    <3> SUFFICES ASSUME pc'[q] \in {"hash", "mix", "ok"}, NEW x \in Parts(q)
                 PROVE  pc'[x] = "ok"
      BY <2>1, Unchanging DEF Complete
    <3>1. pc[x] = "ok"
      <4>1. CASE q = p
        <5>1. pc'[q] = to
          BY <1>1, <2>1, <4>1
        <5> QED BY <1>1, <1>2, <1>4, <4>1, <5>1 DEF GoesOn, Complete, Composite
      <4>2. CASE q # p
        BY <1>1, <2>1, <4>2 DEF Complete
      <4> QED BY <4>1, <4>2
    <3>2. x # p
      BY <2>1, <3>1
    <3> QED BY <1>1, <1>2, <2>1, <3>1, <3>2
  <2> QED BY <2>3, <2>4
<1> QED BY <1>3, <1>4, StepMoves

(* Something has failed exactly when an exception is on its way.           *)
LEMMA StepFailed ==
    ASSUME IInv, NEW p \in Paths(object), Step(p) \/ Throws(p)
    PROVE  /\ (faults > 0 <=> \E q \in DOMAIN pc : Failed(q))'
           /\ pc'[<<>>] # "idle"
<1>1. /\ object \in Objects /\ DOMAIN pc = Paths(object) /\ faults \in Nat
      /\ (faults > 0 <=> \E q \in Paths(object) : Failed(q))
      /\ pc[<<>>] # "idle"
  BY ObjectAssumption DEF IInv, TypeOK
<1>2. ASSUME NEW b \in Parts(p), Begins(b)
      PROVE  /\ (faults > 0 <=> \E q \in DOMAIN pc : Failed(q))'
             /\ pc'[<<>>] # "idle"
  <2>1. /\ b \in Paths(object) /\ faults' = faults /\ b # <<>>
        /\ pc[b] = "idle" /\ pc' = [pc EXCEPT ![b] = "call"]
    BY <1>1, <1>2, PartsBelow DEF Begins
  <2>2. \A q \in Paths(object) : Failed(q)' <=> Failed(q)
    BY <1>1, <2>1 DEF Failed
  <2>3. DOMAIN pc' = Paths(object)
    BY <1>1, <2>1
  <2> QED BY <1>1, <2>1, <2>2, <2>3
<1>3. ASSUME NEW to \in {"members", "unwind", "hash", "mix", "ok", "threw"},
             GoesOn(p, to)
      PROVE  /\ (faults > 0 <=> \E q \in DOMAIN pc : Failed(q))'
             /\ pc'[<<>>] # "idle"
  <2>1. /\ pc' = [pc EXCEPT ![p] = to]
        /\ pc[p] \in {"unwind", "threw"} => to \in {"unwind", "threw"}
        /\ \/ /\ faults' = faults
              /\ to \in {"unwind", "threw"} => \E q \in Paths(object) : Failed(q)
           \/ faults' = faults + 1 /\ to \in {"unwind", "threw"}
    BY <1>3 DEF GoesOn
  <2>2. DOMAIN pc' = Paths(object)
    BY <1>1, <2>1
  <2>3. /\ Failed(p)' <=> to \in {"unwind", "threw"}
        /\ \A q \in Paths(object) : q # p => (Failed(q)' <=> Failed(q))
    BY <1>1, <2>1 DEF Failed
  <2>4. Failed(p) => to \in {"unwind", "threw"}
    BY <2>1 DEF Failed
  <2>5. pc'[<<>>] # "idle"
    BY <1>1, <2>1, EmptyPath
  <2>6. CASE to \in {"unwind", "threw"}
    <3>1. faults' > 0
      BY <1>1, <2>1, <2>6
    <3> QED BY <2>2, <2>3, <2>5, <2>6, <3>1
  <2>7. CASE to \notin {"unwind", "threw"}
    <3>1. faults' = faults /\ \A q \in Paths(object) : Failed(q)' <=> Failed(q)
      BY <2>1, <2>3, <2>4, <2>7
    <3> QED BY <1>1, <2>2, <2>5, <3>1
  <2> QED BY <2>6, <2>7
<1> QED BY <1>2, <1>3, StepMoves

(* What a step writes: the result of its call, or zeroes for its parts.    *)
LEMMA StepWrites ==
    ASSUME IInv, NEW p \in Paths(object), Step(p) \/ Throws(p),
           NEW q \in Paths(object), q # p
    PROVE  /\ \/ result'[q] = result[q]
              \/ result'[q] = ZeroChunk /\ q \in Parts(p) /\ pc[p] = "call"
           /\ pc'[p] = "members" /\ pc[p] = "call" /\ q \in Parts(p)
                => result'[q] = ZeroChunk
<1>1. DOMAIN result = Paths(object) /\ DOMAIN pc = Paths(object)
  BY DEF IInv, TypeOK
<1>2. CASE EnterComposite(p)
  <2>1. result' = [x \in DOMAIN result |-> IF x \in Parts(p) THEN ZeroChunk
                                                            ELSE result[x]]
        /\ pc[p] = "call"
    BY <1>2 DEF EnterComposite
  <2> QED BY <1>1, <2>1
<1>3. CASE Basic(p) \/ HashVector(p) \/ mix_in_length(p)
  <2>1. (\E chunk : WriteResult(p, chunk)) /\ (pc'[p] \in {"ok", "mix"})
    BY <1>1, <1>3 DEF Basic, HashVector, mix_in_length, Goto
  <2> QED BY <1>1, <2>1 DEF WriteResult
<1>4. CASE \/ Enter(p) \/ Gathered(p) \/ PartThrew(p) \/ Unwind(p)
           \/ HashUndefined(p) \/ Throws(p)
  <2>1. result' = result /\ pc'[p] \in {"hash", "unwind", "threw", "undefined"}
    BY <1>1, <1>4 DEF Enter, Gathered, PartThrew, Unwind, HashUndefined, Throws,
                      Goto
  <2> QED BY <2>1
<1>5. CASE \E b \in Parts(p) : Start(p, b)
  <2>1. PICK b \in Parts(p) : Start(p, b)
    BY <1>5
  <2>2. result' = result /\ pc[p] \in {"members", "unwind"}
    BY <2>1 DEF Start
  <2> QED BY <2>2
<1> QED BY <1>2, <1>3, <1>4, <1>5 DEF Step

(* Chunks not written yet stay zero.                                       *)
LEMMA StepZeroed ==
    ASSUME IInv, NEW p \in Paths(object), Step(p) \/ Throws(p),
           NEW q \in Paths(object)
    PROVE  Zeroed(q)'
<1>1. /\ object \in Objects /\ DOMAIN pc = Paths(object) /\ Zeroed(q)
  BY DEF IInv, TypeOK
<1> DEFINE f == Front(q)
<1>2. q # <<>> => f \in Paths(object) /\ f # q /\ q \in Parts(f)
  <2> SUFFICES ASSUME q # <<>> PROVE f \in Paths(object) /\ f # q /\ q \in Parts(f)
    OBVIOUS
  <2>1. Len(f) = Len(q) - 1 /\ Len(q) \in Nat \ {0}
    BY PartOfAbove
  <2> QED BY <2>1, PartOfAbove
<1> HIDE DEF f
<1>3. Zeroed(q) <=>
        ((pc[q] = "call" \/ (q # <<>> /\ pc[q] = "idle"
                                /\ pc[f] \in {"members", "unwind"}))
            => result[q] = ZeroChunk)
  BY DEF Zeroed, f
<1>4. Zeroed(q)' <=>
        ((pc'[q] = "call" \/ (q # <<>> /\ pc'[q] = "idle"
                                /\ pc'[f] \in {"members", "unwind"}))
            => result'[q] = ZeroChunk)
  BY DEF Zeroed, f
<1>5. ASSUME NEW b \in Parts(p), Begins(b) PROVE Zeroed(q)'
  <2>1. /\ b \in Paths(object) /\ result' = result /\ pc[b] = "idle"
        /\ pc' = [pc EXCEPT ![b] = "call"] /\ b # <<>>
        /\ pc[Front(b)] \in {"members", "unwind"}
    BY <1>1, <1>5, PartsBelow DEF Begins
  <2>2. CASE q = b
    <3>1. result[q] = ZeroChunk
      BY <1>3, <1>1, <2>1, <2>2 DEF f
    <3> QED BY <1>4, <2>1, <3>1
  <2>3. CASE q # b
    <3>1. pc'[q] = pc[q]
      BY <1>1, <2>1, <2>3
    <3>2. q # <<>> => pc'[f] = pc[f] \/ pc'[f] = "call"
      BY <1>1, <1>2, <2>1
    <3> QED BY <1>1, <1>3, <1>4, <2>1, <3>1, <3>2
  <2> QED BY <2>2, <2>3
<1>6. ASSUME NEW to \in {"members", "unwind", "hash", "mix", "ok", "threw"},
             GoesOn(p, to)
      PROVE  Zeroed(q)'
  <2>1. pc' = [pc EXCEPT ![p] = to] /\ to \notin {"idle", "call"}
    BY <1>6 DEF GoesOn
  <2>2. CASE q = p
    <3>1. pc'[q] = to
      BY <1>1, <2>1, <2>2
    <3> QED BY <1>4, <2>1, <3>1
  <2>3. CASE q # p
    <3>1. pc'[q] = pc[q]
      BY <1>1, <2>1, <2>3
    <3>2. result'[q] = result[q] \/ result'[q] = ZeroChunk
      BY <2>3, StepWrites
    <3>3. CASE q # <<>> /\ f = p
      <4>1. /\ pc'[p] = to /\ q \in Parts(p)
        BY <1>1, <1>2, <2>1, <3>3
      <4>2. to \in {"members", "unwind"} =>
              pc[p] = "members" \/ (to = "members" /\ pc[p] = "call")
              \/ (to = "unwind" /\ pc[p] = "members")
        BY <1>6 DEF GoesOn
      <4>3. to = "members" /\ pc[p] = "call" => result'[q] = ZeroChunk
        BY <2>3, <4>1, StepWrites
      <4> QED BY <1>1, <1>3, <1>4, <3>1, <3>2, <3>3, <4>1, <4>2, <4>3
    <3>4. CASE ~(q # <<>> /\ f = p)
      <4>1. q # <<>> => pc'[f] = pc[f]
        BY <1>1, <1>2, <2>1, <3>4
      <4> QED BY <1>1, <1>3, <1>4, <3>1, <3>2, <4>1
    <3> QED BY <3>3, <3>4
  <2> QED BY <2>2, <2>3
<1> QED BY <1>5, <1>6, StepMoves

(* What is answered is the root of the part.                               *)
LEMMA StepCorrect ==
    ASSUME IInv, NEW p \in Paths(object), Step(p) \/ Throws(p),
           NEW q \in Paths(object)
    PROVE  Correct(q)'
<1>1. /\ TypeOK /\ object \in Objects /\ DOMAIN pc = Paths(object)
      /\ DOMAIN result = Paths(object) /\ Correct(q)
  BY DEF IInv, TypeOK
<1>2. object' = object
  BY DEF Step, Throws, Basic, Enter, EnterComposite, Start, Gathered, PartThrew,
         Unwind, HashVector, HashUndefined, mix_in_length
<1>3. RootAt(q)' = RootAt(q) /\ At(q)' = At(q)
  BY <1>2 DEF RootAt, At
<1>4. Correct(q)' <=>
        /\ pc'[q] = "ok" => result'[q] = RootAt(q)
        /\ pc'[q] = "mix" => /\ IsList(At(q))
                             /\ Hash(result'[q], Length(length(At(q)))) = RootAt(q)
  BY <1>3 DEF Correct
<1>5. CASE q # p
  <2> SUFFICES ASSUME pc'[q] \in {"ok", "mix"}
               PROVE  pc'[q] = pc[q] /\ result'[q] = result[q]
    BY <1>1, <1>4 DEF Correct
  <2>1. pc'[q] = pc[q]
    <3>1. CASE \E b \in Parts(p) : Begins(b)
      <4>1. PICK b \in Parts(p) : Begins(b)
        BY <3>1
      <4>2. pc' = [pc EXCEPT ![b] = "call"]
        BY <4>1 DEF Begins
      <4> QED BY <1>1, <4>2
    <3>2. CASE \E to \in {"members", "unwind", "hash", "mix", "ok", "threw"} :
                 GoesOn(p, to)
      BY <1>1, <1>5, <3>2 DEF GoesOn
    <3> QED BY <3>1, <3>2, StepMoves
  <2>2. ~(q \in Parts(p) /\ pc[p] = "call")
    <3> SUFFICES ASSUME q \in Parts(p), pc[p] = "call" PROVE FALSE
      OBVIOUS
    <3>1. q # <<>> /\ Front(q) = p
      BY <1>1, PartsBelow
    <3>2. Called(q)
      BY <1>1, <3>1 DEF IInv
    <3> QED BY <2>1, <3>1, <3>2 DEF Called
  <2> QED BY <1>5, <2>1, <2>2, StepWrites
<1>6. CASE q = p /\ pc'[q] \in {"ok", "mix"}
  <2>1. CASE Basic(p)
    <3>1. /\ pc[p] = "call" /\ At(p).kind = "basic" /\ pc'[p] = "ok"
          /\ WriteResult(p, IF result[p] = ZeroChunk THEN Value(At(p).id, 0, 1)
                                                     ELSE Garbage)
      BY <1>1, <2>1 DEF Basic, Goto
    <3>2. result[p] = ZeroChunk
      BY <1>1, <3>1 DEF IInv, Zeroed
    <3>3. result'[p] = Value(At(p).id, 0, 1)
      BY <1>1, <3>1, <3>2 DEF WriteResult
    <3>4. RootAt(p) = Value(At(p).id, 0, 1)
      BY <1>1, <3>1, RootOfBasic
    <3> QED BY <1>4, <1>6, <3>1, <3>3, <3>4
  <2>2. CASE HashVector(p)
    <3>1. /\ pc[p] = "hash" /\ result' = [result EXCEPT ![p] = Body(p)]
          /\ pc'[p] = IF IsList(At(p)) THEN "mix" ELSE "ok"
      BY <1>1, <2>2 DEF HashVector, WriteResult, Goto, Body
    <3>2. At(p).kind # "basic" /\ \A x \in Parts(p) : pc[x] = "ok"
      BY <1>1, <3>1 DEF IInv, Places, Complete
    <3>3. \A x \in Parts(p) : result[x] = RootAt(x)
      <4> SUFFICES ASSUME NEW x \in Parts(p) PROVE result[x] = RootAt(x)
        OBVIOUS
      <4>1. x \in Paths(object)
        BY <1>1, PartsBelow
      <4> QED BY <1>1, <3>2, <4>1 DEF IInv, Correct
    <3>4. RootAt(p) = IF IsList(At(p)) THEN Hash(Body(p), Length(length(At(p))))
                                       ELSE Body(p)
      BY <1>1, <3>2, <3>3, RootOfVector
    <3>5. result'[p] = Body(p)
      BY <1>1, <3>1
    <3> HIDE DEF Body
    <3> QED BY <1>4, <1>6, <3>1, <3>4, <3>5
  <2>3. CASE mix_in_length(p)
    <3>1. /\ pc[p] = "mix" /\ pc'[p] = "ok"
          /\ result'[p] = Hash(result[p], Length(length(At(p))))
      BY <1>1, <2>3 DEF mix_in_length, WriteResult, Goto
    <3>2. Hash(result[p], Length(length(At(p)))) = RootAt(p)
      BY <1>1, <1>6, <3>1 DEF Correct
    <3> QED BY <1>4, <1>6, <3>1, <3>2
  <2>4. CASE \/ Enter(p) \/ EnterComposite(p) \/ Gathered(p) \/ PartThrew(p)
             \/ Unwind(p) \/ HashUndefined(p) \/ Throws(p)
    <3>1. pc'[p] \in {"hash", "members", "unwind", "threw", "undefined"}
      BY <1>1, <2>4 DEF Enter, EnterComposite, Gathered, PartThrew, Unwind,
                        HashUndefined, Throws, Goto
    <3> QED BY <1>6, <3>1
  <2>5. CASE \E b \in Parts(p) : Start(p, b)
    <3>1. PICK b \in Parts(p) : Start(p, b)
      BY <2>5
    <3>2. /\ pc' = [pc EXCEPT ![b] = "call"] /\ pc[p] \in {"members", "unwind"}
      BY <3>1 DEF Start, Goto
    <3> QED BY <1>1, <1>6, <3>2
  <2> QED BY <2>1, <2>2, <2>3, <2>4, <2>5 DEF Step
<1>7. CASE q = p /\ pc'[q] \notin {"ok", "mix"}
  BY <1>4, <1>7
<1> QED BY <1>5, <1>6, <1>7

-----------------------------------------------------------------------------
(* The invariant.                                                          *)

(* The call has just been made.                                            *)
LEMMA InitInvariant == Init => IInv
<1> SUFFICES ASSUME Init PROVE IInv
  OBVIOUS
<1>1. /\ object \in Objects /\ hardware_concurrency \in Cores /\ faults = 0
      /\ pc = [p \in Paths(object) |-> IF p = <<>> THEN "call" ELSE "idle"]
      /\ result = [p \in Paths(object) |-> IF p = <<>> THEN ZeroChunk ELSE Garbage]
  BY DEF Init
<1>2. PICK n \in 0 .. MaxCpu :
        cpu_count = [p \in Paths(object) |-> IF p = <<>> THEN n ELSE 0]
  BY DEF Init
<1>3. MaxCpu \in Nat \ {0} /\ MaxFaults \in Nat /\ <<>> \in Paths(object)
  BY EmptyPath, ObjectAssumption
<1>4. TypeOK
  BY <1>1, <1>2, <1>3 DEF TypeOK, Finished
<1>5. \A p \in Paths(object) : pc[p] = "call" \/ (pc[p] = "idle" /\ p # <<>>)
  BY <1>1
<1>6. ASSUME NEW p \in Paths(object)
      PROVE  /\ Places(p) /\ OneAtATime(p) /\ Zeroed(p) /\ Complete(p) /\ Correct(p)
             /\ p # <<>> => Called(p)
  <2>1. Places(p) /\ Complete(p) /\ Correct(p)
    BY <1>5 DEF Places, Complete, Correct
  <2>2. p # <<>> => pc[p] = "idle" /\ ~Active(p)
    BY <1>1 DEF Active
  <2>3. p # <<>> => Called(p)
    BY <2>2 DEF Called
  <2>4. Zeroed(p)
    <3>1. CASE p = <<>>
      BY <1>1, <3>1 DEF Zeroed
    <3>2. CASE p # <<>>
      <4>1. Front(p) \in Paths(object)
        BY <3>2, PartOfAbove
      <4>2. pc[Front(p)] \notin {"members", "unwind"}
        BY <1>5, <4>1
      <4> QED BY <2>2, <3>2, <4>2 DEF Zeroed
    <3> QED BY <3>1, <3>2
  <2>5. OneAtATime(p)
    <3> SUFFICES ASSUME NEW q \in Parts(p) PROVE ~Active(q)
      BY DEF OneAtATime
    <3>1. q \in Paths(object) /\ q # <<>>
      BY <1>1, PartsBelow
    <3> QED BY <1>1, <3>1 DEF Active
  <2> QED BY <2>1, <2>3, <2>4, <2>5
<1>7. DOMAIN pc = Paths(object) /\ pc[<<>>] # "idle"
  BY <1>1, <1>3
<1>8. ~(faults > 0) /\ \A p \in Paths(object) : ~Failed(p)
  BY <1>1, <1>5 DEF Failed
<1> QED BY <1>4, <1>6, <1>7, <1>8 DEF IInv

(* The invariant is inductive.                                             *)
LEMMA StepInvariant == IInv /\ [Next]_vars => IInv'
<1> SUFFICES ASSUME IInv, [Next]_vars PROVE IInv'
  OBVIOUS
<1>1. CASE UNCHANGED vars
  BY <1>1 DEF vars, IInv, TypeOK, Places, OneAtATime, Zeroed, Complete, Correct,
              Called, Failed, At, Parts, Active, RootAt, passed_on
<1>2. ASSUME NEW p \in Paths(object), Step(p) \/ Throws(p) PROVE IInv'
  <2>1. TypeOK'
    BY <1>2, StepTyped
  <2>2. object' = object
    BY <1>2 DEF Step, Throws, Basic, Enter, EnterComposite, Start, Gathered,
         PartThrew, Unwind, HashVector, HashUndefined, mix_in_length
  <2>3. DOMAIN pc' = Paths(object)
    BY <2>1, <2>2, Unchanging DEF TypeOK
  <2>4. ASSUME NEW q \in Paths(object)
        PROVE  /\ Places(q)' /\ OneAtATime(q)' /\ Zeroed(q)' /\ Complete(q)'
               /\ Correct(q)' /\ (q # <<>> => Called(q)')
    BY <1>2, StepPlaces, StepOneAtATime, StepZeroed, StepCorrect, StepCalled
  <2>5. /\ (faults > 0 <=> \E q \in DOMAIN pc : Failed(q))'
        /\ pc'[<<>>] # "idle"
    BY <1>2, StepFailed
  <2> QED BY <2>1, <2>3, <2>4, <2>5 DEF IInv
<1>3. DOMAIN pc = Paths(object)
  BY DEF IInv, TypeOK
<1> QED BY <1>1, <1>2, <1>3 DEF Next, Terminating

(* IInv holds in every reachable state.                                    *)
THEOREM Invariance == Spec => []IInv
BY InitInvariant, StepInvariant, PTL DEF Spec

(* Every variable keeps its type, whatever is nested in what.              *)
THEOREM TypeCorrect == Spec => []TypeOK
<1>1. IInv => TypeOK
  BY DEF IInv
<1> QED BY <1>1, Invariance, PTL

(* No call hashes a vector beyond its limit, or higher than the table.     *)
THEOREM LimitsKept == Spec => []LimitsRespected
<1>1. IInv => LimitsRespected
  BY DEF IInv, LimitsRespected, Places
<1> QED BY <1>1, Invariance, PTL

-----------------------------------------------------------------------------
(* What holds along a path.                                                *)

(* Who is at work is waited for by everyone above.                         *)
LEMMA AllWait ==
    ASSUME IInv, NEW q \in Paths(object), Active(q), NEW n \in 0 .. Len(q) - 1
    PROVE  pc[Upper(q, n)] \in {"members", "unwind"}
<1> DEFINE P(d) == pc[Upper(q, Len(q) - 1 - d)] \in {"members", "unwind"}
           S == {d \in Nat : d < Len(q) => P(d)}
<1>1. q \in Seq(Nat) /\ Len(q) \in Nat
  BY PathType, ObjectAssumption
<1>2. ASSUME NEW u \in Paths(object), u # <<>>, Active(u)
      PROVE  pc[Front(u)] \in {"members", "unwind"}
  <2>1. Called(u)
    BY <1>2 DEF IInv, TypeOK
  <2> QED BY <1>2, <2>1 DEF Called, Active
<1>3. 0 \in S
  <2> SUFFICES ASSUME 0 < Len(q) PROVE P(0)
    OBVIOUS
  <2>1. q # <<>>
    BY EmptySeq
  <2>2. Front(q) = Upper(q, Len(q) - 1)
    BY <2>1, Above
  <2> QED BY <1>1, <1>2, <2>1, <2>2
<1>4. ASSUME NEW d \in Nat, d \in S PROVE d + 1 \in S
  <2> SUFFICES ASSUME d + 1 < Len(q) PROVE P(d + 1)
    OBVIOUS
  <2> DEFINE m == Len(q) - 1 - d
             u == Upper(q, m)
  <2>1. m \in 1 .. Len(q) /\ m - 1 = Len(q) - 1 - (d + 1) /\ m \in 0 .. Len(q)
    BY <1>1
  <2>2. pc[u] \in {"members", "unwind"}
    BY <1>1, <1>4
  <2> HIDE DEF m
  <2>3. u \in Paths(object) /\ Len(u) = m
    BY <1>1, <2>1, UpperPath, UpperType
  <2>4. u # <<>> /\ Active(u)
    BY <2>1, <2>2, <2>3, EmptySeq DEF Active, Finished
  <2> HIDE DEF u
  <2>5. pc[Front(u)] \in {"members", "unwind"} /\ Front(u) = Upper(u, m - 1)
    BY <1>2, <2>3, <2>4, Above
  <2>6. Upper(u, m - 1) = Upper(q, m - 1)
    BY <1>1, <2>1, UpperUpper DEF u
  <2> QED BY <2>1, <2>5, <2>6
<1>5. Nat \subseteq S
  <2> HIDE DEF S
  <2> QED BY <1>3, <1>4, Levels!SetInduction
<1>6. Len(q) - 1 - n \in Nat /\ Len(q) - 1 - n < Len(q)
  BY <1>1
<1>7. P(Len(q) - 1 - n)
  BY <1>5, <1>6
<1>8. Len(q) - 1 - (Len(q) - 1 - n) = n
  BY <1>1
<1> QED BY <1>7, <1>8

(* A call that has ended left nothing running below it.                    *)
THEOREM NothingOutlives == Spec => []NothingLeftBelow
<1>1. IInv => NothingLeftBelow
  <2> SUFFICES ASSUME IInv, NEW p \in Paths(object), NEW q \in Paths(object),
                      pc[p] \in Finished, IsStrictPrefix(p, q), Active(q)
               PROVE  FALSE
    BY DEF NothingLeftBelow, IInv, TypeOK
  <2>1. /\ p \in Seq(Nat) /\ q \in Seq(Nat) /\ Len(p) \in Nat /\ Len(q) \in Nat
    BY PathType, ObjectAssumption
  <2>2. /\ Len(p) <= Len(q) /\ p # q /\ Upper(p, Len(p)) = Upper(q, Len(p))
    BY DEF IsStrictPrefix, IsPrefix, Upper
  <2>3. Upper(p, Len(p)) = p /\ Upper(q, Len(q)) = q
    BY <2>1, UpperAll
  <2>4. Len(p) # Len(q)
    BY <2>2, <2>3
  <2>5. Len(p) \in 0 .. Len(q) - 1
    BY <2>1, <2>2, <2>4
  <2>6. pc[p] \in {"members", "unwind"}
    BY <2>2, <2>3, <2>5, AllWait
  <2> QED BY <2>6 DEF Finished
<1> QED BY <1>1, Invariance, PTL

-----------------------------------------------------------------------------
(* Threads.                                                                *)

(* A call that was not told to keep to one cpu is below containers only,   *)
(* and was told what the outermost was.                                    *)
LEMMA BelowContainers ==
    ASSUME IInv, NEW q \in Paths(object), Active(q), cpu_count[q] # 1
    PROVE  /\ cpu_count[<<>>] = cpu_count[q]
           /\ \A n \in 0 .. Len(q) - 1 : At(Upper(q, n)).kind = "container"
<1> DEFINE P(d) == /\ cpu_count[Upper(q, Len(q) - d)] = cpu_count[q]
                   /\ d > 0 => At(Upper(q, Len(q) - d)).kind = "container"
           S == {d \in Nat : d <= Len(q) => P(d)}
<1>1. q \in Seq(Nat) /\ Len(q) \in Nat
  BY PathType, ObjectAssumption
<1>2. Upper(q, Len(q)) = q /\ Upper(q, 0) = <<>>
  BY <1>1, UpperAll
<1>3. 0 \in S
  BY <1>1, <1>2
<1>4. ASSUME NEW d \in Nat, d \in S PROVE d + 1 \in S
  <2> SUFFICES ASSUME d + 1 <= Len(q) PROVE P(d + 1)
    OBVIOUS
  <2> DEFINE m == Len(q) - d
             u == Upper(q, m)
  <2>1. m \in 1 .. Len(q) /\ m - 1 = Len(q) - (d + 1) /\ m \in 0 .. Len(q)
    BY <1>1
  <2>2. cpu_count[u] = cpu_count[q]
    BY <1>1, <1>4
  <2> HIDE DEF m
  <2>3. pc[u] # "idle"
    <3>1. CASE m = Len(q)
      BY <1>2, <3>1 DEF Active
    <3>2. CASE m # Len(q)
      <4>1. m \in 0 .. Len(q) - 1
        BY <1>1, <2>1, <3>2
      <4> QED BY <4>1, AllWait
    <3> QED BY <3>1, <3>2
  <2>4. u \in Paths(object) /\ Len(u) = m
    BY <1>1, <2>1, UpperPath, UpperType
  <2>5. u # <<>>
    BY <2>1, <2>4, EmptySeq
  <2> HIDE DEF u
  <2>6. Called(u) /\ Front(u) = Upper(u, m - 1)
    BY <2>4, <2>5, Above DEF IInv, TypeOK
  <2>7. Upper(u, m - 1) = Upper(q, m - 1)
    BY <1>1, <2>1, UpperUpper DEF u
  <2>8. cpu_count[u] = passed_on(Upper(q, m - 1))
    BY <2>3, <2>6, <2>7 DEF Called
  <2>9. /\ At(Upper(q, m - 1)).kind = "container"
        /\ cpu_count[Upper(q, m - 1)] = cpu_count[q]
    BY <2>2, <2>8 DEF passed_on
  <2> QED BY <2>1, <2>9
<1>5. Nat \subseteq S
  <2> HIDE DEF S
  <2> QED BY <1>3, <1>4, Levels!SetInduction
<1>6. cpu_count[<<>>] = cpu_count[q]
  <2>1. P(Len(q))
    BY <1>1, <1>5
  <2>2. Len(q) - Len(q) = 0
    BY <1>1
  <2> QED BY <1>2, <2>1, <2>2
<1>7. ASSUME NEW n \in 0 .. Len(q) - 1
      PROVE  At(Upper(q, n)).kind = "container"
  <2>1. /\ Len(q) - n \in Nat /\ Len(q) - n <= Len(q) /\ Len(q) - n > 0
        /\ Len(q) - (Len(q) - n) = n
    BY <1>1
  <2>2. P(Len(q) - n)
    BY <1>5, <2>1
  <2> QED BY <2>1, <2>2
<1> QED BY <1>6, <1>7

(* Of two such calls one is above the other.                               *)
LEMMA OneAboveTheOther ==
    ASSUME IInv, NEW p \in Paths(object), NEW q \in Paths(object),
           Active(p), Active(q), cpu_count[p] # 1, cpu_count[q] # 1
    PROVE  \A n \in Nat : n <= Len(p) /\ n <= Len(q) => Upper(p, n) = Upper(q, n)
<1> DEFINE P(n) == n <= Len(p) /\ n <= Len(q) => Upper(p, n) = Upper(q, n)
           S == {n \in Nat : P(n)}
<1>1. /\ p \in Seq(Nat) /\ q \in Seq(Nat) /\ Len(p) \in Nat /\ Len(q) \in Nat
      /\ object \in Objects
  BY PathType, ObjectAssumption DEF IInv, TypeOK
<1>2. 0 \in S
  BY <1>1, UpperAll
<1>3. ASSUME NEW u \in Paths(object), Active(u), NEW n \in Nat, n + 1 <= Len(u)
      PROVE  Upper(u, n + 1) \in Parts(Upper(u, n)) /\ Active(Upper(u, n + 1))
  <2> DEFINE m == n + 1
             v == Upper(u, m)
  <2>0. u \in Seq(Nat) /\ Len(u) \in Nat
    BY <1>3, PathType, ObjectAssumption
  <2>1. /\ u \in Seq(Nat) /\ Len(u) \in Nat /\ m \in 0 .. Len(u)
        /\ m \in 1 .. Len(u) /\ n = m - 1 /\ m - 1 \in 0 .. m
    BY <1>3, <2>0
  <2> HIDE DEF m
  <2>2. v \in Paths(object) /\ Len(v) = m
    BY <2>1, UpperPath, UpperType
  <2>3. v # <<>>
    BY <2>1, <2>2, EmptySeq
  <2>4. Upper(v, m - 1) = Upper(u, m - 1)
    BY <2>1, UpperUpper
  <2>5. Active(v)
    <3>1. CASE m = Len(u)
      BY <1>3, <2>1, <3>1, UpperAll
    <3>2. CASE m # Len(u)
      <4>1. m \in 0 .. Len(u) - 1
        BY <2>1, <3>2
      <4>2. pc[v] \in {"members", "unwind"}
        BY <1>3, <4>1, AllWait
      <4> QED BY <4>2 DEF Active, Finished
    <3> QED BY <3>1, <3>2
  <2> HIDE DEF v
  <2>6. v \in Parts(Front(v)) /\ Front(v) = Upper(v, m - 1)
    BY <2>2, <2>3, PartOfAbove, Above
  <2> QED BY <2>1, <2>4, <2>5, <2>6 DEF v, m
<1>4. ASSUME NEW n \in Nat, n \in S PROVE n + 1 \in S
  <2> SUFFICES ASSUME n + 1 <= Len(p), n + 1 <= Len(q)
               PROVE  Upper(p, n + 1) = Upper(q, n + 1)
    OBVIOUS
  <2> DEFINE r == Upper(p, n)
  <2>1. n \in 0 .. Len(p) - 1 /\ n <= Len(q) /\ n \in 0 .. Len(p)
    BY <1>1
  <2>2. r = Upper(q, n)
    BY <1>1, <1>4, <2>1
  <2>3. r \in Paths(object) /\ At(r).kind = "container"
    BY <1>1, <2>1, UpperPath, BelowContainers
  <2>4. /\ Upper(p, n + 1) \in Parts(r) /\ Active(Upper(p, n + 1))
        /\ Upper(q, n + 1) \in Parts(r) /\ Active(Upper(q, n + 1))
    BY <1>3, <2>2
  <2>5. OneAtATime(r)
    BY <2>3 DEF IInv, TypeOK
  <2> QED BY <2>3, <2>4, <2>5 DEF OneAtATime
<1>5. Nat \subseteq S
  <2> HIDE DEF S
  <2> QED BY <1>2, <1>4, Levels!SetInduction
<1> QED BY <1>5

(* A call that has threads of its own.                                     *)
LEMMA ForkingCall ==
    ASSUME IInv, NEW p \in Paths(object), Forking(p)
    PROVE  /\ Active(p) /\ cpu_count[p] # 1 /\ cpus(p) = cpus(<<>>)
           /\ cpus(p) \in Nat /\ cpus(p) >= 2
           /\ ~(pc[p] \in {"members", "unwind"} /\ At(p).kind = "container")
<1>1. /\ cpu_count[p] \in 0 .. MaxCpu /\ hardware_concurrency \in 0 .. MaxCpu
      /\ MaxCpu \in Nat
  BY ObjectAssumption DEF IInv, TypeOK
<1>2. ~(cpus(p) < 2)
  BY DEF Forking, in_one_go
<1>3. cpus(p) \in Nat
  BY <1>1 DEF cpus
<1>4. Active(p) /\ ~(pc[p] \in {"members", "unwind"} /\ At(p).kind = "container")
  BY DEF Forking, Active, Finished
<1>5. cpu_count[p] # 1
  BY <1>2 DEF cpus
<1>6. cpu_count[<<>>] = cpu_count[p]
  BY <1>4, <1>5, BelowContainers
<1>7. cpus(p) = cpus(<<>>)
  BY <1>6 DEF cpus
<1> QED BY <1>2, <1>3, <1>4, <1>5, <1>7

(* There is one at most.                                                   *)
LEMMA OneForks ==
    ASSUME IInv, NEW p \in Paths(object), NEW q \in Paths(object),
           Forking(p), Forking(q), Len(p) <= Len(q)
    PROVE  p = q
<1>1. /\ p \in Seq(Nat) /\ q \in Seq(Nat) /\ Len(p) \in Nat /\ Len(q) \in Nat
  BY PathType, ObjectAssumption
<1>2. /\ Active(p) /\ Active(q) /\ cpu_count[p] # 1 /\ cpu_count[q] # 1
      /\ ~(pc[p] \in {"members", "unwind"} /\ At(p).kind = "container")
  BY ForkingCall
<1>3. Upper(p, Len(p)) = Upper(q, Len(p))
  BY <1>1, <1>2, OneAboveTheOther
<1>4. Upper(p, Len(p)) = p /\ Upper(q, Len(q)) = q
  BY <1>1, UpperAll
<1>5. CASE Len(p) = Len(q)
  BY <1>3, <1>4, <1>5
<1>6. CASE Len(p) # Len(q)
  <2>1. Len(p) \in 0 .. Len(q) - 1
    BY <1>1, <1>6
  <2>2. pc[p] \in {"members", "unwind"} /\ At(p).kind = "container"
    BY <1>2, <1>3, <1>4, <2>1, AllWait, BelowContainers
  <2> QED BY <1>2, <2>2
<1> QED BY <1>5, <1>6

(* All the calls inside an object together keep to the cpus of the         *)
(* outermost, though each that is passed a 0 takes all the cores.          *)
THEOREM NestedThreadsBounded == Spec => []NestedThreadBound
<1>1. IInv => NestedThreadBound
  <2> SUFFICES ASSUME IInv PROVE NestedThreadBound
    OBVIOUS
  <2>1. /\ DOMAIN pc = Paths(object) /\ <<>> \in Paths(object)
        /\ cpu_count[<<>>] \in 0 .. MaxCpu /\ hardware_concurrency \in 0 .. MaxCpu
        /\ MaxCpu \in Nat
    BY EmptyPath, ObjectAssumption DEF IInv, TypeOK
  <2>2. cpus(<<>>) \in Nat
    BY <2>1 DEF cpus
  <2>3. CASE \A p \in Paths(object) : ~Forking(p)
    <3>1. Threads = {}
      BY <2>1, <2>3 DEF Threads, Started
    <3>2. Cardinality(Threads) = 0
      BY <3>1, FS_EmptySet
    <3> QED BY <2>2, <3>2 DEF NestedThreadBound
  <2>4. CASE \E p \in Paths(object) : Forking(p)
    <3>1. PICK p \in Paths(object) : Forking(p)
      BY <2>4
    <3>2. cpus(p) = cpus(<<>>) /\ cpus(p) \in Nat /\ cpus(p) >= 2
      BY <3>1, ForkingCall
    <3>3. ASSUME NEW q \in Paths(object), Forking(q) PROVE q = p
      <4>1. Len(p) \in Nat /\ Len(q) \in Nat
        BY PathType, ObjectAssumption
      <4>2. CASE Len(p) <= Len(q)
        BY <3>1, <3>3, <4>2, OneForks
      <4>3. CASE Len(q) <= Len(p)
        BY <3>1, <3>3, <4>3, OneForks
      <4> QED BY <4>1, <4>2, <4>3
    <3> DEFINE k == cpus(<<>>) - 1
               I == 1 .. k
               f == [t \in Threads |-> t[2]]
    <3>4. ASSUME NEW t \in Threads PROVE t[1] = p /\ t[2] \in I /\ t = <<p, t[2]>>
      <4>1. PICK q \in Paths(object) : t \in {q} \X (1 .. Started(q))
        BY <2>1 DEF Threads
      <4>2. Forking(q)
        BY <4>1 DEF Started
      <4>3. q = p /\ Started(q) = k
        BY <3>2, <3>3, <4>2 DEF Started
      <4> QED BY <4>1, <4>3
    <3>5. f \in Injection(Threads, I)
      <4>1. f \in [Threads -> I]
        BY <3>4
      <4>2. ASSUME NEW s \in Threads, NEW t \in Threads, f[s] = f[t] PROVE s = t
        BY <3>4, <4>2
      <4> QED BY <4>1, <4>2 DEF Injection, IsInjective
    <3>6. k \in Int /\ k >= 1 /\ 1 \in Int
      BY <3>2
    <3> HIDE DEF k, f
    <3>7. IsFiniteSet(I) /\ Cardinality(I) = k
      <4>1. IsFiniteSet(I) /\ Cardinality(I) = IF 1 > k THEN 0 ELSE k - 1 + 1
        BY <3>6, FS_Interval
      <4> QED BY <3>6, <4>1
    <3> HIDE DEF I
    <3>8. IsFiniteSet(Threads) /\ Cardinality(Threads) <= Cardinality(I)
      BY <3>5, <3>7, FS_Injection
    <3>9. Cardinality(Threads) \in Nat
      BY <3>8, FS_CardinalityType
    <3>10. Cardinality(Threads) <= k
      BY <3>7, <3>8
    <3>11. Cardinality(Threads) + 1 <= cpus(<<>>)
      <4> DEFINE n == Cardinality(Threads)
                 m == cpus(<<>>)
      <4>1. n \in Nat /\ m \in Nat /\ n <= m - 1
        BY <2>2, <3>9, <3>10 DEF k
      <4> HIDE DEF n, m
      <4>2. n + 1 <= m
        BY <4>1
      <4> QED BY <4>2 DEF n, m
    <3>12. cpus(<<>>) # 0
      BY <3>2
    <3> QED BY <3>11, <3>12 DEF NestedThreadBound
  <2> QED BY <2>3, <2>4
<1> QED BY <1>1, Invariance, PTL

-----------------------------------------------------------------------------
(* The safety half of the refinement.                                      *)

(* While anything is at work, the outermost call has not ended.            *)
LEMMA OutermostRuns ==
    ASSUME IInv, NEW p \in Paths(object), Active(p)
    PROVE  Active(<<>>)
<1>1. p \in Seq(Nat) /\ Len(p) \in Nat
  BY PathType, ObjectAssumption
<1>2. CASE p # <<>>
  <2>1. 0 \in 0 .. Len(p) - 1
    BY <1>1, <1>2, EmptySeq
  <2>2. pc[Upper(p, 0)] \in {"members", "unwind"} /\ Upper(p, 0) = <<>>
    BY <1>1, <2>1, AllWait, UpperAll
  <2> QED BY <2>2 DEF Active, Finished
<1> QED BY <1>2

(* An answer is given only if every part gave its own.                     *)
NoneFailed == pc[<<>>] = "ok" => faults = 0

(* A call that returns has no failure behind it.                           *)
LEMMA AllAnswered == IInv => NoneFailed
<1> SUFFICES ASSUME IInv, pc[<<>>] = "ok" PROVE faults = 0
  BY DEF NoneFailed
<1>1. /\ object \in Objects /\ DOMAIN pc = Paths(object) /\ faults \in Nat
  BY ObjectAssumption DEF IInv, TypeOK
<1>2. ASSUME NEW q \in Paths(object) PROVE pc[q] = "ok"
  <2> DEFINE S == {n \in Nat : n <= Len(q) => pc[Upper(q, n)] = "ok"}
  <2>1. q \in Seq(Nat) /\ Len(q) \in Nat
    BY PathType, ObjectAssumption
  <2>2. 0 \in S
    BY <2>1, UpperAll
  <2>3. ASSUME NEW n \in Nat, n \in S PROVE n + 1 \in S
    <3> SUFFICES ASSUME n + 1 <= Len(q) PROVE pc[Upper(q, n + 1)] = "ok"
      OBVIOUS
    <3> DEFINE m == n + 1
               u == Upper(q, m)
               r == Upper(q, n)
    <3>1. /\ m \in 0 .. Len(q) /\ m \in 1 .. Len(q) /\ n = m - 1
          /\ m - 1 \in 0 .. m /\ n \in 0 .. Len(q) /\ n <= Len(q)
      BY <2>1
    <3>2. pc[r] = "ok"
      BY <2>3, <3>1
    <3> HIDE DEF m
    <3>3. u \in Paths(object) /\ Len(u) = m /\ r \in Paths(object)
      BY <2>1, <3>1, UpperPath, UpperType
    <3>4. u # <<>>
      BY <3>1, <3>3, EmptySeq
    <3>5. Upper(u, m - 1) = r
      BY <2>1, <3>1, UpperUpper
    <3> HIDE DEF u, r
    <3>6. u \in Parts(Front(u)) /\ Front(u) = Upper(u, m - 1)
      BY <3>3, <3>4, PartOfAbove, Above
    <3>7. u \in Parts(r)
      BY <3>5, <3>6
    <3>8. Complete(r)
      BY <3>3 DEF IInv, TypeOK
    <3>9. pc[u] = "ok"
      BY <3>2, <3>7, <3>8 DEF Complete
    <3> QED BY <3>9 DEF u, m
  <2>4. Nat \subseteq S
    <3> HIDE DEF S
    <3> QED BY <2>2, <2>3, Levels!SetInduction
  <2> QED BY <2>1, <2>4, UpperAll
<1>3. ~(faults > 0)
  BY <1>1, <1>2 DEF IInv, Failed
<1> QED BY <1>1, <1>3

(* The call begins as the promise does.                                    *)
LEMMA InitRefines == Init => Promise!Init
<1> SUFFICES ASSUME Init PROVE Promise!Init
  OBVIOUS
<1>1. pc[<<>>] = "call" /\ faults = 0 /\ object \in Objects
  BY EmptyPath DEF Init
<1> QED BY <1>1 DEF Promise!Init, Promise!NoRoot

(* A step of a call is a failure, a return or a throw of the promise, or   *)
(* the caller notices nothing.                                             *)
LEMMA StepRefines ==
    ASSUME IInv, IInv', NoneFailed', NEW p \in Paths(object),
           Step(p) \/ Throws(p)
    PROVE  [Promise!Next]_Promise!vars
<1> USE DEF Finished
<1>1. /\ object \in Objects /\ DOMAIN pc = Paths(object)
      /\ faults \in Nat /\ faults' \in Nat /\ <<>> \in Paths(object)
  BY EmptyPath, ObjectAssumption DEF IInv, TypeOK
<1>2. object' = object /\ faults' >= faults /\ Active(p)
  <2>1. \/ pc[p] \in {"call", "members", "unwind", "hash", "mix"}
    BY DEF Step, Throws, Basic, Enter, EnterComposite, Start, Gathered, PartThrew,
           Unwind, HashVector, HashUndefined, mix_in_length
  <2>2. object' = object /\ (faults' = faults \/ faults' = faults + 1)
    BY DEF Step, Throws, Basic, Enter, EnterComposite, Start, Gathered, PartThrew,
           Unwind, HashVector, HashUndefined, mix_in_length
  <2> QED BY <1>1, <2>1, <2>2 DEF Active
<1>3. pc[<<>>] \notin Finished
  BY <1>2, OutermostRuns DEF Active
<1>4. CASE pc'[<<>>] = "ok"
  <2>1. faults' = 0
    BY <1>4 DEF NoneFailed
  <2>2. faults = 0
    BY <1>1, <1>2, <2>1
  <2>3. result'[<<>>] = Root(object)
    <3>1. DOMAIN pc' = Paths(object)
      BY <1>2, Unchanging DEF IInv, TypeOK
    <3>2. Correct(<<>>)'
      BY <1>1, <3>1 DEF IInv
    <3>3. result'[<<>>] = RootAt(<<>>)'
      BY <1>4, <3>2 DEF Correct
    <3>4. RootAt(<<>>)' = RootAt(<<>>)
      BY <1>2 DEF RootAt
    <3>5. MaxDepth + 1 - Len(<<>>) = MaxDepth + 1
      BY ObjectAssumption, EmptySeq
    <3>6. RootAt(<<>>) = Root(object)
      BY <1>1, <3>5 DEF RootAt, Root, ReferenceRoots
    <3> QED BY <3>3, <3>4, <3>6
  <2>4. (faults > 0) = FALSE /\ (faults' > 0) = FALSE
    BY <2>1, <2>2
  <2> HIDE DEF Finished
  <2>5. (CASE pc[<<>>] = "ok"    -> "returned"
          [] pc[<<>>] = "threw" -> "threw"
          [] OTHER              -> "running") = "running"
    BY <1>3 DEF Finished
  <2>6. (CASE pc[<<>>] = "ok"    -> "returned"
          [] pc[<<>>] = "threw" -> "threw"
          [] OTHER              -> "running")' = "returned"
    BY <1>4
  <2>7. (IF pc[<<>>] = "ok" THEN result[<<>>] ELSE ZeroChunk)' = Root(object)
    BY <1>4, <2>3
  <2>8. Promise!Return
    BY <1>2, <2>4, <2>5, <2>6, <2>7, Zenon DEF Promise!Return
  <2> QED BY <2>8 DEF Promise!Next
<1>5. CASE pc'[<<>>] = "threw"
  <2>1. faults' > 0
    <3>1. DOMAIN pc' = Paths(object)
      BY <1>2, Unchanging DEF IInv, TypeOK
    <3>2. Failed(<<>>)'
      BY <1>5 DEF Failed
    <3> QED BY <1>1, <3>1, <3>2 DEF IInv
  <2>2. Promise!Throw
    BY <1>2, <1>3, <1>5, <2>1 DEF Promise!Throw
  <2> QED BY <2>2 DEF Promise!Next
<1>6. CASE pc'[<<>>] \notin Finished
  <2>1. CASE (faults > 0) = (faults' > 0)
    BY <1>2, <1>3, <1>6, <2>1 DEF Promise!vars
  <2>2. CASE ~(faults > 0) /\ faults' > 0
    <3>1. Promise!Fail
      BY <1>2, <1>3, <1>6, <2>2 DEF Promise!Fail
    <3> QED BY <3>1 DEF Promise!Next
  <2> QED BY <1>1, <1>2, <2>1, <2>2
<1> QED BY <1>4, <1>5, <1>6

(* Whatever an object is made of, and whatever fails on whichever thread:  *)
(* the only answer is the root of the SSZ specification for the whole      *)
(* object, given only if nothing failed, and an exception reaches the      *)
(* caller only if something did.                                           *)
THEOREM KeepsPromise == Spec => Promise!Init /\ [][Promise!Next]_Promise!vars
<1>1. IInv /\ IInv' /\ NoneFailed' /\ [Next]_vars
        => [Promise!Next]_Promise!vars
  <2> SUFFICES ASSUME IInv, IInv', NoneFailed', [Next]_vars
               PROVE  [Promise!Next]_Promise!vars
    OBVIOUS
  <2>1. ASSUME UNCHANGED vars PROVE UNCHANGED Promise!vars
    BY <2>1 DEF vars, Promise!vars
  <2>2. DOMAIN pc = Paths(object)
    BY DEF IInv, TypeOK
  <2> QED BY <2>1, <2>2, StepRefines DEF Next, Terminating
<1> QED BY <1>1, AllAnswered, InitRefines, Invariance, PTL DEF Spec
=============================================================================
