----------------------------- MODULE NatRecursion ---------------------------
(***************************************************************************)
(* Induction and recursion over the natural numbers in a form first-order  *)
(* provers can use.                                                        *)
(*                                                                         *)
(* TLA+ defines f[n \in Nat] == ... f[n - 1] ... as CHOOSE f : f = [...],  *)
(* so using the equation takes a proof that such a function exists.  The   *)
(* recursive functions of Merkle are unfolded by instantiating this module *)
(* with the value at 0 and the step, and induction is stated with a set    *)
(* instead of a predicate.  FlattenSeq is recursive, too; where it puts    *)
(* each sequence is proved at the end.                                     *)
(***************************************************************************)
EXTENDS Integers, Sequences, SequenceTheorems, WellFoundedInduction, TLAPS

CONSTANTS
    Base,           \* the value at 0
    Succ(_, _)      \* Succ(n, v): the value at n > 0, v the value at n - 1

(* A nonempty set of natural numbers has a least element.                  *)
LEMMA LeastNumber ==
  ASSUME NEW S, S \subseteq Nat, S # {}
  PROVE  \E x \in S : \A y \in S : x <= y
<1> DEFINE R == {p \in Nat \X Nat : p[1] < p[2]}
<1>1. IsWellFoundedOn(R, Nat)
  BY NatLessThanWellFounded DEF OpToRel
<1>2. PICK x \in S : \A y \in S : ~ (<<y, x>> \in R)
  <2> HIDE DEF R
  <2> QED BY <1>1, WFMin
<1>3. ASSUME NEW y \in S, y < x PROVE FALSE
  <2>1. <<y, x>> \in Nat \X Nat
    BY <1>3
  <2>2. <<y, x>> \in R
    BY <1>3, <2>1
  <2> QED BY <1>2, <2>2
<1>4. \A y \in S : x <= y
  BY <1>3
<1> QED BY <1>4

(* Induction: a set closed under successor that holds 0 holds every number. *)
LEMMA SetInduction ==
  ASSUME NEW S, 0 \in S, \A n \in Nat : n \in S => n + 1 \in S
  PROVE  Nat \subseteq S
<1>1. SUFFICES ASSUME Nat \ S # {} PROVE FALSE
  OBVIOUS
<1>2. PICK x \in Nat \ S : \A y \in Nat \ S : x <= y
  BY <1>1, LeastNumber
<1>3. x # 0 /\ x - 1 \in Nat /\ ~ (x <= x - 1)
  BY <1>2
<1>4. x - 1 \in S
  BY <1>2, <1>3
<1> QED BY <1>2, <1>3, <1>4

-----------------------------------------------------------------------------
(* The first n + 1 values of the recursion.                                *)
IsUpTo(g, n) == g = [k \in 0 .. n |-> IF k = 0 THEN Base ELSE Succ(k, g[k - 1])]

(* Every initial part of the recursion exists.                             *)
LEMMA UpToExists == \A n \in Nat : \E g : IsUpTo(g, n)
<1> DEFINE S == {n \in Nat : \E g : IsUpTo(g, n)}
<1>1. 0 \in S
  <2>1. IsUpTo([k \in 0 .. 0 |-> Base], 0)
    BY DEF IsUpTo
  <2> QED BY <2>1
<1>2. ASSUME NEW n \in Nat, n \in S PROVE n + 1 \in S
  <2>1. PICK g : IsUpTo(g, n)
    BY <1>2
  <2> DEFINE h == [k \in 0 .. n + 1 |-> IF k = n + 1 THEN Succ(k, g[n]) ELSE g[k]]
  <2>2. ASSUME NEW k \in 0 .. n + 1
        PROVE  h[k] = IF k = 0 THEN Base ELSE Succ(k, h[k - 1])
    <3>1. CASE k = n + 1
      BY <3>1
    <3>2. CASE k # n + 1
      BY <3>2, <2>1 DEF IsUpTo
    <3> QED BY <3>1, <3>2
  <2>3. h = [k \in 0 .. n + 1 |-> IF k = 0 THEN Base ELSE Succ(k, h[k - 1])]
    BY <2>2
  <2>4. IsUpTo(h, n + 1)
    BY <2>3 DEF IsUpTo
  <2> QED BY <2>4
<1>3. Nat \subseteq S
  <2> HIDE DEF S
  <2> QED BY <1>1, <1>2, SetInduction
<1> QED BY <1>3

(* Two initial parts agree where both are defined.                         *)
LEMMA UpToAgree ==
  ASSUME NEW m \in Nat, NEW n \in Nat, m <= n, NEW g, NEW h,
         IsUpTo(g, m), IsUpTo(h, n)
  PROVE  \A k \in 0 .. m : g[k] = h[k]
<1> DEFINE S == {k \in Nat : k <= m => g[k] = h[k]}
<1>1. 0 \in S
  BY DEF IsUpTo
<1>2. ASSUME NEW k \in Nat, k \in S PROVE k + 1 \in S
  <2>1. CASE k + 1 <= m
    <3>1. g[k + 1] = Succ(k + 1, g[k])
      BY <2>1 DEF IsUpTo
    <3>2. h[k + 1] = Succ(k + 1, h[k])
      BY <2>1 DEF IsUpTo
    <3> QED BY <3>1, <3>2, <1>2, <2>1
  <2> QED BY <2>1
<1>3. Nat \subseteq S
  <2> HIDE DEF S
  <2> QED BY <1>1, <1>2, SetInduction
<1> QED BY <1>3

-----------------------------------------------------------------------------
rec[n \in Nat] == IF n = 0 THEN Base ELSE Succ(n, rec[n - 1])

(* The function a recursive definition chooses exists.                     *)
THEOREM RecursionExists ==
  \E g : g = [n \in Nat |-> IF n = 0 THEN Base ELSE Succ(n, g[n - 1])]
<1> DEFINE A(n) == CHOOSE g : IsUpTo(g, n)
           f == [n \in Nat |-> A(n)[n]]
<1>1. \A n \in Nat : IsUpTo(A(n), n)
  BY UpToExists
<1> HIDE DEF A
<1>2. ASSUME NEW n \in Nat
      PROVE  f[n] = IF n = 0 THEN Base ELSE Succ(n, f[n - 1])
  <2>1. CASE n = 0
    BY <1>1, <2>1 DEF IsUpTo
  <2>2. CASE n # 0
    <3>1. n - 1 \in Nat /\ n - 1 <= n
      BY <2>2
    <3>2. A(n - 1)[n - 1] = A(n)[n - 1]
      BY <3>1, <1>1, UpToAgree
    <3>3. A(n)[n] = Succ(n, A(n)[n - 1])
      BY <1>1, <2>2 DEF IsUpTo
    <3> QED BY <3>1, <3>2, <3>3, <2>2
  <2> QED BY <2>1, <2>2
<1>3. f = [n \in Nat |-> IF n = 0 THEN Base ELSE Succ(n, f[n - 1])]
  BY <1>2
<1> QED BY <1>3

(* So the recursive definition satisfies its equation.                     *)
THEOREM RecursionUnfolds ==
  \A n \in Nat : rec[n] = IF n = 0 THEN Base ELSE Succ(n, rec[n - 1])
<1>1. rec = [n \in Nat |-> IF n = 0 THEN Base ELSE Succ(n, rec[n - 1])]
  BY RecursionExists DEF rec
<1> QED BY <1>1
-----------------------------------------------------------------------------
(* Sequences one after the other.                                          *)

(* f[i] is s[1] to s[i], one after the other: the function in FlattenSeq.  *)
IsJoined(f, s, n) ==
    f = [i \in 1 .. n |-> IF i = 1 THEN s[i] ELSE f[i - 1] \o s[i]]

(* The function FlattenSeq chooses exists.                                 *)
LEMMA JoinedExists ==
  ASSUME NEW s, NEW n \in Nat
  PROVE  \E f : IsJoined(f, s, n)
<1> DEFINE S == {k \in Nat : \E f : IsJoined(f, s, k)}
<1>1. 0 \in S
  <2>1. IsJoined([i \in 1 .. 0 |-> s[i]], s, 0)
    BY DEF IsJoined
  <2> QED BY <2>1
<1>2. ASSUME NEW k \in Nat, k \in S PROVE k + 1 \in S
  <2>1. PICK f : IsJoined(f, s, k)
    BY <1>2
  <2> DEFINE next == IF k = 0 THEN s[1] ELSE f[k] \o s[k + 1]
             g == [i \in 1 .. k + 1 |-> IF i = k + 1 THEN next ELSE f[i]]
  <2>2. ASSUME NEW i \in 1 .. k + 1
        PROVE  g[i] = IF i = 1 THEN s[i] ELSE g[i - 1] \o s[i]
    <3>1. CASE i = k + 1
      <4>1. CASE k = 0
        BY <3>1, <4>1
      <4>2. CASE k # 0
        <5>1. i - 1 \in 1 .. k + 1 /\ i - 1 # k + 1 /\ i - 1 = k /\ i # 1
          BY <3>1, <4>2
        <5>2. g[i - 1] = f[k]
          BY <5>1
        <5> QED BY <3>1, <4>2, <5>1, <5>2
      <4> QED BY <4>1, <4>2
    <3>2. CASE i # k + 1
      <4>1. i \in 1 .. k /\ g[i] = f[i]
        BY <3>2
      <4>2. f[i] = IF i = 1 THEN s[i] ELSE f[i - 1] \o s[i]
        BY <2>1, <4>1 DEF IsJoined
      <4>3. CASE i = 1
        BY <4>1, <4>2, <4>3
      <4>4. CASE i # 1
        <5>1. i - 1 \in 1 .. k + 1 /\ i - 1 # k + 1
          BY <4>1, <4>4
        <5> QED BY <4>1, <4>2, <4>4, <5>1
      <4> QED BY <4>3, <4>4
    <3> QED BY <3>1, <3>2
  <2> HIDE DEF next
  <2>3. g = [i \in 1 .. k + 1 |-> IF i = 1 THEN s[i] ELSE g[i - 1] \o s[i]]
    BY <2>2
  <2>4. IsJoined(g, s, k + 1)
    BY <2>3 DEF IsJoined
  <2> QED BY <2>4
<1>3. Nat \subseteq S
  <2> HIDE DEF S
  <2> QED BY <1>1, <1>2, SetInduction
<1> QED BY <1>3

(* The sequences s[1] to s[n] and the lengths c[i] of the first i of them. *)
AreParts(s, n, T) == \A i \in 1 .. n : s[i] \in Seq(T)
AreLengths(c, s, n) ==
    /\ c \in [0 .. n -> Nat] /\ c[0] = 0
    /\ \A i \in 1 .. n : c[i] = c[i - 1] + Len(s[i])

(* f[i] is the first i sequences, one after the other.                     *)
JoinsUpTo(f, s, c, i, T) ==
    /\ f[i] \in Seq(T) /\ Len(f[i]) = c[i]
    /\ \A h \in 1 .. i :
          /\ c[h] <= c[i]
          /\ \A j \in 1 .. Len(s[h]) : f[i][c[h - 1] + j] = s[h][j]

(* One sequence more.                                                      *)
LEMMA JoinedNext ==
  ASSUME NEW T, NEW n \in Nat, NEW s, NEW c, NEW f,
         AreParts(s, n, T), AreLengths(c, s, n), IsJoined(f, s, n),
         NEW k, NEW i \in 1 .. n, k = i - 1, k > 0 => JoinsUpTo(f, s, c, k, T)
  PROVE  JoinsUpTo(f, s, c, i, T)
<1> DEFINE l == Len(s[i])
<1>1. s[i] \in Seq(T)
  BY DEF AreParts
<1>2. /\ c[i] = c[k] + l /\ c[k] \in Nat /\ c[i] \in Nat /\ c[0] = 0
      /\ l \in Nat
  <2>1. k \in 0 .. n /\ i \in 0 .. n
    OBVIOUS
  <2>2. l \in Nat
    BY <1>1
  <2> QED BY <2>1, <2>2 DEF AreLengths
<1> HIDE DEF l
<1>3. f[i] = IF i = 1 THEN s[i] ELSE f[k] \o s[i]
  BY DEF IsJoined
<1>4. CASE k = 0
  <2>1. i = 1
    BY <1>4
  <2>2. f[i] = s[i] /\ c[i] = l
    BY <1>2, <1>3, <1>4, <2>1
  <2>3. ASSUME NEW h \in 1 .. i
        PROVE  h = i /\ h - 1 = 0
    BY <2>1
  <2>4. ASSUME NEW j \in 1 .. l PROVE c[0] + j = j
    BY <1>2
  <2>5. ASSUME NEW h \in 1 .. i
        PROVE  c[h] <= c[i] /\ \A j \in 1 .. Len(s[h]) :
                                  f[i][c[h - 1] + j] = s[h][j]
    <3>1. h = i /\ h - 1 = 0 /\ c[i] <= c[i]
      BY <1>2, <2>3
    <3>2. \A j \in 1 .. Len(s[i]) : f[i][c[0] + j] = s[i][j]
      BY <2>2, <2>4 DEF l
    <3> QED BY <3>1, <3>2
  <2> QED BY <1>1, <2>2, <2>5 DEF JoinsUpTo, l
<1>5. CASE k # 0
  <2>1. k > 0 /\ i # 1
    BY <1>5
  <2>2. f[i] = f[k] \o s[i]
    BY <1>3, <2>1
  <2>3. /\ f[k] \in Seq(T) /\ Len(f[k]) = c[k]
        /\ \A h \in 1 .. k : c[h] <= c[k]
    BY <2>1 DEF JoinsUpTo
  <2>4. /\ f[i] \in Seq(T) /\ Len(f[i]) = c[i]
        /\ \A p \in 1 .. c[i] : f[i][p] = IF p <= c[k] THEN f[k][p]
                                                       ELSE s[i][p - c[k]]
    <3>1. f[k] \in Seq(T) /\ Len(f[k]) = c[k] /\ Len(s[i]) = l
      BY <2>3 DEF l
    <3>2. /\ f[k] \o s[i] \in Seq(T)
          /\ Len(f[k] \o s[i]) = Len(f[k]) + Len(s[i])
          /\ \A p \in 1 .. Len(f[k]) + Len(s[i]) :
                (f[k] \o s[i])[p] = IF p <= Len(f[k]) THEN f[k][p]
                                                     ELSE s[i][p - Len(f[k])]
      <4> DEFINE u == f[k]
                 v == s[i]
      <4>1. u \in Seq(T) /\ v \in Seq(T)
        BY <1>1, <3>1
      <4> HIDE DEF u, v
      <4>2. /\ u \o v \in Seq(T) /\ Len(u \o v) = Len(u) + Len(v)
            /\ \A p \in 1 .. Len(u) + Len(v) :
                  (u \o v)[p] = IF p <= Len(u) THEN u[p] ELSE v[p - Len(u)]
        BY <4>1, ConcatProperties
      <4> QED BY <4>2 DEF u, v
    <3> QED BY <1>2, <2>2, <3>1, <3>2
  <2>5. ASSUME NEW h \in 1 .. i
        PROVE  c[h] <= c[i] /\ \A j \in 1 .. Len(s[h]) :
                                  f[i][c[h - 1] + j] = s[h][j]
    <3>1. CASE h = i
      <4>2. ASSUME NEW j \in 1 .. l PROVE f[i][c[k] + j] = s[i][j]
        <5> DEFINE p == c[k] + j
        <5>1. p \in 1 .. c[i] /\ ~ (p <= c[k]) /\ p - c[k] = j
          BY <1>2
        <5> HIDE DEF p
        <5>2. f[i][p] = s[i][p - c[k]]
          BY <2>4, <5>1
        <5> QED BY <5>1, <5>2 DEF p
      <4>3. h - 1 = k /\ c[h] = c[i] /\ Len(s[h]) = l
        BY <3>1 DEF l
      <4> QED BY <1>2, <3>1, <4>2, <4>3
    <3>2. CASE h # i
      <4>1. h \in 1 .. k /\ h \in 0 .. n /\ h - 1 \in 0 .. n /\ h \in 1 .. n
        BY <3>2
      <4> DEFINE d == Len(s[h])
      <4>2. c[h] = c[h - 1] + d /\ c[h - 1] \in Nat /\ c[h] \in Nat
        BY <4>1 DEF AreLengths
      <4>6. d \in Nat
        BY <4>1 DEF AreParts
      <4>3. c[h] <= c[k]
        BY <2>3, <4>1
      <4>4. ASSUME NEW j \in 1 .. d
            PROVE  f[i][c[h - 1] + j] = s[h][j]
        <5> HIDE DEF d
        <5>2. c[h - 1] + j \in 1 .. c[i] /\ c[h - 1] + j <= c[k]
          BY <1>2, <4>2, <4>3, <4>6
        <5>3. f[k][c[h - 1] + j] = s[h][j]
          BY <2>1, <4>1 DEF JoinsUpTo, d
        <5> QED BY <2>4, <5>2, <5>3
      <4>5. c[h] <= c[i]
        BY <1>2, <4>2, <4>3
      <4> QED BY <4>4, <4>5
    <3> QED BY <3>1, <3>2
  <2> QED BY <2>4, <2>5 DEF JoinsUpTo
<1> QED BY <1>4, <1>5

(* Where each sequence is.                                                 *)
LEMMA JoinedAt ==
  ASSUME NEW T, NEW n \in Nat, NEW s, NEW c, NEW f,
         AreParts(s, n, T), AreLengths(c, s, n), IsJoined(f, s, n)
  PROVE  \A i \in 1 .. n : JoinsUpTo(f, s, c, i, T)
<1> DEFINE S == {i \in Nat : i \in 1 .. n => JoinsUpTo(f, s, c, i, T)}
<1>1. 0 \in S
  OBVIOUS
<1>2. ASSUME NEW k \in Nat, k \in S PROVE k + 1 \in S
  <2> SUFFICES ASSUME NEW i \in 1 .. n, i = k + 1
               PROVE  JoinsUpTo(f, s, c, i, T)
    OBVIOUS
  <2>1. k = i - 1 /\ (k > 0 => JoinsUpTo(f, s, c, k, T))
    BY <1>2
  <2> QED BY <2>1, JoinedNext
<1>3. Nat \subseteq S
  <2> HIDE DEF S
  <2> QED BY <1>1, <1>2, SetInduction
<1> QED BY <1>3

(* The sequences of s one after the other: FlattenSeq(s).                  *)
Joined(s) ==
    IF Len(s) = 0 THEN s ELSE (CHOOSE f : IsJoined(f, s, Len(s)))[Len(s)]

(* Where each of them is in all.                                           *)
AreFlat(all, s, c, n, T) ==
    /\ all \in Seq(T) /\ Len(all) = c[n]
    /\ \A i \in 1 .. n : \A j \in 1 .. Len(s[i]) : all[c[i - 1] + j] = s[i][j]

LEMMA JoinedFlat ==
  ASSUME NEW T, NEW n \in Nat, NEW s \in [1 .. n -> Seq(T)],
         NEW c, AreLengths(c, s, n)
  PROVE  AreFlat(Joined(s), s, c, n, T)
<1>1. Len(s) = n
  OBVIOUS
<1>2. CASE n = 0
  <2>1. s \in Seq(T) /\ Joined(s) = s
    BY <1>1, <1>2 DEF Joined
  <2>2. c[0] = 0
    BY DEF AreLengths
  <2> QED BY <1>1, <1>2, <2>1, <2>2 DEF AreFlat
<1>3. CASE n # 0
  <2> DEFINE f == CHOOSE g : IsJoined(g, s, n)
  <2>1. IsJoined(f, s, n)
    BY JoinedExists
  <2>2. Joined(s) = f[n]
    BY <1>1, <1>3 DEF Joined
  <2>3. AreParts(s, n, T)
    BY DEF AreParts
  <2> HIDE DEF f
  <2>4. n \in 1 .. n
    BY <1>3
  <2>5. JoinsUpTo(f, s, c, n, T)
    BY <2>1, <2>3, <2>4, JoinedAt
  <2> QED BY <2>2, <2>5 DEF JoinsUpTo, AreFlat
<1> QED BY <1>2, <1>3

(* The lengths of the first sequences grow.                                *)
LEMMA LengthsGrow ==
  ASSUME NEW T, NEW n \in Nat, NEW s \in [1 .. n -> Seq(T)],
         NEW c, AreLengths(c, s, n), NEW i \in 0 .. n
  PROVE  c[i] \in Nat /\ \A h \in 0 .. i : c[h] \in Nat /\ c[h] <= c[i]
<1> DEFINE P(d) == \A h \in 0 .. d : c[h] <= c[d]
           S == {d \in Nat : d <= n => P(d)}
<1>1. \A d \in 0 .. n : c[d] \in Nat
  BY DEF AreLengths
<1>2. 0 \in S
  <2>1. \A h \in 0 .. 0 : h = 0
    OBVIOUS
  <2>2. c[0] <= c[0]
    BY <1>1
  <2> QED BY <2>1, <2>2
<1>3. ASSUME NEW d \in Nat, d \in S PROVE d + 1 \in S
  <2> SUFFICES ASSUME d + 1 <= n, NEW h \in 0 .. d + 1
               PROVE  c[h] <= c[d + 1]
    OBVIOUS
  <2>1. d + 1 \in 1 .. n /\ (d + 1) - 1 = d /\ d \in 0 .. n /\ d + 1 \in 0 .. n
    OBVIOUS
  <2>2. c[d + 1] = c[d] + Len(s[d + 1])
    BY <2>1 DEF AreLengths
  <2>3. Len(s[d + 1]) \in Nat /\ c[d] \in Nat /\ c[d + 1] \in Nat
    BY <1>1, <2>1
  <2>4. CASE h = d + 1
    BY <2>3, <2>4
  <2>5. CASE h # d + 1
    <3>1. h \in 0 .. d /\ h \in 0 .. n
      BY <2>1, <2>5
    <3>2. c[h] <= c[d] /\ c[h] \in Nat
      BY <1>1, <1>3, <2>1, <3>1
    <3> QED BY <2>2, <2>3, <3>2
  <2> QED BY <2>4, <2>5
<1>4. Nat \subseteq S
  <2> HIDE DEF S
  <2> QED BY <1>2, <1>3, SetInduction
<1>5. i \in S /\ i <= n
  BY <1>4
<1>6. P(i)
  BY <1>5
<1>7. \A h \in 0 .. i : h \in 0 .. n
  OBVIOUS
<1> QED BY <1>1, <1>6, <1>7

(* There are such lengths.                                                 *)
LEMMA LengthsExist ==
  ASSUME NEW T, NEW n \in Nat, NEW s \in [1 .. n -> Seq(T)]
  PROVE  \E c : AreLengths(c, s, n)
<1> DEFINE S == {d \in Nat : d <= n => \E c : AreLengths(c, s, d)}
<1>1. 0 \in S
  <2> DEFINE c == [i \in 0 .. 0 |-> 0]
  <2>1. AreLengths(c, s, 0)
    BY DEF AreLengths
  <2> QED BY <2>1
<1>2. ASSUME NEW d \in Nat, d \in S PROVE d + 1 \in S
  <2> SUFFICES ASSUME d + 1 <= n PROVE \E c : AreLengths(c, s, d + 1)
    OBVIOUS
  <2>1. PICK b : AreLengths(b, s, d)
    BY <1>2
  <2> DEFINE last == b[d] + Len(s[d + 1])
             c == [i \in 0 .. d + 1 |-> IF i = d + 1 THEN last ELSE b[i]]
  <2>2. d + 1 \in 1 .. n
    OBVIOUS
  <2>3. \A i \in 0 .. d : b[i] \in Nat
    BY <2>1 DEF AreLengths
  <2>4. last \in Nat
    BY <2>2, <2>3
  <2>5. \A i \in 1 .. d : b[i] = b[i - 1] + Len(s[i])
    BY <2>1 DEF AreLengths
  <2>6. c[d + 1] = last /\ \A i \in 0 .. d : c[i] = b[i]
    OBVIOUS
  <2>7. c \in [0 .. d + 1 -> Nat]
    BY <2>3, <2>4
  <2>8. c[0] = 0
    BY <2>1, <2>6 DEF AreLengths
  <2> HIDE DEF c
  <2>9. ASSUME NEW i \in 1 .. d + 1 PROVE c[i] = c[i - 1] + Len(s[i])
    <3>1. CASE i = d + 1
      <4>1. i - 1 = d
        BY <3>1
      <4> QED BY <2>6, <3>1, <4>1
    <3>2. CASE i # d + 1
      <4>1. i \in 1 .. d /\ i \in 0 .. d /\ i - 1 \in 0 .. d
        BY <3>2
      <4> QED BY <2>5, <2>6, <4>1
    <3> QED BY <3>1, <3>2
  <2>10. AreLengths(c, s, d + 1)
    BY <2>7, <2>8, <2>9 DEF AreLengths
  <2> QED BY <2>10
<1>3. Nat \subseteq S
  <2> HIDE DEF S
  <2> QED BY <1>1, <1>2, SetInduction
<1>4. n \in S /\ n <= n
  BY <1>3
<1> QED BY <1>4

(* Every position is one of a sequence.                                    *)
IsAPosition(p, s, c, n) ==
    \E i \in 1 .. n : \E j \in 1 .. Len(s[i]) : p = c[i - 1] + j

LEMMA EveryPosition ==
  ASSUME NEW T, NEW n \in Nat, NEW s \in [1 .. n -> Seq(T)],
         NEW c, AreLengths(c, s, n), NEW p \in 1 .. c[n]
  PROVE  IsAPosition(p, s, c, n)
<1> DEFINE P(d) == p <= c[d] =>
                     \E i \in 1 .. d : \E j \in 1 .. Len(s[i]) : p = c[i - 1] + j
           S == {d \in Nat : d <= n => P(d)}
<1>1. \A d \in 0 .. n : c[d] \in Nat
  BY DEF AreLengths
<1>2. p \in Nat /\ p > 0
  BY <1>1
<1>3. 0 \in S
  <2>1. c[0] = 0
    BY DEF AreLengths
  <2> QED BY <1>2, <2>1
<1>4. ASSUME NEW d \in Nat, d \in S PROVE d + 1 \in S
  <2> SUFFICES ASSUME d + 1 <= n, p <= c[d + 1]
               PROVE  \E i \in 1 .. d + 1 : \E j \in 1 .. Len(s[i]) : p = c[i - 1] + j
    OBVIOUS
  <2>1. d + 1 \in 1 .. n /\ (d + 1) - 1 = d /\ d \in 0 .. n
    OBVIOUS
  <2>2. c[d + 1] = c[d] + Len(s[d + 1])
    BY <2>1 DEF AreLengths
  <2>3. Len(s[d + 1]) \in Nat /\ c[d] \in Nat
    BY <1>1, <2>1
  <2>4. CASE p <= c[d]
    <3>1. PICK i \in 1 .. d : \E j \in 1 .. Len(s[i]) : p = c[i - 1] + j
      BY <1>4, <2>4
    <3>2. i \in 1 .. d + 1
      OBVIOUS
    <3> QED BY <3>1, <3>2
  <2>5. CASE ~(p <= c[d])
    <3> DEFINE j == p - c[d]
    <3>1. j \in 1 .. Len(s[d + 1]) /\ p = c[d] + j
      BY <1>2, <2>2, <2>3, <2>5
    <3>2. d + 1 \in 1 .. d + 1
      OBVIOUS
    <3> HIDE DEF j
    <3> QED BY <2>1, <3>1, <3>2
  <2> QED BY <2>4, <2>5
<1>5. Nat \subseteq S
  <2> HIDE DEF S
  <2> QED BY <1>3, <1>4, SetInduction
<1>6. n \in S /\ p <= c[n]
  BY <1>1, <1>5
<1> QED BY <1>6 DEF IsAPosition
=============================================================================
