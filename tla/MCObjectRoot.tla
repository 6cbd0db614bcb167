---------------------------- MODULE MCObjectRoot ----------------------------
(* ObjectRoot with chunks of 2 bytes of 2 bits.  Chunks of different kinds *)
(* are tuples of different lengths.                                        *)
EXTENDS ObjectRoot

MCHash(left, right)    == <<left, right>>
MCValue(id, lo, end)   == <<"value", id, lo, end>>
MCBits(positions)      == <<"bits", positions, 0>>
MCLength(n)            == IF n = 0 THEN <<>> ELSE <<n>>
MCZeroChunk            == <<>>
MCGarbage              == <<"garbage", 0, 0, 0, 0>>

Value1(id) == [kind |-> "basic", id |-> id]
Packed(id, sizeof, size, list, N) ==
    [kind |-> "packed", id |-> id, sizeof |-> sizeof, size |-> size,
     list |-> list, N |-> N]
Roots(id, size, list, N) ==
    [kind |-> "roots", id |-> id, sizeof |-> 2, size |-> size,
     list |-> list, N |-> N]
BitsOf(set, size, list, N) ==
    [kind |-> "bits", bits |-> [b \in 1 .. size |-> b \in set], list |-> list,
     N |-> N]
Elements(elems, list, N) ==
    [kind |-> "objects", elems |-> elems, list |-> list, N |-> N]
Container(elems) == [kind |-> "container", elems |-> elems]

(* Bitlists and bitsets around the boundaries of bytes and chunks.         *)
Bitlists ==
    {BitsOf(set, size, TRUE, N) :
        set \in {{}, {1}, {2, 4}, {1, 8}}, size \in 0 .. 8, N \in {8, 9}}
Bitsets == {BitsOf({1, 3, 7}, size, FALSE, size) : size \in 1 .. 9}

(* Lists of basic values and of roots, empty, below the limit and at it.   *)
Lists ==
    {Packed("l", sizeof, size, TRUE, 9) : sizeof \in {1, 2}, size \in {0, 5, 8, 9}}
    \cup {Roots("r", size, TRUE, 5) : size \in {0, 3, 5}}

(* As a beacon state: a value, a list of fixed-size containers, a bitlist, *)
(* and a list of roots that forks.                                         *)
Validator(id) == Container(<<Value1(id), Packed(id, 1, 8, FALSE, 8)>>)
State ==
    Container(<<Value1("slot"), Elements(<<Value1("a"), Validator("b")>>, TRUE, 5),
                BitsOf({2}, 4, TRUE, 4), Roots("r", 4, TRUE, 9)>>)

(* A vector that forks and whose elements would fork if they could.        *)
Nested ==
    Elements([c \in 1 .. 4 |-> Roots(c, IF c = 1 THEN 2 ELSE 4, FALSE, 0)], TRUE, 6)
Deep == Container(<<Nested, Elements(<<>>, TRUE, 3)>>)

MCObjects == Bitlists \cup Bitsets \cup Lists \cup {State, Deep}
=============================================================================
