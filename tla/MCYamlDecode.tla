---------------------------- MODULE MCYamlDecode ----------------------------
(* Pairs of members, every kind in both places, over texts of up to three  *)
(* bytes.                                                                  *)
EXTENDS YamlDecode

MCShapes ==
    {<<[kind |-> "array", N |-> 1], [kind |-> "number", N |-> 0]>>,
     <<[kind |-> "number", N |-> 0], [kind |-> "arrays", N |-> 1]>>,
     <<[kind |-> "arrays", N |-> 1], [kind |-> "array", N |-> 2]>>,
     <<[kind |-> "bytes", N |-> 2], [kind |-> "bitlist", N |-> 16]>>,
     <<[kind |-> "bitlist", N |-> 9], [kind |-> "bitset", N |-> 16]>>,
     <<[kind |-> "bitset", N |-> 8], [kind |-> "bytes", N |-> 1]>>}

(* "0" to fill, a small letter, a capital and a character that is no       *)
(* digit.                                                                  *)
MCTexts ==
    {Hex(<<>>)}
    \cup {Hex(chars) : chars \in [1 .. 2 -> {"0", "b", "D", "?"}]}
    \cup {Hex(chars) : chars \in [1 .. 4 -> {"0", "D"}]}
    \cup {Hex(chars) : chars \in [1 .. 6 -> {"0"}]
                          \cup {<<"0", "1", "0", "0", "0", "2">>}}
    \cup {Hex(<<"b">>), Hex(<<"b", "b", "0">>)}
    \cup {Word(size) : size \in {0, 2, 3, 4}}
    \cup {Number(7, size) : size \in {1, 3, 4}}

Elems == {Hex(<<>>), Hex(<<"b", "0">>), Hex(<<"b", "0", "0", "0">>),
          Hex(<<"b">>), Word(2), Number(7, 4),
          Sequence(<<>>)}

NodesOf(type) ==
    {Missing, Sequence(<<>>)} \cup
    CASE type.kind = "number" -> {Number(1, 1), Word(2)}
      [] type.kind = "arrays" ->
            {Word(2)} \cup {Sequence(<<e>>) : e \in Elems}
                      \cup {Sequence(<<e, d>>) : e, d \in Elems}
      [] OTHER -> MCTexts

(* Fresh, and used before.                                                 *)
ValuesOf(type) ==
    CASE type.kind = "number" -> {0, 9}
      [] type.kind = "arrays" -> {<<>>, <<[b \in 1 .. type.N |-> <<7, 7>>]>>}
      [] type.kind = "array"  ->
            {[b \in 1 .. type.N |-> d] : d \in {<<0, 0>>, <<7, 7>>}}
      [] type.kind = "bitset" ->
            {[b \in 1 .. type.N \div 8 |-> d] : d \in {<<0, 0>>, <<7, 7>>}}
      [] type.kind = "bytes"  -> {<<>>, <<<<7, 7>>>>}
      [] type.kind = "bitlist" -> {<<<<0, 1>>>>, <<<<7, 7>>>>}

(* A node, and an earlier value, for each of the two members.              *)
MCDocuments(pair) == NodesOf(pair[1]) \X NodesOf(pair[2])
MCObjects(pair) == ValuesOf(pair[1]) \X ValuesOf(pair[2])
=============================================================================
