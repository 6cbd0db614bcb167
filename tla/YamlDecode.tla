----------------------------- MODULE YamlDecode -----------------------------
(***************************************************************************)
(* Reading a container from a YAML document: yaml_decode_container and the *)
(* conversions of its members from hexadecimal text, container.hpp,        *)
(* bytelists.hpp, bitlists.hpp and the end of lists.hpp.                   *)
(*                                                                         *)
(* yaml-cpp is external.  Of it is assumed what the code uses: a member    *)
(* the document does not have throws, a node that is not of the kind asked *)
(* for is not decoded and false is returned, and the elements of a         *)
(* sequence are decoded one by one into a vector of its own, where false   *)
(* becomes an exception; an element is not initialised before it is        *)
(* decoded.                                                                *)
(*                                                                         *)
(* A byte is the pair of the values of its two digits, and so has 8 bits.  *)
(***************************************************************************)
EXTENDS Integers, Sequences, SequencesExt

CONSTANTS
    Shapes,         \* the containers tried: sequences of members [kind, N]
    Documents(_),   \* the documents tried for a container, and
    Objects(_)      \* its earlier values: a node and a value for each member

(* Kinds of members: "array" is std::array<std::byte, N>, "bytes" is       *)
(* ssz::list<std::byte, N>, "bitlist" and "bitset" have N bits, "arrays"   *)
(* is an ssz::list of byte arrays of length N, "number" is a basic value.  *)
(* Bitsets fill their last byte.  A bit sequence is the bytes of its       *)
(* encoding, see module Bitlist.                                           *)
MemberKinds == {"array", "bytes", "bitlist", "bitset", "arrays", "number"}

Digit == 0 .. 15
HexByte == Digit \X Digit

(* A scalar is the characters after its "0x", or a word of some size that  *)
(* has no "0x"; Number is such a word from which yaml-cpp reads a number   *)
(* where a number is wanted.                                               *)
Missing == [node |-> "missing"]
Hex(chars) == [node |-> "scalar", hex |-> TRUE, chars |-> chars]
Word(size) == [node |-> "scalar", hex |-> FALSE, size |-> size]
Number(n, size) ==
    [node |-> "number", hex |-> FALSE, size |-> size, n |-> n]
Sequence(elems) == [node |-> "sequence", elems |-> elems]

(* convert<std::string> decodes every scalar.                              *)
IsText(text) == text.node \in {"scalar", "number"}

IsScalar(text) ==
    IF text.node = "number"
    THEN text = Number(text.n, text.size) /\ text.n \in Nat /\ text.size \in Nat
    ELSE IF text.hex THEN text = Hex(text.chars) /\ text.chars \in Seq(STRING)
                     ELSE text = Word(text.size) /\ text.size \in Nat

IsNode(text) ==
    \/ text = Missing
    \/ IsText(text) /\ IsScalar(text)
    \/ /\ text.node = "sequence" /\ text = Sequence(text.elems)
       /\ text.elems \in Seq(Range(text.elems))
       /\ \A e \in DOMAIN text.elems :
             IsText(text.elems[e]) => IsScalar(text.elems[e])

IsValue(value, type) ==
    CASE type.kind = "number" -> value \in Nat
      [] type.kind = "arrays" -> value \in Seq([1 .. type.N -> HexByte])
      [] type.kind = "array"  -> value \in [1 .. type.N -> HexByte]
      [] type.kind = "bitset" -> value \in [1 .. type.N \div 8 -> HexByte]
      [] OTHER -> value \in Seq(HexByte)

(* A container has a member: yaml_decode_container of none does not        *)
(* compile.  Where a number is wanted no text with "0x" is tried: yaml-cpp *)
(* reads hexadecimal numbers from some of them.                            *)
ASSUME YamlAssumption ==
    \A shape \in Shapes :
        /\ shape \in Seq([kind : MemberKinds, N : Nat]) /\ Len(shape) > 0
        /\ \A n \in DOMAIN shape :
              shape[n].kind = "bitset" => shape[n].N % 8 = 0
        /\ \A document \in Documents(shape) :
              /\ DOMAIN document = DOMAIN shape
              /\ \A n \in DOMAIN shape :
                    /\ IsNode(document[n])
                    /\ shape[n].kind = "number" =>
                          ~(document[n].node = "scalar" /\ document[n].hex)
        /\ \A earlier \in Objects(shape) :
              /\ DOMAIN earlier = DOMAIN shape
              /\ \A n \in DOMAIN shape : IsValue(earlier[n], shape[n])

VARIABLES
    shape,      \* the members
    nodes,      \* the document: the node of every member
    before,     \* the object before the call
    object,     \* the object decoded into
    m,          \* the member at hand
    decoded,    \* what the last conversion returned
    status      \* "decode", "done", "threw", or "undefined": out of bounds

yaml_vars == <<shape, nodes, before, object, m, decoded, status>>

-----------------------------------------------------------------------------
(* bytelists.hpp.                                                          *)

characters == <<"0", "1", "2", "3", "4", "5", "6", "7",
                "8", "9", "a", "b", "c", "d", "e", "f">>
capitals == <<"A", "B", "C", "D", "E", "F">>

(* Mutant: the table has no capitals.                                      *)
SmallLettersOnly(char) ==
    IF \E d \in 1 .. 16 : characters[d] = char
    THEN (CHOOSE d \in 1 .. 16 : characters[d] = char) - 1 ELSE 0

(* The table is 0 wherever there is no digit.                              *)
hex_to_byte(char) ==
    CASE \E d \in 1 .. 16 : characters[d] = char ->
            (CHOOSE d \in 1 .. 16 : characters[d] = char) - 1
      [] \E d \in 1 .. 6 : capitals[d] = char ->
            (CHOOSE d \in 1 .. 6 : capitals[d] = char) + 9
      [] OTHER -> 0

(* Characters of the string, "0x" included.                                *)
length(text) == IF text.hex THEN Len(text.chars) + 2 ELSE text.size

_sanitize_hextring(text) == text.hex /\ length(text) % 2 = 0

(* Mutant: one byte more than there is room for.                           *)
OneByteTooLong(text, room) ==
    _sanitize_hextring(text) /\ length(text) <= 2 * (room + 1) + 2

(* bytelist_from_str does not throw for a range of this many bytes.        *)
accepted(text, room) ==
    _sanitize_hextring(text) /\ length(text) <= 2 * room + 2

(* The bytes it writes, from the first one of the range on.                *)
bytes_of(text) ==
    [b \in 1 .. Len(text.chars) \div 2 |->
        <<hex_to_byte(text.chars[2 * b - 1]), hex_to_byte(text.chars[2 * b])>>]

(* A chunk of one character, or a byte past the range: out of bounds.      *)
InBounds(text, room) ==
    Len(text.chars) % 2 = 0 /\ Len(text.chars) \div 2 <= room

(* The vector that lists and bit sequences are read into, sized by the     *)
(* text.                                                                   *)
vector_length(text) == length(text) \div 2 - 1

(* An array whose text is shorter keeps its last bytes.                    *)
Overlaid(old, new) ==
    [b \in DOMAIN old |-> IF b \in DOMAIN new THEN new[b] ELSE old[b]]

-----------------------------------------------------------------------------
member == shape[m]
node   == nodes[m]

Decoding == status = "decode" /\ m \in DOMAIN shape

(* The conversion returned; the comma of the fold drops what the one       *)
(* before returned.                                                        *)
Returned(value, result) ==
    /\ object' = [object EXCEPT ![m] = value]
    /\ decoded' = result
    /\ m' = m + 1
    /\ UNCHANGED <<shape, nodes, before, status>>

Ends(label) ==
    status' = label /\ UNCHANGED <<shape, nodes, before, object, m, decoded>>

YamlInit ==
    /\ shape \in Shapes
    /\ nodes \in Documents(shape)
    /\ before \in Objects(shape)
    /\ object = before
    /\ m = 1 /\ decoded = FALSE
    /\ status = "decode"

(* node[name] of a member the document does not have.                      *)
MissingThrows == Decoding /\ node = Missing /\ Ends("threw")

(* A sequence where a text is wanted, or the other way round.              *)
WrongNode ==
    /\ Decoding /\ node # Missing
    /\ CASE member.kind = "arrays" -> node.node # "sequence"
         [] member.kind = "number" -> node.node # "number"
         [] OTHER -> ~IsText(node)
    /\ Returned(object[m], FALSE)

DecodeNumber ==
    /\ Decoding /\ member.kind = "number" /\ node.node = "number"
    /\ Returned(node.n, TRUE)

(* The text of the member at hand is bytelist_from_str'd.                  *)
TextOf(kinds) == Decoding /\ member.kind \in kinds /\ IsText(node)

DecodeArray ==
    /\ TextOf({"array"}) /\ accepted(node, member.N)
    /\ IF InBounds(node, member.N)
       THEN Returned(Overlaid(object[m], bytes_of(node)), TRUE)
       ELSE Ends("undefined")

(* Mutant: false instead of the exception.                                 *)
ArrayRefuses ==
    /\ TextOf({"array"}) /\ ~accepted(node, member.N)
    /\ Returned(object[m], FALSE)

ArrayThrows == TextOf({"array"}) /\ ~accepted(node, member.N) /\ Ends("threw")

(* Up to two characters: true, and the list stays what it was.             *)
SkipBytes ==
    TextOf({"bytes"}) /\ length(node) <= 2 /\ Returned(object[m], TRUE)

DecodeBytes ==
    /\ TextOf({"bytes"}) /\ length(node) > 2
    /\ accepted(node, vector_length(node))
    /\ IF InBounds(node, vector_length(node))
       THEN Returned(bytes_of(node), TRUE)
       ELSE Ends("undefined")

BytesThrow ==
    /\ TextOf({"bytes"}) /\ length(node) > 2
    /\ ~accepted(node, vector_length(node))
    /\ Ends("threw")

(* Mutant: what is too much is not ignored.                                *)
BitsetGrown(read) == read

(* deserialize of a std::bitset ignores what is too much and clears what   *)
(* is too little.                                                          *)
BitsetOf(read) ==
    [b \in 1 .. member.N \div 8 |->
        IF b \in DOMAIN read THEN read[b] ELSE <<0, 0>>]

(* deserialize of a bitlist takes a last byte of zero for no byte at all:  *)
(* the bits are those before it, which are sealed by a byte of 1.          *)
BitlistOf(read) ==
    IF Last(read) = <<0, 0>> THEN Front(read) \o <<<<0, 1>>>> ELSE read

(* The text may have as many bytes as the sequence has bits.  deserialize  *)
(* of a bitlist throws if its bytes have more bits than N, and looks for   *)
(* the last byte, whether there is one or not.                             *)
bits_accepted ==
    /\ accepted(node, member.N)
    /\ member.kind = "bitlist" => 8 * vector_length(node) <= member.N

DecodeBitset ==
    /\ TextOf({"bitset"}) /\ bits_accepted
    /\ IF InBounds(node, vector_length(node))
       THEN Returned(BitsetOf(bytes_of(node)), TRUE)
       ELSE Ends("undefined")

DecodeBitlist ==
    /\ TextOf({"bitlist"}) /\ bits_accepted
    /\ IF InBounds(node, vector_length(node)) /\ bytes_of(node) # <<>>
       THEN Returned(BitlistOf(bytes_of(node)), TRUE)
       ELSE Ends("undefined")

BitsThrow ==
    TextOf({"bitlist", "bitset"}) /\ ~bits_accepted /\ Ends("threw")

(* Elements are not initialised: what the text is too short for is         *)
(* whatever memory held, here all zeros or all ones.                       *)
Garbage == {<<0, 0>>, <<15, 15>>}

ElementDecoded(elem) == IsText(elem) /\ accepted(elem, member.N)
Element(elem, garbage) ==
    Overlaid([b \in 1 .. member.N |-> garbage], bytes_of(elem))
Elements(elems, garbage) ==
    [e \in DOMAIN elems |-> Element(elems[e], garbage)]

DecodeList ==
    /\ Decoding /\ member.kind = "arrays" /\ node.node = "sequence"
    /\ \A e \in DOMAIN node.elems : ElementDecoded(node.elems[e])
    /\ IF \A e \in DOMAIN node.elems : InBounds(node.elems[e], member.N)
       THEN \E garbage \in Garbage : Returned(Elements(node.elems, garbage), TRUE)
       ELSE Ends("undefined")

(* Mutant: the elements are decoded into the list itself.                  *)
ListThrowsInPlace ==
    /\ Decoding /\ member.kind = "arrays" /\ node.node = "sequence"
    /\ \E e \in DOMAIN node.elems :
          /\ ~ElementDecoded(node.elems[e])
          /\ \A d \in 1 .. e - 1 : ElementDecoded(node.elems[d])
          /\ object' = [object EXCEPT ![m] =
                           Elements(SubSeq(node.elems, 1, e - 1), <<0, 0>>)]
    /\ status' = "threw" /\ UNCHANGED <<shape, nodes, before, m, decoded>>

(* An element throws, or is not decoded; the vector is lost.               *)
ListThrows ==
    /\ Decoding /\ member.kind = "arrays" /\ node.node = "sequence"
    /\ \E e \in DOMAIN node.elems : ~ElementDecoded(node.elems[e])
    /\ Ends("threw")

Return == status = "decode" /\ m \notin DOMAIN shape /\ Ends("done")

Ended == status \in {"done", "threw", "undefined"} /\ UNCHANGED yaml_vars

YamlNext ==
    \/ MissingThrows \/ WrongNode \/ DecodeNumber
    \/ DecodeArray \/ ArrayThrows \/ SkipBytes \/ DecodeBytes \/ BytesThrow
    \/ DecodeBitset \/ DecodeBitlist \/ BitsThrow \/ DecodeList \/ ListThrows
    \/ Return \/ Ended

YamlSpec == YamlInit /\ [][YamlNext]_yaml_vars

-----------------------------------------------------------------------------
(* What a document should say, independently of the conversions.           *)

(* The characters of a digit.                                              *)
Writes(char, digit) ==
    \/ char = characters[digit + 1]
    \/ digit >= 10 /\ char = capitals[digit - 9]

(* The text is that of these bytes.                                        *)
EncodesBytes(text, value) ==
    /\ text.node = "scalar" /\ text.hex
    /\ Len(text.chars) = 2 * Len(value)
    /\ \A b \in DOMAIN value, half \in 1 .. 2 :
          Writes(text.chars[2 * (b - 1) + half], value[b][half])

Encodes(text, value, kind_) ==
    CASE kind_ = "number" -> text.node = "number" /\ text.n = value
      [] kind_ = "arrays" ->
            /\ text.node = "sequence" /\ Len(text.elems) = Len(value)
            /\ \A e \in DOMAIN value : EncodesBytes(text.elems[e], value[e])
      [] OTHER -> EncodesBytes(text, value)

(* A text of nothing but digits, two for each byte.                        *)
HexText(text) ==
    /\ text.node = "scalar" /\ text.hex /\ Len(text.chars) % 2 = 0
    /\ \A c \in DOMAIN text.chars : \E d \in Digit : Writes(text.chars[c], d)
ByteCount(text) == Len(text.chars) \div 2

ArrayText(text, count) == HexText(text) /\ ByteCount(text) = count

(* The node is what a value of the member is written as, in full.  Left    *)
(* out are the bitlists that need one byte more than N bits do, and the    *)
(* empty byte list decoded over another one: it keeps the earlier bytes    *)
(* (line 110 of bytelists.hpp).                                            *)
WellFormed(text, type, earlier) ==
    CASE type.kind = "number" -> text.node = "number"
      [] type.kind = "arrays" ->
            /\ text.node = "sequence"
            /\ \A e \in DOMAIN text.elems : ArrayText(text.elems[e], type.N)
      [] type.kind = "array"  -> ArrayText(text, type.N)
      [] type.kind = "bitset" -> ArrayText(text, type.N \div 8)
      [] type.kind = "bytes"  ->
            HexText(text) /\ (ByteCount(text) = 0 => earlier = <<>>)
      [] type.kind = "bitlist" ->
            /\ HexText(text) /\ ByteCount(text) \in 1 .. type.N \div 8
            /\ \E c \in {1, 2} : text.chars[Len(text.chars) + 1 - c] # "0"

(* The node has the kind the member is read from.                          *)
RightKind(text, type) ==
    \/ type.kind = "number" /\ text.node = "number"
    \/ type.kind = "arrays" /\ text.node = "sequence"
    \/ type.kind \notin {"number", "arrays"} /\ IsText(text)

(* No "0x", half a byte, or more bytes than there is room for.             *)
BadText(text, room) ==
    \/ text.node # "scalar" \/ ~text.hex
    \/ Len(text.chars) % 2 = 1 \/ Len(text.chars) > 2 * room

(* The node is of the right kind, and yet nothing is to be read from it.   *)
Refused(text, type) ==
    /\ RightKind(text, type)
    /\ CASE type.kind = "number" -> FALSE
         [] type.kind = "arrays" ->
               \E e \in DOMAIN text.elems : BadText(text.elems[e], type.N)
         [] type.kind = "bytes" ->
               ~text.hex \/ Len(text.chars) % 2 = 1
         [] type.kind = "bitlist" -> BadText(text, type.N \div 8)
         [] OTHER -> BadText(text, type.N)

-----------------------------------------------------------------------------
(* Properties.                                                             *)

(* Every variable has its type; arrays and bitsets keep their lengths      *)
(* whatever the text says.                                                 *)
YamlTypeOK ==
    /\ shape \in Shapes /\ nodes \in Documents(shape)
    /\ before \in Objects(shape) /\ decoded \in BOOLEAN
    /\ m \in 1 .. Len(shape) + 1
    /\ status \in {"decode", "done", "threw", "undefined"}
    /\ DOMAIN object = DOMAIN shape
    /\ \A n \in DOMAIN shape : IsValue(object[n], shape[n])

(* A member whose node is written in full is decoded to the value it is    *)
(* written for, whatever the object was before and whatever the other      *)
(* members are, and is not what the call fails on.                         *)
WellFormedDecoded ==
    \A n \in DOMAIN shape :
        WellFormed(nodes[n], shape[n], before[n]) =>
            /\ n < m => Encodes(nodes[n], object[n], shape[n].kind)
            /\ n = m => status \notin {"threw", "undefined"}

(* A member that is missing, of the wrong kind or whose text is refused    *)
(* keeps its earlier value, and so does every member after the one the     *)
(* call throws at: an exception in the middle of a list, in particular,    *)
(* does not leave half of it.                                              *)
RefusedKept ==
    \A n \in DOMAIN shape :
        \/ n >= m
        \/ nodes[n] = Missing \/ ~RightKind(nodes[n], shape[n])
        \/ Refused(nodes[n], shape[n])
        => object[n] = before[n]

(* A bad text or a missing member is never passed over in silence: only    *)
(* nodes of the wrong kind are, and words of up to two characters where    *)
(* bytes are listed.  The value returned tells of the last member alone.   *)
RefusalHeard ==
    /\ \A n \in 1 .. m - 1 :
          /\ nodes[n] # Missing
          /\ Refused(nodes[n], shape[n]) =>
                shape[n].kind = "bytes" /\ length(nodes[n]) <= 2
    /\ status = "done" => decoded = RightKind(nodes[m - 1], shape[m - 1])

(* No text, of whatever length, makes the conversions read or write out of *)
(* bounds, but for a bitlist without a byte (line 36 of bitlists.hpp,      *)
(* line 402 of lists.hpp).                                                 *)
NoOverrun ==
    status = "undefined" => shape[m].kind = "bitlist" /\ nodes[m] = Hex(<<>>)
=============================================================================
