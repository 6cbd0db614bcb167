------------------------------ MODULE TypeWalk ------------------------------
(***************************************************************************)
(* What the library makes of a type: which overload hash_tree_root takes   *)
(* for it and with which limit, and whether its size counts as fixed.      *)
(*                                                                         *)
(* The walk is that of hash_tree_root on an object none of whose lists is  *)
(* empty: into a container, member after member (_container_hash), and     *)
(* into the elements of a vector or list of objects, one for all of them.  *)
(***************************************************************************)
EXTENDS Integers, Sequences, FiniteSetsExt, SequencesExt

CONSTANTS
    BYTES_PER_CHUNK,    \* 32 in the code
    CHAR_BIT,           \* 8 in the code
    zero_hash_depth,    \* number of entries of zero_hash_array, 42
    Types               \* the types walked, see BeaconTypes for their form

ASSUME WalkAssumption ==
    {BYTES_PER_CHUNK, CHAR_BIT, zero_hash_depth} \subseteq Nat \ {0}

VARIABLES
    type,       \* the type of the object hashed
    path,       \* the part at hand: index of the member of its parent, and
                \* so on; 1 for an element
    pc

vars == <<type, path, pc>>

(* The types of what a part consists of and is hashed call by call.        *)
Children(t) ==
    CASE t.kind = "container" -> [c \in DOMAIN t.members |-> t.members[c][2]]
      [] t.kind \in {"array", "list"} /\ t.of.kind # "basic" -> <<t.of>>
      [] OTHER -> <<>>

At(p) == FoldLeft(LAMBDA t, c : Children(t)[c], type, p)

(* std::bit_width(n - 1), the digits of the number of leaves.              *)
log2ceil(n) == CHOOSE e \in 0 .. n : 2 ^ e >= n /\ (e > 0 => 2 ^ (e - 1) < n)
CeilDiv(n, k) == (n + k - 1) \div k

(* Mutant: a list of basic values counts its bytes, not its chunks.        *)
HeightInBytes(t) ==
    CASE t.kind = "basic"     -> 0
      [] t.kind = "bitset"    -> log2ceil(t.n)
      [] t.kind = "bitlist"   -> t.limit
      [] t.kind = "container" -> log2ceil(Len(t.members))
      [] t.kind = "array"     -> log2ceil(t.n)
      [] t.kind = "list" /\ t.of.kind = "basic" ->
            t.limit + log2ceil(t.of.sizeof)
      [] OTHER                -> t.limit

(* The height of the tree that hash_tree_root of a part asks for: from the *)
(* number of chunks of a vector, from the limit of a list.  The limit of a *)
(* list is a power of two, of which t.limit is the exponent.               *)
height(t) ==
    LET above(e, chunk) == Max({0, e - log2ceil(chunk)})
    IN  CASE t.kind = "basic"     -> 0
          [] t.kind = "bitset"    ->
                log2ceil(CeilDiv(t.n, CHAR_BIT * BYTES_PER_CHUNK))
          [] t.kind = "bitlist"   -> above(t.limit, CHAR_BIT * BYTES_PER_CHUNK)
          [] t.kind = "container" -> log2ceil(Len(t.members))
          [] t.kind = "array" /\ t.of.kind = "basic" ->
                log2ceil(CeilDiv(t.n * t.of.sizeof, BYTES_PER_CHUNK))
          [] t.kind = "array"     -> log2ceil(t.n)
          [] t.kind = "list" /\ t.of.kind = "basic" ->
                above(t.limit + log2ceil(t.of.sizeof), BYTES_PER_CHUNK)
          [] OTHER                -> t.limit

(* ssz_object_fixed_size: whatever has no variable_size::value that is     *)
(* true.  Only lists and the base class of containers have one; an array   *)
(* of whatever elements has none.                                          *)
fixed_size(t) ==
    CASE t.kind = "container" -> ~t.variable
      [] OTHER                -> t.kind \notin {"list", "bitlist"}

-----------------------------------------------------------------------------
Init ==
    /\ type \in Types
    /\ path = <<>>
    /\ pc = "enter"

(* The first member or element, if this part has any.                      *)
Enter ==
    /\ pc = "enter"
    /\ IF Children(At(path)) = <<>>
       THEN pc' = "leave" /\ UNCHANGED path
       ELSE path' = Append(path, 1) /\ UNCHANGED pc
    /\ UNCHANGED type

(* Mutant: one member too many.                                            *)
NextMemberPastEnd ==
    /\ pc = "leave" /\ path # <<>>
    /\ LET above == Front(path)
       IN  IF Last(path) <= Len(Children(At(above)))
           THEN path' = Append(above, Last(path) + 1) /\ pc' = "enter"
           ELSE path' = above /\ UNCHANGED pc
    /\ UNCHANGED type

(* The part is hashed: to the next member, or back to what it is part of.  *)
NextMember ==
    /\ pc = "leave" /\ path # <<>>
    /\ LET above == Front(path)
       IN  IF Last(path) < Len(Children(At(above)))
           THEN path' = Append(above, Last(path) + 1) /\ pc' = "enter"
           ELSE path' = above /\ UNCHANGED pc
    /\ UNCHANGED type

Done ==
    /\ pc = "leave" /\ path = <<>>
    /\ pc' = "done"
    /\ UNCHANGED <<type, path>>

Terminating == pc = "done" /\ UNCHANGED vars

Next == Enter \/ NextMember \/ Done \/ Terminating

Spec == Init /\ [][Next]_vars

-----------------------------------------------------------------------------
(* Properties.                                                             *)

(* The path leads to a part of the type.                                   *)
TypeOK ==
    /\ type \in Types
    /\ pc \in {"enter", "leave", "done"}
    /\ \A n \in DOMAIN path :
          path[n] \in DOMAIN Children(At(SubSeq(path, 1, n - 1)))

(* zero_hash_array serves every tree that hashing an object of these types *)
(* asks for, to the highest list of a beacon state: no line checks the     *)
(* limit of a list against the 42 entries (merkleize.hpp:180).  This is    *)
(* what SparseHashTree and ParallelHash assume.                            *)
TablesSuffice == height(At(path)) < zero_hash_depth

(* The values of a type all have one size.                                 *)
RECURSIVE OneSize(_)
OneSize(t) ==
    CASE t.kind \in {"basic", "bitset"}  -> TRUE
      [] t.kind \in {"list", "bitlist"}  -> FALSE
      [] t.kind = "array"                -> OneSize(t.of)
      [] t.kind = "container" ->
            \A c \in DOMAIN Children(t) : OneSize(Children(t)[c])

(* What counts as fixed size, by a base class chosen by hand or for want   *)
(* of a variable_size, has one size, and nothing else: a part of which it  *)
(* is wrong would be written without an offset and be read back with the   *)
(* size of whatever the target holds.                                      *)
SizesDeclared == fixed_size(At(path)) <=> OneSize(At(path))
=============================================================================
