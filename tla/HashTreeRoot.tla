---------------------------- MODULE HashTreeRoot ----------------------------
(***************************************************************************)
(* What a call of hash_tree_root on an object or a vector, or of           *)
(* sparse_hash_tree on a buffer, promises its caller: one answer, either   *)
(* the root of the reference definition, or an exception when some         *)
(* allocation or thread launch on the way failed, and never a root         *)
(* computed in spite of such a failure.                                    *)
(***************************************************************************)
CONSTANTS
    Calls,          \* what may be asked
    RootOf(_),      \* the reference: the root of what was asked
    ZeroChunk

VARIABLES
    request,    \* what is asked
    status,     \* "running", then "returned" or "threw"
    failed,     \* some allocation or launch has failed
    root        \* the answer, NoRoot until the call has returned

vars == <<request, status, failed, root>>

NoRoot == ZeroChunk

Init ==
    /\ request \in Calls
    /\ status = "running"
    /\ failed = FALSE
    /\ root = NoRoot

Fail ==
    /\ status = "running" /\ failed' = TRUE
    /\ UNCHANGED <<request, status, root>>

Return ==
    /\ status = "running" /\ ~failed
    /\ status' = "returned"
    /\ root' = RootOf(request)
    /\ UNCHANGED <<request, failed>>

(* The failure may be the very step that throws to the caller.             *)
Throw ==
    /\ status = "running"
    /\ status' = "threw" /\ failed' = TRUE
    /\ UNCHANGED <<request, root>>

Next == Fail \/ Return \/ Throw

Spec == Init /\ [][Next]_vars /\ WF_vars(Return \/ (failed /\ Throw))
=============================================================================
