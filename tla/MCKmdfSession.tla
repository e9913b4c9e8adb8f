--------------------------- MODULE MCKmdfSession ---------------------------
(* Small instances of KmdfSession for TLC. *)
EXTENDS KmdfSession, TLC

CONSTANTS f1, f2, s1, e1, e2, k1, k2

\* k1 creates the disk, k2 asks for anything else.
MCCommand == [r \in SyncRequests |-> IF r = k1 THEN {"create"} ELSE Commands \ {"create"}]

\* The App sends its requests in any order.
MCAnyOrder == [r \in Requests |-> {}]

\* The App posts slots once its disk was created.
MCCreateFirst == [r \in Requests |-> IF r \in Async THEN {k1} \cap SyncRequests ELSE {}]

MCSymmetry == Permutations(Files) \cup Permutations(EventRequests)
=============================================================================
