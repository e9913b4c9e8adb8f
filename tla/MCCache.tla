------------------------------ MODULE MCCache ------------------------------
(* Small instances of Cache for TLC. *)
EXTENDS Cache, TLC

CONSTANTS t1, t2

Read(b) == [kind |-> "read", block |-> b]
Write(b, c, v) == [kind |-> "write", block |-> b, cell |-> c, value |-> v]

\* Both threads write block 1, in different cells; t2 also writes block 2.
MCCalls == (t1 :> {Read(1), Write(1, 1, 1)}) @@ (t2 :> {Write(1, 2, 1), Write(2, 1, 1)})

\* One thread that may write block 1 and read the others.
MCScanCalls == t1 :> {Write(1, 1, 1), Read(2), Read(3)}
=============================================================================
