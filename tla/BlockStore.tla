----------------------------- MODULE BlockStore -----------------------------
(***************************************************************************)
(* What the cache promises its callers: a store of blocks on which every   *)
(* read and every write of a block takes effect at one instant between its *)
(* call and its return, and a call that fails has no effect.               *)
(*                                                                         *)
(* A request of read_locked or write_locked that touches several blocks is *)
(* a sequence of calls: the promise is per block.                          *)
(***************************************************************************)
CONSTANTS
    Threads,  \* callers
    Blocks,   \* block indexes
    Cells,    \* the parts of a block that writes can tell apart
    Value0,   \* the value of every cell at first
    Calls,    \* what each thread may call: [kind |-> "read", block] and
              \* [kind |-> "write", block, cell, value]
    None,     \* no call, no reply
    Done,     \* the reply to a write that was accepted
    Failed    \* the reply of a call that failed

VARIABLES
    mem,      \* mem[b][c]: the content of cell c of block b
    call,     \* call[t]: the call of thread t
    reply     \* reply[t]: the answer of that call

vars == <<mem, call, reply>>

\* The data of a block after a write patched one cell of it.
Patched(data, w) == [data EXCEPT ![w.cell] = w.value]

Init ==
    /\ mem = [b \in Blocks |-> [c \in Cells |-> Value0]]
    /\ call = [t \in Threads |-> None]
    /\ reply = [t \in Threads |-> None]

Begin(t) ==
    /\ call[t] = None
    /\ \E c \in Calls[t] : call' = [call EXCEPT ![t] = c]
    /\ UNCHANGED <<mem, reply>>

Pending(t) == call[t] # None /\ reply[t] = None

Read(t) ==
    /\ Pending(t) /\ call[t].kind = "read"
    /\ reply' = [reply EXCEPT ![t] = mem[call[t].block]]
    /\ UNCHANGED <<mem, call>>

Write(t) ==
    /\ Pending(t) /\ call[t].kind = "write"
    /\ mem' = [mem EXCEPT ![call[t].block] = Patched(@, call[t])]
    /\ reply' = [reply EXCEPT ![t] = Done]
    /\ UNCHANGED call

Fail(t) ==
    /\ Pending(t)
    /\ reply' = [reply EXCEPT ![t] = Failed]
    /\ UNCHANGED <<mem, call>>

Return(t) ==
    /\ reply[t] # None
    /\ call' = [call EXCEPT ![t] = None]
    /\ reply' = [reply EXCEPT ![t] = None]
    /\ UNCHANGED mem

Next == \E t \in Threads : Begin(t) \/ Read(t) \/ Write(t) \/ Fail(t) \/ Return(t)

Spec == Init /\ [][Next]_vars
=============================================================================
