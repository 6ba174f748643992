----------------------------- MODULE BoundedFifo -----------------------------
(***************************************************************************)
(* What one direction of a UART channel promises: a bounded queue of bytes *)
(* to which a writer appends a run of bytes at once, and from whose front  *)
(* a reader takes a run of bytes at once.                                  *)
(***************************************************************************)
EXTENDS Naturals, Sequences

CONSTANTS Writers, Capacity

VARIABLES
    queue,  \* the bytes in it: <<writer, call, place in the call>>
    calls,  \* calls[w]: how many runs of bytes w has appended
    out     \* the bytes taken out so far

fvars == <<queue, calls, out>>

Init ==
    /\ queue = <<>>
    /\ \A w \in Writers : calls[w] = 0
    /\ out = <<>>

Put(w, n) ==
    /\ n <= Capacity - Len(queue)
    /\ queue' = queue \o [i \in 1..n |-> <<w, calls[w], i - 1>>]
    /\ calls' = [calls EXCEPT ![w] = calls[w] + 1]
    /\ UNCHANGED out

Take(n) ==
    /\ out' = out \o SubSeq(queue, 1, n)
    /\ queue' = SubSeq(queue, n + 1, Len(queue))
    /\ UNCHANGED calls

Next ==
    \/ \E w \in Writers, n \in 1..Capacity : Put(w, n)
    \/ \E n \in 1 .. Len(queue) : Take(n)

Spec == Init /\ [][Next]_fvars
=============================================================================
