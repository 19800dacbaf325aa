----------------------------- MODULE ByteStream -----------------------------
(***************************************************************************)
(* What a receive buffer with one writer and one reader promises: bytes    *)
(* come out in the order in which they went in, each at most once; a byte  *)
(* that finds the buffer full is lost, and nothing else is.  Bytes are     *)
(* numbered in the order in which they were sent.                          *)
(***************************************************************************)
EXTENDS Naturals, Sequences

CONSTANT Capacity

VARIABLES
    queue,   \* what is buffered
    last     \* the byte that was read last, 0 before the first

Newest == IF queue = << >> THEN last ELSE queue[Len(queue)]

Init == queue = << >> /\ last = 0

Put ==
    /\ Len(queue) < Capacity
    /\ Len(queue') = Len(queue) + 1
    /\ SubSeq(queue', 1, Len(queue)) = queue
    /\ queue'[Len(queue) + 1] > Newest
    /\ UNCHANGED last

Get ==
    /\ queue # << >>
    /\ last' = Head(queue)
    /\ queue' = Tail(queue)

\* The buffer is emptied when a channel opens and when the session ends.
Clear == queue' = << >> /\ UNCHANGED last

Next == Put \/ Get \/ Clear

Spec == Init /\ [][Next]_<<queue, last>>
=============================================================================
