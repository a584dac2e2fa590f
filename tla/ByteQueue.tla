------------------------------ MODULE ByteQueue ------------------------------
(***************************************************************************)
(* What a buffer promises its two users: a bounded first-in first-out      *)
(* queue of bytes.  The bytes of the stream are numbered 0, 1, 2 ... as    *)
(* they are put in, so that a lost, repeated, reordered or stale byte is   *)
(* a wrong number coming out.                                              *)
(***************************************************************************)
EXTENDS Integers, Sequences

CONSTANTS Capacity,
          Lossy     \* whether somebody flushes the buffer or skips bytes

VARIABLES queue, \* the numbers of the bytes that are in the buffer, in order
          put,   \* how many bytes were ever put in
          got    \* the bytes the last read handed out

vars == <<queue, put, got>>

Init == queue = << >> /\ put = 0 /\ got = << >>

\* n more bytes of the stream enter at the tail.
Put(n) ==
  /\ Len(queue) + n <= Capacity
  /\ queue' = queue \o [i \in 1 .. n |-> put + i - 1]
  /\ put' = put + n
  /\ UNCHANGED got

\* n bytes leave at the head and are handed to the reader.
Get(n) ==
  /\ n <= Len(queue)
  /\ got' = SubSeq(queue, 1, n)
  /\ queue' = SubSeq(queue, n + 1, Len(queue))
  /\ UNCHANGED put

\* n bytes leave at the head unread.
Drop(n) ==
  /\ Lossy
  /\ n <= Len(queue)
  /\ queue' = SubSeq(queue, n + 1, Len(queue))
  /\ UNCHANGED <<put, got>>

Next == \E n \in 1 .. Capacity : Put(n) \/ Get(n) \/ Drop(n)

Spec == Init /\ [][Next]_vars
=============================================================================
