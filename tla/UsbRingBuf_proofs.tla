--------------------------- MODULE UsbRingBuf_proofs ---------------------------
(***************************************************************************)
(* Facts about the ring's index arithmetic and about runs of stream          *)
(* positions, for the proofs of the modules that use the ring.               *)
(***************************************************************************)
EXTENDS UsbRingBuf, Sequences, SequenceTheorems, TLAPS

-----------------------------------------------------------------------------
(* The arithmetic of the indices.                                          *)

\* A ring at rest never holds more than one byte less than its size, and
\* counts used and free bytes of one and the same whole.
LEMMA UsedInRange ==
  ASSUME NEW r \in Index, NEW w \in Index
  PROVE  /\ Used(r, w) \in 0 .. Size - 1
         /\ Free(r, w) = Size - 1 - Used(r, w)
         /\ Used(r, w) = 0 <=> Empty(r, w)
  BY SizeAssumption DEF Index, Used, Free, Empty

\* The contiguous free block, asked for at rest or while the read index sits
\* on Size: it ends inside the workspace and leaves one byte unused.
LEMMA ContigFreeIsFree ==
  ASSUME NEW r \in 0 .. Size, NEW w \in Index
  PROVE  LET n == ContigFree(r, w) IN
         /\ n \in 0 .. Size - 1
         /\ w + n <= Size
         /\ Used(WrapIndex(r), w) + n <= Size - 1
         /\ n <= Free(r, w)
         /\ Used(r, w) = Used(WrapIndex(r), w)
  BY SizeAssumption DEF Index, Used, Free, ContigFree, WrapIndex

\* Claiming n bytes of that block adds n to the bytes in use and moves the
\* write index to a place inside the workspace; the read index stays.
LEMMA AdvanceWriteAdds ==
  ASSUME NEW r \in 0 .. Size, NEW w \in Index,
         NEW n \in 1 .. ContigFree(r, w)
  PROVE  LET a == AdvanceWrite(r, w, n) IN
         /\ a.read = r
         /\ a.write \in Index
         /\ a.write = WrapIndex(w + n)
         /\ Used(r, a.write) = Used(r, w) + n
         /\ Used(WrapIndex(r), a.write) = Used(WrapIndex(r), w) + n
  BY SizeAssumption
  DEF Index, Used, Free, ContigFree, WrapIndex, AdvanceWrite

\* Releasing d of the bytes in use takes d from them.
LEMMA AdvanceReadRemoves ==
  ASSUME NEW r \in Index, NEW w \in Index, NEW d \in 0 .. Used(r, w)
  PROVE  /\ WrapIndex(r + d) \in Index
         /\ Used(WrapIndex(r + d), w) = Used(r, w) - d
         /\ r + d \in 0 .. 2 * Size - 1
  BY SizeAssumption DEF Index, Used, WrapIndex

\* The bytes in use lie outside the contiguous free block, and what is put
\* there follows them.
LEMMA FreeBlockFollows ==
  ASSUME NEW r \in Index, NEW w \in Index, NEW i \in Nat
  PROVE  /\ i < Used(r, w) =>
              /\ WrapIndex(r + i) \in Index
              /\ ~(w <= WrapIndex(r + i) /\ WrapIndex(r + i) < w + ContigFree(r, w))
         /\ i < ContigFree(r, w) => WrapIndex(r + Used(r, w) + i) = w + i
  BY SizeAssumption DEF Index, Used, ContigFree, WrapIndex

-----------------------------------------------------------------------------
(* Runs of stream positions.                                                *)

\* Consecutive stream positions, from the first to before the last.
Positions(first, last) == [i \in 1 .. last - first |-> first + i - 1]

\* Such a sequence is extended at its end and shortened at its front.
LEMMA PositionsPut ==
  ASSUME NEW a \in Nat, NEW b \in Nat, a <= b, NEW n \in Nat
  PROVE  /\ Positions(a, b) \in Seq(Nat) /\ Len(Positions(a, b)) = b - a
         /\ Positions(a, b) \o [i \in 1 .. n |-> b + i - 1] = Positions(a, b + n)
<1>1. Positions(a, b) \in Seq(Nat) /\ Len(Positions(a, b)) = b - a
  BY DEF Positions
<1>2. [i \in 1 .. n |-> b + i - 1] \in Seq(Nat) /\ Len([i \in 1 .. n |-> b + i - 1]) = n
  OBVIOUS
<1> QED BY <1>1, <1>2 DEF Positions

LEMMA PositionsGet ==
  ASSUME NEW a \in Nat, NEW b \in Nat, NEW n \in Nat, a + n <= b
  PROVE  /\ SubSeq(Positions(a, b), n + 1, Len(Positions(a, b))) = Positions(a + n, b)
         /\ SubSeq(Positions(a, b), 1, n) = Positions(a, a + n)
<1> DEFINE q == Positions(a, b)
           rest == SubSeq(q, n + 1, b - a)
           front == SubSeq(q, 1, n)
<1>1. q \in Seq(Nat) /\ Len(q) = b - a /\ \A i \in 1 .. b - a : q[i] = a + i - 1
  BY DEF Positions
<1>2. /\ Positions(a + n, b) \in Seq(Nat) /\ Len(Positions(a + n, b)) = b - a - n
      /\ \A i \in 1 .. b - a - n : Positions(a + n, b)[i] = a + n + i - 1
  BY DEF Positions
<1>3. /\ Positions(a, a + n) \in Seq(Nat) /\ Len(Positions(a, a + n)) = n
      /\ \A i \in 1 .. n : Positions(a, a + n)[i] = a + i - 1
  BY DEF Positions
<1> HIDE DEF q
<1>4. rest = Positions(a + n, b)
  <2>1. \A i \in n + 1 .. b - a : q[i] \in Nat
    BY <1>1
  <2>2. rest \in Seq(Nat) /\ Len(rest) = b - a - n
        /\ \A i \in 1 .. b - a - n : rest[i] = q[n + 1 + i - 1]
    BY <2>1, SubSeqProperties
  <2>3. \A i \in 1 .. b - a - n : rest[i] = a + n + i - 1
    BY <1>1, <2>2
  <2> HIDE DEF rest
  <2> QED BY <1>2, <2>2, <2>3, SeqEqual
<1>5. front = Positions(a, a + n)
  <2>1. \A i \in 1 .. n : q[i] \in Nat
    BY <1>1
  <2>2. front \in Seq(Nat) /\ Len(front) = n
        /\ \A i \in 1 .. n : front[i] = q[1 + i - 1]
    BY <2>1, SubSeqProperties
  <2>3. \A i \in 1 .. n : front[i] = a + i - 1
    BY <1>1, <2>2
  <2> HIDE DEF front
  <2> QED BY <1>3, <2>2, <2>3, SeqEqual
<1> QED BY <1>1, <1>4, <1>5 DEF q

\* A run of one position.
LEMMA PositionsOne ==
  ASSUME NEW a \in Nat
  PROVE  Positions(a, a + 1) = <<a>>
<1> DEFINE one == Positions(a, a + 1)
           first == <<a>>
<1>1. one \in Seq(Nat) /\ Len(one) = 1 /\ one[1] = a
  BY DEF Positions
<1>2. first \in Seq(Nat) /\ Len(first) = 1 /\ first[1] = a
  OBVIOUS
<1>3. one = first
  <2> HIDE DEF one, first
  <2> QED BY <1>1, <1>2, SeqEqual
<1> QED BY <1>3

=============================================================================
