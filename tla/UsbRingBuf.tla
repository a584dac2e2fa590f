----------------------------- MODULE UsbRingBuf -----------------------------
(***************************************************************************)
(* The index arithmetic of usblib/usbringbuf.c.  A tUSBRingBufObject is    *)
(* the pair of indices r (ulReadIndex) and w (ulWriteIndex) into a         *)
(* workspace of Size bytes (ulSize); r = w means empty, so the ring never  *)
(* holds more than Size - 1 bytes.                                         *)
(*                                                                         *)
(* The operators take the indices as the C functions read them: once each, *)
(* at the start.  They are meant to be read with r or w possibly equal to  *)
(* a transient value >= Size, because UpdateIndexAtomic stores the sum     *)
(* before it wraps it.                                                     *)
(***************************************************************************)
EXTENDS Integers

CONSTANT Size

\* USBRingBufInit asserts a non-zero size; a ring of one byte can hold none.
ASSUME SizeAssumption == Size \in Nat /\ Size >= 2

Index == 0 .. Size - 1

AtMost(n, limit) == IF n < limit THEN n ELSE limit

\* Mutants of the definitions below, each a plausible slip.
WrapIndex_Late(i) == IF i > Size THEN i - Size ELSE i
ContigFree_NoGap(r, w) ==
  IF r > w THEN r - w ELSE Size - w - (IF r = 0 THEN 1 ELSE 0)
ContigFree_FullLooksEmpty(r, w) == IF r > w THEN (r - w) - 1 ELSE Size - w
AdvanceReadCount_Unclamped(r, w, n) == n

\* The second half of UpdateIndexAtomic: the compare and the subtraction.
WrapIndex(i) == IF i >= Size THEN i - Size ELSE i

Full(r, w) == (w + 1) % Size = r

Empty(r, w) == w = r

Used(r, w) == IF w >= r THEN w - r ELSE Size - (r - w)

Free(r, w) == (Size - 1) - Used(r, w)

ContigUsed(r, w) == IF w >= r THEN w - r ELSE Size - r

ContigFree(r, w) ==
  IF r > w THEN (r - w) - 1
           ELSE Size - w - (IF r = 0 THEN 1 ELSE 0)

\* What USBRingBufAdvanceRead adds to the read index: never past the data.
AdvanceReadCount(r, w, n) == AtMost(n, Used(r, w))

\* USBRingBufAdvanceRead run to its end.
AdvanceRead(r, w, n) == WrapIndex(r + AdvanceReadCount(r, w, n))

\* USBRingBufAdvanceWrite run to its end, as the new pair of indices: a
\* caller that claims more bytes than were free pushes the read index on.
AdvanceWrite(r, w, n) ==
  LET w1 == WrapIndex(w + n)
  IN  [write |-> w1,
       read  |-> IF Free(r, w) < n THEN WrapIndex(w1 + 1) ELSE r]
=============================================================================
