------------------------------ MODULE UsbRingRx ------------------------------
(***************************************************************************)
(* The ring of a receive buffer, shared by the USB interrupt handler, which *)
(* fills it, and the client, which empties it from the main loop or in the  *)
(* handler's callback.                                                     *)
(*                                                                         *)
(* The handler runs to its end before the client goes on.  The client takes *)
(* one step per access to the shared ring, and pc names the access that     *)
(* comes next.  As the code is built the handler can come in at all of them, *)
(* because the IntDisable/IntEnable pair of UpdateIndexAtomic and of        *)
(* USBRingBufFlush is commented out, and the ring survives that at all but  *)
(* two: between the test that finds the read index past the end and the     *)
(* subtraction that follows, and, after a step of several bytes, between    *)
(* the addition and that test.  Gaps says where it does come in: nowhere in *)
(* usb_dev_serial, whose calls are all made in handlers of one priority.    *)
(*                                                                         *)
(* The bytes carry their position in the stream, so that a stale or        *)
(* repeated byte is a wrong number.                                        *)
(***************************************************************************)
EXTENDS UsbRingBuf, Sequences

CONSTANTS MaxAdvance, \* the largest count the client passes to AdvanceRead
          MaxTaken,   \* the largest count the callback takes from the ring
          Gaps,       \* the accesses before which the handler may come in
          Modulus,    \* 2^32: the indices are unsigned
          MaxBytes    \* bound on the stream the handler receives

\* The client's accesses inside a call.
Accesses == {"load", "add", "test", "skip", "skiptest", "subtract", "flush"}

ASSUME RxAssumption ==
  /\ MaxAdvance \in Nat /\ MaxTaken \in Nat /\ MaxBytes \in Nat
  /\ Modulus \in Nat /\ Modulus > 2 * Size
  /\ Gaps \subseteq Accesses

VARIABLES pucBuf,       \* the workspace
          ulReadIndex,
          ulWriteIndex,
          pc,           \* the client's next access to the ring
          todo,         \* bytes left of the USBRingBufRead in progress
          delta,        \* what the index update in progress adds
          ucTemp,       \* the byte a USBRingBufReadOne has fetched
          saved,        \* the write index a flush has loaded
          isr,          \* the handler: not running, or what it does next
          received,     \* bytes the handler has stored so far
          head,         \* stream position of the byte at the read index
          got           \* the byte the last USBRingBufReadOne returned

clientVars == <<pc, todo, delta, ucTemp, saved>>
ghostVars  == <<received, head, got>>
vars == <<pucBuf, ulReadIndex, ulWriteIndex, clientVars, isr, ghostVars>>

NoByte == -1
Byte == Nat \cup {NoByte}

Init ==
  /\ pucBuf = [i \in Index |-> NoByte]
  /\ ulReadIndex = 0 /\ ulWriteIndex = 0
  /\ pc = "idle" /\ todo = 0 /\ delta = 0 /\ ucTemp = NoByte /\ saved = 0
  /\ isr = "idle"
  /\ received = 0 /\ head = 0 /\ got = NoByte

-----------------------------------------------------------------------------
(* The interrupt handler: HandleRxAvailable of usbbuffer.c.                 *)

\* Where the handler can find the client.
Interruptible == pc = "idle" \/ pc \in Gaps

\* The transfer function stores n bytes at the write index, as many as
\* ContigFree allows, and USBRingBufAdvanceWrite claims them.  Bytes stored
\* past the end of the workspace land in somebody else's memory.
Transfer(n) ==
  LET adv == AdvanceWrite(ulReadIndex, ulWriteIndex, n) IN
  /\ received + n <= MaxBytes
  /\ pucBuf' = [i \in Index |->
                  IF i >= ulWriteIndex /\ i < ulWriteIndex + n
                    THEN received + (i - ulWriteIndex)
                    ELSE pucBuf[i]]
  /\ ulWriteIndex' = adv.write
  /\ ulReadIndex' = adv.read
  /\ received' = received + n
  /\ UNCHANGED <<clientVars, head, got>>

NoTransfer == UNCHANGED <<pucBuf, ulReadIndex, ulWriteIndex, clientVars, ghostVars>>

\* The packet, or as much of it as fits before the end of the workspace ...
Receive ==
  /\ isr = "idle" /\ Interruptible
  /\ \/ \E n \in 1 .. ContigFree(ulReadIndex, ulWriteIndex) : Transfer(n)
     \/ NoTransfer
  /\ isr' = "rest"

\* ... and what is left of it, as much as fits at the beginning ...
ReceiveRest ==
  /\ isr = "rest"
  /\ \/ \E n \in 1 .. ContigFree(ulReadIndex, ulWriteIndex) : Transfer(n)
     \/ NoTransfer
  /\ isr' = "call"

\* Mutant: the bytes the callback has taken stay in the ring.
Callback_Forgets ==
  /\ isr = "call"
  /\ \E k \in 0 .. MaxTaken :
       /\ k > 0 => pc = "idle"
       /\ head' = head + AdvanceReadCount(ulReadIndex, ulWriteIndex, k)
  /\ isr' = "idle"
  /\ UNCHANGED <<pucBuf, ulReadIndex, ulWriteIndex, clientVars, received, got>>

\* ... then the client's callback, which takes k bytes, and
\* USBRingBufAdvanceRead, which is called even if it has taken none and wraps
\* an index the main loop has left past the end.  A client does not take
\* bytes in its callback while its main loop is in the middle of a read.
Callback ==
  /\ isr = "call"
  /\ \E k \in 0 .. MaxTaken :
       /\ k > 0 => pc = "idle"
       /\ ulReadIndex' = AdvanceRead(ulReadIndex, ulWriteIndex, k)
       /\ head' = head + AdvanceReadCount(ulReadIndex, ulWriteIndex, k)
  /\ isr' = "idle"
  /\ UNCHANGED <<pucBuf, ulWriteIndex, clientVars, received, got>>

-----------------------------------------------------------------------------
(* The client's main loop.                                                  *)

UNCHANGED_ByClient == isr = "idle" /\ UNCHANGED <<pucBuf, ulWriteIndex, isr, received>>

\* USBBufferRead bounds the length by Used before it calls USBRingBufRead.
BeginRead ==
  /\ pc = "idle"
  /\ \E n \in 1 .. Used(ulReadIndex, ulWriteIndex) : todo' = n
  /\ pc' = "load"
  /\ UNCHANGED <<ulReadIndex, delta, ucTemp, saved, head, got>>
  /\ UNCHANGED_ByClient

\* USBRingBufReadOne: fetch the byte at the read index ...
LoadByte ==
  /\ pc = "load"
  /\ ucTemp' = IF ulReadIndex \in Index THEN pucBuf[ulReadIndex] ELSE NoByte
  /\ delta' = 1
  /\ todo' = todo - 1
  /\ pc' = "add"
  /\ UNCHANGED <<ulReadIndex, saved, head, got>>
  /\ UNCHANGED_ByClient

\* USBRingBufAdvanceRead: clamp the count, then update the index.
BeginAdvance ==
  /\ pc = "idle"
  /\ \E n \in 1 .. MaxAdvance :
       delta' = AdvanceReadCount(ulReadIndex, ulWriteIndex, n)
  /\ pc' = "skip"
  /\ UNCHANGED <<ulReadIndex, todo, ucTemp, saved, head, got>>
  /\ UNCHANGED_ByClient

\* ... UpdateIndexAtomic: *pulVal += ulDelta, one step since the handler does
\* not write an index that lies in the workspace while a call is under way.
AddToIndex ==
  /\ pc \in {"add", "skip"}
  /\ ulReadIndex' = ulReadIndex + delta
  /\ head' = head + delta
  /\ got' = IF pc = "add" THEN ucTemp ELSE got
  /\ ucTemp' = NoByte
  /\ delta' = 0
  /\ pc' = IF pc = "add" THEN "test" ELSE "skiptest"
  /\ UNCHANGED <<todo, saved>>
  /\ UNCHANGED_ByClient

\* The call goes on with the next byte or returns.
Onward == IF todo > 0 THEN "load" ELSE "idle"

\* ... if(*pulVal >= ulSize) ...
TestIndex ==
  /\ pc \in {"test", "skiptest"}
  /\ pc' = IF ulReadIndex >= Size THEN "subtract" ELSE Onward
  /\ UNCHANGED <<ulReadIndex, todo, delta, ucTemp, saved, head, got>>
  /\ UNCHANGED_ByClient

\* ... *pulVal -= ulSize, whatever the index is by now.
SubtractSize ==
  /\ pc = "subtract"
  /\ ulReadIndex' = IF ulReadIndex >= Size THEN ulReadIndex - Size
                                           ELSE ulReadIndex - Size + Modulus
  /\ pc' = Onward
  /\ UNCHANGED <<todo, delta, ucTemp, saved, head, got>>
  /\ UNCHANGED_ByClient

\* USBRingBufFlush: load the write index, then store it as the read index.
FlushLoad ==
  /\ pc = "idle"
  /\ saved' = ulWriteIndex
  /\ pc' = "flush"
  /\ UNCHANGED <<ulReadIndex, todo, delta, ucTemp, head, got>>
  /\ UNCHANGED_ByClient

FlushStore ==
  /\ pc = "flush"
  /\ ulReadIndex' = saved
  /\ head' = head + Used(ulReadIndex, saved)
  /\ saved' = 0
  /\ pc' = "idle"
  /\ UNCHANGED <<todo, delta, ucTemp, got>>
  /\ UNCHANGED_ByClient

Client == \/ BeginRead \/ LoadByte \/ BeginAdvance \/ AddToIndex
          \/ TestIndex \/ SubtractSize \/ FlushLoad \/ FlushStore

Handler == Receive \/ ReceiveRest \/ Callback

Next == Handler \/ Client

Spec == Init /\ [][Next]_vars
-----------------------------------------------------------------------------

(***************************************************************************)
(* Properties.                                                             *)
(***************************************************************************)

\* The read index as it stands once the update in progress has wrapped it.
SettledRead == WrapIndex(ulReadIndex)

\* Stored stays i places behind the settled read index.
At(i) == pucBuf[WrapIndex(SettledRead + i)]

\* Every variable stays in its range; the read index may rest on Size or
\* above only within UpdateIndexAtomic.
TypeOK ==
  /\ pucBuf \in [Index -> Byte]
  /\ ulReadIndex \in 0 .. 2 * Size - 1
  /\ ulReadIndex \in Index \/ pc \in {"test", "skiptest", "subtract"}
  /\ ulWriteIndex \in Index
  /\ pc \in Accesses \cup {"idle"}
  /\ todo \in 0 .. Size - 1
  /\ delta \in 0 .. Size - 1
  /\ ucTemp \in Byte
  /\ saved \in Index
  /\ isr \in {"idle", "rest", "call"}
  /\ received \in Nat /\ head \in Nat
  /\ got \in Byte

\* Whenever the handler asks how many bytes fit after the write index
\* (USBRingBufContigFree), the answer ends inside the workspace and before
\* the oldest unread byte, wherever the client was interrupted.
FreeBlockIsFree ==
  (isr = "rest" \/ (isr = "idle" /\ Interruptible)) =>
    LET n == ContigFree(ulReadIndex, ulWriteIndex) IN
    /\ n >= 0
    /\ ulWriteIndex + n <= Size
    /\ Used(SettledRead, ulWriteIndex) + n <= Size - 1

\* The unread bytes are the last ones received, in the order of arrival.
ContentsInOrder ==
  /\ head + Used(SettledRead, ulWriteIndex) = received
  /\ \A i \in 0 .. Used(SettledRead, ulWriteIndex) - 1 : At(i) = head + i

\* The client and the handler see a first-in first-out queue of Size - 1
\* bytes, whatever the interleaving of their accesses that Gaps allows.
Queue == INSTANCE ByteQueue WITH
  Capacity <- Size - 1, Lossy <- TRUE,
  queue <- [i \in 1 .. Used(SettledRead, ulWriteIndex) |-> At(i - 1)],
  put <- received,
  got <- IF got = NoByte THEN << >> ELSE <<got>>

QueueSpec == Queue!Spec
=============================================================================
