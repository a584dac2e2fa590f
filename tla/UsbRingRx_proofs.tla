--------------------------- MODULE UsbRingRx_proofs ---------------------------
(***************************************************************************)
(* The receive ring for every size of the workspace: as long as the handler *)
(* keeps out of the two accesses named by Safe, the other accesses of an    *)
(* index update that is not atomic do no harm, and the ring is a ByteQueue. *)
(***************************************************************************)
EXTENDS UsbRingRx, UsbRingBuf_proofs

\* Where the handler must not come in: between the test that finds the index
\* past the end and the subtraction and, if the client may have stepped over
\* the end, between the addition and that test.  The masked update that the
\* comments of usbringbuf.c describe satisfies it, and so do the callbacks of
\* usb_dev_serial, between whose accesses no handler runs at all.
Safe == "subtract" \notin Gaps /\ ("skiptest" \in Gaps => MaxAdvance <= 1)

\* What the client's locals say about the ring at each of its accesses: the
\* handler may have added bytes since they were set, and wrapped the index.
ClientInv ==
  /\ pc = "idle" => todo = 0
  /\ pc = "load" => todo >= 1 /\ todo <= Used(ulReadIndex, ulWriteIndex)
  /\ pc = "add"  => /\ delta = 1
                    /\ todo + 1 <= Used(ulReadIndex, ulWriteIndex)
                    /\ ucTemp = head
  /\ pc = "skip" => /\ delta <= MaxAdvance /\ todo = 0
                    /\ delta <= Used(ulReadIndex, ulWriteIndex)
  /\ pc \in {"test", "subtract"} => todo <= Used(SettledRead, ulWriteIndex)
  /\ pc = "test" => ulReadIndex <= Size
  /\ pc = "skiptest" => /\ todo = 0
                        /\ MaxAdvance <= 1 => ulReadIndex <= Size
  /\ pc = "subtract" => ulReadIndex >= Size
  /\ pc = "flush" => /\ todo = 0
                     /\ Used(ulReadIndex, saved)
                          <= Used(ulReadIndex, ulWriteIndex)
  /\ isr # "idle" => Interruptible

\* The inductive invariant.
IInv == TypeOK /\ ClientInv /\ ContentsInOrder

-----------------------------------------------------------------------------

LEMMA InitIInv == Init => IInv
<1> SUFFICES ASSUME Init PROVE IInv
  OBVIOUS
<1>1. TypeOK
  BY SizeAssumption DEF Init, TypeOK, Index, Byte, NoByte
<1>2. ClientInv
  BY DEF Init, ClientInv
<1>3. Used(SettledRead, ulWriteIndex) = 0
  <2>1. ulReadIndex = 0 /\ ulWriteIndex = 0
    BY DEF Init
  <2>2. SettledRead = 0
    BY <2>1, SizeAssumption DEF SettledRead, WrapIndex
  <2> QED
    BY <2>1, <2>2 DEF Used
<1>4. ContentsInOrder
  BY <1>3 DEF Init, ContentsInOrder
<1> QED
  BY <1>1, <1>2, <1>4 DEF IInv

\* The read index settles inside the workspace, and where the handler may
\* come in it has not gone beyond its end.
LEMMA SettledInRange ==
  ASSUME IInv
  PROVE  /\ ulReadIndex \in 0 .. 2 * Size - 1
         /\ SettledRead \in Index
         /\ pc \notin {"test", "skiptest", "subtract"} => SettledRead = ulReadIndex
         /\ Safe /\ Interruptible => ulReadIndex \in 0 .. Size
  BY SizeAssumption
  DEF IInv, TypeOK, ClientInv, SettledRead, WrapIndex, Index, Safe, Interruptible

\* A transfer of the handler into the block it was offered.
LEMMA TransferKeepsContents ==
  ASSUME IInv, Safe, Interruptible,
         NEW n \in 1 .. ContigFree(ulReadIndex, ulWriteIndex), Transfer(n)
  PROVE  /\ isr' \in {"idle", "rest", "call"} /\ (isr' # "idle" => Interruptible') => IInv'
         /\ received' = received + n /\ n \in 1 .. Size - 1
         /\ UNCHANGED <<head, got>>
<1> DEFINE r == ulReadIndex
           w == ulWriteIndex
<1>1. /\ pucBuf' = [i \in Index |->
                        IF i >= w /\ i < w + n THEN received + (i - w)
                                               ELSE pucBuf[i]]
      /\ ulWriteIndex' = AdvanceWrite(r, w, n).write
      /\ ulReadIndex' = AdvanceWrite(r, w, n).read
      /\ received' = received + n
      /\ UNCHANGED <<clientVars, head, got>>
  BY DEF Transfer
<1>2. /\ r \in 0 .. Size /\ w \in Index /\ SettledRead \in Index
      /\ SettledRead = WrapIndex(r)
      /\ n \in Nat \ {0} /\ received \in Nat /\ head \in Nat
  <2>1. /\ r \in 0 .. Size /\ w \in Index /\ SettledRead \in Index
        /\ received \in Nat /\ head \in Nat
    BY SettledInRange DEF IInv, TypeOK
  <2>2. ContigFree(r, w) \in 0 .. Size - 1
    BY <2>1, ContigFreeIsFree
  <2>3. n \in Nat \ {0}
    BY <2>2
  <2> QED
    BY <2>1, <2>3 DEF SettledRead
<1>3. /\ n \in 1 .. Size - 1
      /\ w + n <= Size
      /\ Used(SettledRead, w) + n <= Size - 1
      /\ Used(SettledRead, w) \in 0 .. Size - 1
  <2>1. LET m == ContigFree(r, w) IN
        /\ m \in 0 .. Size - 1
        /\ w + m <= Size
        /\ Used(SettledRead, w) + m <= Size - 1
    BY <1>2, ContigFreeIsFree
  <2>2. Used(SettledRead, w) \in 0 .. Size - 1
    BY <1>2, UsedInRange
  <2> QED
    BY <2>1, <2>2, <1>2, SizeAssumption DEF Index
<1>4. /\ ulReadIndex' = r /\ ulWriteIndex' \in Index
      /\ ulWriteIndex' = WrapIndex(w + n)
      /\ Used(r, ulWriteIndex') = Used(r, w) + n
      /\ Used(SettledRead, ulWriteIndex') = Used(SettledRead, w) + n
  BY <1>1, <1>2, AdvanceWriteAdds
<1>5. SettledRead' = SettledRead
  BY <1>4 DEF SettledRead
<1>6. isr' \in {"idle", "rest", "call"} => TypeOK'
  <2>1. pucBuf' \in [Index -> Byte]
    BY <1>1, <1>2 DEF IInv, TypeOK, Byte, Index
  <2> QED
    BY <2>1, <1>1, <1>2, <1>4 DEF IInv, TypeOK, clientVars, Index
<1>7. (isr' # "idle" => Interruptible') => ClientInv'
  <2>1. /\ UNCHANGED clientVars
        /\ Used(ulReadIndex', ulWriteIndex') = Used(r, w) + n
        /\ Used(SettledRead', ulWriteIndex') = Used(SettledRead, w) + n
        /\ ulReadIndex' = r /\ head' = head
    BY <1>1, <1>4, <1>5
  <2>2. /\ Used(r, w) \in Int /\ Used(r, saved) \in Int
        /\ Used(ulReadIndex', saved') = Used(r, saved)
    BY <1>2, <2>1, SizeAssumption DEF IInv, TypeOK, Used, Index, clientVars
  <2>3. todo \in Nat /\ delta \in Nat
    BY DEF IInv, TypeOK
  <2> QED
    BY <2>1, <2>2, <2>3, <1>2, <1>3
    DEF IInv, ClientInv, clientVars
<1>8. ContentsInOrder'
  <2>1. head' + Used(SettledRead', ulWriteIndex') = received'
    BY <1>1, <1>2, <1>3, <1>4, <1>5 DEF IInv, ContentsInOrder
  <2>2. ASSUME NEW i \in 0 .. Used(SettledRead, w) + n - 1
        PROVE  At(i)' = head + i
    <3> DEFINE place == WrapIndex(SettledRead + i)
    <3>1. /\ Used(SettledRead, w) \in 0 .. Size - 1
          /\ head + Used(SettledRead, w) = received
      BY <1>2, UsedInRange DEF IInv, ContentsInOrder
    <3>2. place \in Index
      BY <1>2, <1>3, <3>1, SizeAssumption DEF WrapIndex, Index
    <3>3. At(i)' = pucBuf'[place]
      BY <1>5 DEF At
    <3>4. CASE i < Used(SettledRead, w)
      <4>1. ~(place >= w /\ place < w + n)
        BY <3>4, <1>2, <1>3, <3>1, SizeAssumption DEF Used, WrapIndex, Index
      <4>2. At(i)' = At(i)
        BY <4>1, <3>2, <3>3, <1>1 DEF At
      <4> QED
        BY <4>2, <3>4, <3>1, SizeAssumption DEF IInv, ContentsInOrder
    <3>5. CASE i >= Used(SettledRead, w)
      <4>1. place = w + (i - Used(SettledRead, w))
        BY <3>5, <1>2, <1>3, <3>1, SizeAssumption DEF Used, WrapIndex, Index
      <4>2. At(i)' = received + (i - Used(SettledRead, w))
        <5>1. place >= w /\ place < w + n
              /\ received + (place - w) = received + (i - Used(SettledRead, w))
          BY <4>1, <3>5, <1>2, <1>3, <3>1, SizeAssumption DEF Index
        <5> QED BY <5>1, <3>2, <3>3, <1>1
      <4> QED
        BY <4>2, <3>1, <1>2
    <3> QED
      BY <3>4, <3>5, <3>1, <1>2, <1>3
  <2>3. Used(SettledRead', ulWriteIndex') = Used(SettledRead, w) + n
    BY <1>4, <1>5
  <2>4. \A i \in 0 .. Used(SettledRead', ulWriteIndex') - 1 :
          At(i)' = head' + i
    BY <2>2, <2>3, <1>1, <1>2, <1>3
  <2> QED
    BY <2>1, <2>4 DEF ContentsInOrder
<1> QED
  BY <1>1, <1>3, <1>6, <1>7, <1>8 DEF IInv

\* The handler's steps.
LEMMA HandlerKeepsIInv ==
  ASSUME IInv, Safe, Handler
  PROVE  IInv'
<1>1. CASE Receive \/ ReceiveRest
  <2>1. /\ Interruptible /\ isr' \in {"rest", "call"}
        /\ \/ \E n \in 1 .. ContigFree(ulReadIndex, ulWriteIndex) : Transfer(n)
           \/ NoTransfer
    BY <1>1 DEF Receive, ReceiveRest, IInv, ClientInv
  <2>2. UNCHANGED clientVars /\ Interruptible'
    BY <2>1 DEF Transfer, NoTransfer, Interruptible, clientVars
  <2>3. CASE NoTransfer
    <3>1. UNCHANGED <<pucBuf, ulReadIndex, ulWriteIndex, clientVars, ghostVars>>
      BY <2>3 DEF NoTransfer
    <3> QED
      BY <3>1, <2>1, <2>2 DEF IInv, TypeOK, ClientInv, ContentsInOrder, At, SettledRead,
                              clientVars, ghostVars
  <2> QED
    BY <2>1, <2>2, <2>3, TransferKeepsContents
<1>2. CASE Callback
  <2> DEFINE r == ulReadIndex
             w == ulWriteIndex
  <2>1. PICK k \in 0 .. MaxTaken :
          /\ k > 0 => pc = "idle"
          /\ ulReadIndex' = AdvanceRead(r, w, k)
          /\ head' = head + AdvanceReadCount(r, w, k)
    BY <1>2 DEF Callback
  <2>2. /\ r \in 0 .. Size /\ w \in Index /\ SettledRead \in Index
        /\ SettledRead = WrapIndex(r) /\ SettledRead \in Nat
        /\ pc \notin {"test", "skiptest", "subtract"} => r \in Index /\ SettledRead = r
        /\ head \in Nat /\ received \in Nat /\ Interruptible
        /\ UNCHANGED <<pucBuf, ulWriteIndex, pc, todo, delta, ucTemp, saved, received, got>>
        /\ isr' = "idle"
    <3>1. Interruptible
      BY <1>2 DEF Callback, IInv, ClientInv
    <3> QED
      BY <1>2, <3>1, SettledInRange DEF Callback, IInv, TypeOK, SettledRead, clientVars, Index
  <2>3. /\ Used(SettledRead, w) \in 0 .. Size - 1
        /\ head + Used(SettledRead, w) = received
        /\ \A i \in 0 .. Used(SettledRead, w) - 1 : At(i) = head + i
    BY <2>2, UsedInRange DEF IInv, ContentsInOrder
  <2>4. CASE k = 0
    <3>1. Used(r, w) = Used(SettledRead, w)
      BY <2>2, ContigFreeIsFree
    <3>2. AdvanceReadCount(r, w, 0) = 0
      BY <2>3, <3>1 DEF AdvanceReadCount, AtMost
    <3>3. ulReadIndex' = SettledRead /\ head' = head
      BY <2>1, <2>2, <2>4, <3>2 DEF AdvanceRead
    <3>4. SettledRead' = SettledRead
      BY <2>2, <3>3, SizeAssumption DEF SettledRead, WrapIndex, Index
    <3>5. TypeOK'
      BY <2>2, <3>3, SizeAssumption DEF IInv, TypeOK, Index
    <3>6. ClientInv'
      <4>1. /\ UNCHANGED <<pc, todo, delta, ucTemp, saved, head>> /\ ulWriteIndex' = w
            /\ ulReadIndex' = SettledRead /\ SettledRead' = SettledRead
            /\ isr' = "idle" /\ SettledRead \in Nat /\ SettledRead < Size
            /\ pc # "subtract"
        BY <2>2, <3>3, <3>4, SizeAssumption DEF Index, Interruptible, Safe
      <4>2. pc \notin {"test", "skiptest", "subtract"} => ulReadIndex' = r
        BY <2>2, <3>3
      <4> QED
        BY <4>1, <4>2, SizeAssumption DEF IInv, ClientInv
    <3>7. ContentsInOrder'
      BY <2>2, <3>3, <3>4 DEF IInv, ContentsInOrder, At
    <3> QED
      BY <3>5, <3>6, <3>7 DEF IInv
  <2>5. CASE k > 0
    <3> DEFINE d == AdvanceReadCount(r, w, k)
    <3>1. /\ pc = "idle" /\ r \in Index /\ SettledRead = r
          /\ d \in 0 .. Used(r, w) /\ MaxTaken \in Nat
      BY <2>1, <2>2, <2>3, <2>5, RxAssumption DEF AdvanceReadCount, AtMost
    <3>2. /\ ulReadIndex' = WrapIndex(r + d) /\ head' = head + d
          /\ WrapIndex(r + d) \in Index
          /\ Used(WrapIndex(r + d), w) = Used(r, w) - d
      BY <2>1, <2>2, <3>1, AdvanceReadRemoves DEF AdvanceRead
    <3>3. SettledRead' = WrapIndex(r + d)
      BY <3>2, SizeAssumption DEF SettledRead, WrapIndex, Index
    <3>4. TypeOK'
      BY <2>2, <2>3, <3>1, <3>2, SizeAssumption DEF IInv, TypeOK, Index
    <3>5. ClientInv'
      BY <2>2, <3>1 DEF IInv, ClientInv
    <3>6. head' + Used(SettledRead', ulWriteIndex') = received'
      BY <2>2, <2>3, <3>1, <3>2, <3>3
    <3>7. ASSUME NEW i \in 0 .. Used(r, w) - d - 1
          PROVE  At(i)' = head' + i
      <4>1. At(i)' = At(i + d)
        BY <2>2, <2>3, <3>1, <3>2, <3>3, SizeAssumption DEF At, WrapIndex, Index
      <4>2. At(i + d) = head + (i + d)
        BY <2>3, <3>1
      <4> QED
        BY <4>1, <4>2, <2>2, <2>3, <3>1, <3>2
    <3> QED
      BY <2>2, <3>2, <3>3, <3>4, <3>5, <3>6, <3>7 DEF IInv, ContentsInOrder
  <2> QED
    BY <2>1, <2>4, <2>5
<1> QED
  BY <1>1, <1>2 DEF Handler

\* A step of the client that leaves the ring and the stream alone.
LEMMA QuietKeepsContents ==
  ASSUME IInv, UNCHANGED <<pucBuf, ulReadIndex, ulWriteIndex, received, head>>
  PROVE  ContentsInOrder'
  BY DEF IInv, ContentsInOrder, At, SettledRead

\* The client's steps.
LEMMA ClientKeepsIInv ==
  ASSUME IInv, Client
  PROVE  IInv'
<1> DEFINE r == ulReadIndex
           w == ulWriteIndex
<1>0. /\ r \in 0 .. 2 * Size - 1 /\ w \in Index /\ SettledRead \in Index
      /\ SettledRead = WrapIndex(r)
      /\ pc \notin {"test", "skiptest", "subtract"} => r \in Index /\ SettledRead = r
      /\ isr = "idle" /\ isr' = "idle"
      /\ head \in Nat /\ received \in Nat
      /\ Used(SettledRead, w) \in 0 .. Size - 1
      /\ head + Used(SettledRead, w) = received
  BY SettledInRange, UsedInRange
  DEF IInv, TypeOK, ContentsInOrder, SettledRead, Index, Client, UNCHANGED_ByClient,
      BeginRead, LoadByte, BeginAdvance, AddToIndex, TestIndex, SubtractSize, FlushLoad,
      FlushStore
<1>1. CASE BeginRead
  <2>1. ContentsInOrder'
    BY <1>1, QuietKeepsContents DEF BeginRead, UNCHANGED_ByClient
  <2>2. TypeOK' /\ ClientInv'
    <3>1. PICK n \in 1 .. Used(r, w) : todo' = n
      BY <1>1 DEF BeginRead
    <3>2. Used(r, w) \in 0 .. Size - 1
      BY <1>0, <1>1 DEF BeginRead
    <3>3. todo' \in 1 .. Size - 1 /\ todo' <= Used(r, w)
      BY <3>1, <3>2, SizeAssumption
    <3> QED
      BY <1>0, <3>3, <1>1 DEF BeginRead, UNCHANGED_ByClient, IInv, TypeOK, ClientInv, Accesses
  <2> QED
    BY <2>1, <2>2 DEF IInv
<1>2. CASE LoadByte
  <2>1. ContentsInOrder'
    BY <1>2, QuietKeepsContents DEF LoadByte, UNCHANGED_ByClient
  <2>2. ucTemp' = head /\ ucTemp' \in Byte
    <3>1. At(0) = head /\ At(0) = pucBuf[r]
      BY <1>0, <1>2, SizeAssumption
      DEF LoadByte, IInv, ClientInv, TypeOK, ContentsInOrder, At, WrapIndex,
          Index
    <3> QED
      BY <3>1, <1>0, <1>2 DEF LoadByte, Byte
  <2>3. TypeOK' /\ ClientInv'
    BY <1>0, <1>2, <2>2, SizeAssumption
    DEF LoadByte, UNCHANGED_ByClient, IInv, TypeOK, ClientInv, Byte, Accesses
  <2> QED
    BY <2>1, <2>3 DEF IInv
<1>3. CASE BeginAdvance
  <2>1. ContentsInOrder'
    BY <1>3, QuietKeepsContents DEF BeginAdvance, UNCHANGED_ByClient
  <2>2. TypeOK' /\ ClientInv'
    BY <1>0, <1>3, SizeAssumption, RxAssumption
    DEF BeginAdvance, UNCHANGED_ByClient, IInv, TypeOK, ClientInv, AdvanceReadCount,
        AtMost, Accesses
  <2> QED
    BY <2>1, <2>2 DEF IInv
<1>4. CASE AddToIndex
  <2>1. /\ pc \in {"add", "skip"} /\ r \in Index /\ SettledRead = r
        /\ delta \in 0 .. Used(r, w) /\ (pc = "add" => delta = 1)
        /\ (pc = "skip" => delta <= MaxAdvance)
    BY <1>0, <1>4 DEF AddToIndex, UNCHANGED_ByClient, IInv, TypeOK, ClientInv
  <2>2. /\ ulReadIndex' = r + delta
        /\ SettledRead' = WrapIndex(r + delta)
        /\ SettledRead' \in Index
        /\ Used(SettledRead', w) = Used(r, w) - delta
        /\ r + delta \in 0 .. 2 * Size - 1
        /\ delta <= 1 => r + delta <= Size
        /\ ulWriteIndex' = w
    BY <1>4, <1>0, <2>1, AdvanceReadRemoves, SizeAssumption
    DEF AddToIndex, UNCHANGED_ByClient, SettledRead, Index
  <2>3. TypeOK'
    BY <1>0, <1>4, <2>1, <2>2, SizeAssumption
    DEF AddToIndex, UNCHANGED_ByClient, IInv, TypeOK, Byte, NoByte, Accesses
  <2>4. ClientInv'
    BY <1>0, <1>4, <2>1, <2>2, RxAssumption
    DEF AddToIndex, UNCHANGED_ByClient, IInv, TypeOK, ClientInv
  <2>5. ContentsInOrder'
    <3>1. head' + Used(SettledRead', ulWriteIndex') = received'
      BY <1>0, <1>4, <2>1, <2>2 DEF AddToIndex, UNCHANGED_ByClient
    <3>2. ASSUME NEW i \in 0 .. Used(r, w) - delta - 1
          PROVE  At(i)' = head' + i
      <4>1. At(i)' = At(i + delta)
        BY <1>0, <1>4, <2>1, <2>2, SizeAssumption
        DEF AddToIndex, UNCHANGED_ByClient, At, SettledRead, WrapIndex, Index
      <4>2. At(i + delta) = head + (i + delta)
        BY <1>0, <2>1 DEF IInv, ContentsInOrder
      <4> QED
        BY <4>1, <4>2, <1>0, <1>4, <2>1 DEF AddToIndex, UNCHANGED_ByClient
    <3> QED
      BY <3>1, <3>2, <2>2 DEF ContentsInOrder
  <2> QED
    BY <2>3, <2>4, <2>5 DEF IInv
<1>5. CASE TestIndex
  <2>1. ContentsInOrder'
    BY <1>5, QuietKeepsContents DEF TestIndex, UNCHANGED_ByClient
  <2>2. pc \in {"test", "skiptest"} /\ todo <= Used(SettledRead, w) /\ todo \in Nat
    BY <1>0, <1>5 DEF TestIndex, IInv, TypeOK, ClientInv
  <2>3. CASE r >= Size
    <3>1. pc' = "subtract"
      BY <1>5, <2>3 DEF TestIndex
    <3> QED
      BY <2>1, <2>2, <2>3, <3>1, <1>0, <1>5, SizeAssumption
      DEF TestIndex, UNCHANGED_ByClient, IInv, TypeOK, ClientInv, SettledRead, Accesses
  <2>4. CASE r < Size
    <3>1. r \in Index /\ SettledRead = r /\ pc' = Onward
      BY <1>0, <1>5, <2>4, SizeAssumption DEF TestIndex, WrapIndex, Index
    <3>2. TypeOK'
      BY <1>5, <3>1 DEF TestIndex, UNCHANGED_ByClient, IInv, TypeOK, Onward, Accesses
    <3>3. ClientInv'
      BY <1>0, <1>5, <2>2, <3>1 DEF TestIndex, UNCHANGED_ByClient, ClientInv, Onward
    <3> QED
      BY <2>1, <3>2, <3>3 DEF IInv
  <2> QED
    BY <1>0, <2>3, <2>4, SizeAssumption
<1>9. CASE SubtractSize
  <2>1. /\ r >= Size /\ todo <= Used(SettledRead, w) /\ todo \in Nat /\ pc' = Onward
    BY <1>9 DEF SubtractSize, IInv, TypeOK, ClientInv
  <2>2. /\ ulReadIndex' = SettledRead /\ SettledRead' = SettledRead
        /\ ulWriteIndex' = w
    BY <1>0, <1>9, <2>1, SizeAssumption
    DEF SubtractSize, UNCHANGED_ByClient, SettledRead, WrapIndex, Index
  <2>3. TypeOK'
    BY <1>0, <1>9, <2>1, <2>2, SizeAssumption
    DEF SubtractSize, UNCHANGED_ByClient, IInv, TypeOK, Onward, Index, Accesses
  <2>4. ClientInv'
    BY <1>0, <1>9, <2>1, <2>2 DEF SubtractSize, UNCHANGED_ByClient, ClientInv, Onward
  <2>5. ContentsInOrder'
    BY <1>9, <2>2 DEF SubtractSize, UNCHANGED_ByClient, IInv, ContentsInOrder, At
  <2> QED
    BY <2>3, <2>4, <2>5 DEF IInv
<1>6. CASE FlushLoad
  <2>1. ContentsInOrder'
    BY <1>6, QuietKeepsContents DEF FlushLoad, UNCHANGED_ByClient
  <2>2. TypeOK' /\ ClientInv'
    BY <1>0, <1>6, SizeAssumption
    DEF FlushLoad, UNCHANGED_ByClient, IInv, TypeOK, ClientInv, Accesses
  <2> QED
    BY <2>1, <2>2 DEF IInv
<1>7. CASE FlushStore
  <2> DEFINE d == Used(r, saved)
  <2>1. /\ pc = "flush" /\ saved \in Index /\ r \in Index /\ SettledRead = r
        /\ d \in 0 .. Used(r, w)
    BY <1>0, <1>7, UsedInRange DEF FlushStore, UNCHANGED_ByClient, IInv, TypeOK, ClientInv
  <2>2. saved = WrapIndex(r + d)
    BY <2>1, SizeAssumption DEF Used, WrapIndex, Index
  <2>3. /\ ulReadIndex' = saved /\ SettledRead' = saved /\ ulWriteIndex' = w
        /\ Used(saved, w) = Used(r, w) - d
        /\ head' = head + d /\ received' = received /\ pucBuf' = pucBuf
    BY <1>0, <1>7, <2>1, <2>2, AdvanceReadRemoves, SizeAssumption
    DEF FlushStore, UNCHANGED_ByClient, SettledRead, WrapIndex, Index
  <2>4. TypeOK' /\ ClientInv'
    BY <1>0, <1>7, <2>1, <2>3, SizeAssumption
    DEF FlushStore, UNCHANGED_ByClient, IInv, TypeOK, ClientInv, Index
  <2>5. ContentsInOrder'
    <3>1. ASSUME NEW i \in 0 .. Used(r, w) - d - 1
          PROVE  At(i)' = head' + i
      <4>1. At(i)' = At(i + d)
        BY <1>0, <2>1, <2>2, <2>3, SizeAssumption
        DEF At, SettledRead, WrapIndex, Index
      <4>2. At(i + d) = head + (i + d)
        BY <1>0, <2>1 DEF IInv, ContentsInOrder
      <4> QED
        BY <4>1, <4>2, <1>0, <2>1, <2>3
    <3> QED
      BY <3>1, <1>0, <2>1, <2>3 DEF ContentsInOrder
  <2> QED
    BY <2>4, <2>5 DEF IInv
<1> QED
  BY <1>1, <1>2, <1>3, <1>4, <1>5, <1>6, <1>7, <1>9 DEF Client

-----------------------------------------------------------------------------

LEMMA NextKeepsIInv ==
  ASSUME IInv, Safe, [Next]_vars
  PROVE  IInv'
<1>1. CASE UNCHANGED vars
  BY <1>1 DEF vars, clientVars, ghostVars, IInv, TypeOK, ClientInv,
              ContentsInOrder, At, SettledRead, Interruptible
<1> QED
  BY <1>1, HandlerKeepsIInv, ClientKeepsIInv DEF Next

\* The inductive invariant holds of every behaviour.
THEOREM RxInvariant ==
  ASSUME Safe
  PROVE  Spec => []IInv
<1>1. Init => IInv
  BY InitIInv
<1>2. IInv /\ [Next]_vars => IInv'
  BY NextKeepsIInv
<1> QED
  BY <1>1, <1>2, PTL DEF Spec

\* The indices and the client's locals keep their types, and the read index
\* leaves the workspace only within UpdateIndexAtomic.
THEOREM RxTypeCorrect ==
  ASSUME Safe
  PROVE  Spec => []TypeOK
<1>1. IInv => TypeOK
  BY DEF IInv
<1> QED
  BY <1>1, RxInvariant, PTL

\* The unread bytes of the ring are the last bytes received, in order, for
\* every size of the ring, whatever the callback takes, and wherever else the
\* handler interrupts the client.
THEOREM RxContents ==
  ASSUME Safe
  PROVE  Spec => []ContentsInOrder
<1>1. IInv => ContentsInOrder
  BY DEF IInv
<1> QED
  BY <1>1, RxInvariant, PTL

\* The block USBRingBufContigFree offers the handler never leaves the
\* workspace and never covers a byte the client has still to read.
THEOREM RxFreeBlock ==
  ASSUME Safe
  PROVE  Spec => []FreeBlockIsFree
<1>1. IInv => FreeBlockIsFree
  <2> SUFFICES ASSUME IInv, isr = "rest" \/ (isr = "idle" /\ Interruptible)
               PROVE  LET n == ContigFree(ulReadIndex, ulWriteIndex) IN
                      /\ n >= 0
                      /\ ulWriteIndex + n <= Size
                      /\ Used(SettledRead, ulWriteIndex) + n <= Size - 1
    BY DEF FreeBlockIsFree
  <2>1. Interruptible
    BY DEF IInv, ClientInv
  <2>2. ulReadIndex \in 0 .. Size /\ ulWriteIndex \in Index
    BY <2>1, SettledInRange DEF IInv, TypeOK
  <2> QED
    BY <2>2, ContigFreeIsFree DEF SettledRead
<1> QED
  BY <1>1, RxInvariant, PTL

-----------------------------------------------------------------------------
(* The ring implements the queue of ByteQueue: the queue holds the stream   *)
(* positions from head to received.                                        *)

\* What the refinement mapping makes of the ring.
AbsQueue == [i \in 1 .. Used(SettledRead, ulWriteIndex) |-> At(i - 1)]
AbsGot == IF got = NoByte THEN << >> ELSE <<got>>

\* The inductive invariant seen through the mapping.
AbsInv == /\ AbsQueue = Positions(head, received)
          /\ head \in Nat /\ received \in Nat
          /\ received - head \in 0 .. Size - 1
          /\ received - head = Used(SettledRead, ulWriteIndex)

LEMMA QueueIsPositions == IInv => AbsInv
<1> SUFFICES ASSUME IInv PROVE AbsInv
  OBVIOUS
<1>1. /\ SettledRead \in Index /\ ulWriteIndex \in Index
      /\ head \in Nat /\ received \in Nat
  BY SettledInRange DEF IInv, TypeOK
<1>2. Used(SettledRead, ulWriteIndex) \in 0 .. Size - 1
  BY <1>1, UsedInRange
<1>3. /\ head + Used(SettledRead, ulWriteIndex) = received
      /\ \A i \in 0 .. Used(SettledRead, ulWriteIndex) - 1 : At(i) = head + i
  BY DEF IInv, ContentsInOrder
<1>4. received - head = Used(SettledRead, ulWriteIndex)
  BY <1>1, <1>2, <1>3
<1>5. AbsQueue = [i \in 1 .. received - head |-> head + i - 1]
  <2>1. ASSUME NEW i \in 1 .. received - head PROVE At(i - 1) = head + i - 1
    BY <1>1, <1>2, <1>3, <1>4
  <2> QED BY <2>1, <1>4 DEF AbsQueue
<1> QED BY <1>1, <1>2, <1>4, <1>5 DEF Positions, AbsInv

\* Every step of the ring is a step of the queue or leaves it alone.
LEMMA StepIsQueueStep ==
  ASSUME IInv, Safe, AbsInv, AbsInv', [Next]_vars
  PROVE  [Queue!Next]_(Queue!vars)
<1>1. /\ AbsQueue = Positions(head, received) /\ AbsQueue' = Positions(head', received')
      /\ head \in Nat /\ received \in Nat /\ received - head \in 0 .. Size - 1
      /\ received' - head' \in 0 .. Size - 1
  BY DEF AbsInv
<1>2. Len(AbsQueue) = received - head
  BY <1>1, PositionsGet DEF Positions
<1>3. CASE UNCHANGED <<head, received, got>>
  <2>1. UNCHANGED <<AbsQueue, received, AbsGot>>
    BY <1>1, <1>3 DEF AbsGot
  <2> QED BY <2>1 DEF Queue!vars, AbsQueue, AbsGot
<1>4. ASSUME NEW n \in 1 .. Size - 1, received' = received + n, UNCHANGED <<head, got>>
      PROVE  Queue!Next
  <2>1. AbsQueue' = AbsQueue \o [i \in 1 .. n |-> received + i - 1]
    <3>1. n \in Nat /\ head <= received
      BY <1>1
    <3>2. Positions(head, received) \o [i \in 1 .. n |-> received + i - 1]
            = Positions(head, received + n)
      BY <1>1, <3>1, PositionsPut
    <3> QED BY <1>1, <1>4, <3>2
  <2>2. Len(AbsQueue) + n <= Size - 1 /\ UNCHANGED AbsGot
    BY <1>1, <1>2, <1>4, SizeAssumption DEF AbsGot
  <2> QED BY <2>1, <2>2, <1>4 DEF Queue!Next, Queue!Put, AbsQueue, AbsGot
<1>5. ASSUME NEW n \in 1 .. Size - 1, n <= received - head, head' = head + n,
             UNCHANGED received
      PROVE  AbsQueue' = SubSeq(AbsQueue, n + 1, Len(AbsQueue))
  <2>1. n \in Nat /\ head + n <= received
    BY <1>1, <1>5
  <2>2. SubSeq(Positions(head, received), n + 1, Len(Positions(head, received)))
          = Positions(head + n, received)
    BY <1>1, <2>1, PositionsGet
  <2> QED BY <1>1, <1>5, <2>2
<1>6. ASSUME NEW n \in 1 .. Size - 1, n <= received - head, head' = head + n,
             UNCHANGED <<received, got>>
      PROVE  Queue!Next
  <2>1. UNCHANGED AbsGot
    BY <1>6 DEF AbsGot
  <2> QED BY <1>2, <1>5, <1>6, <2>1 DEF Queue!Next, Queue!Drop, AbsQueue, AbsGot
<1>7. CASE Receive \/ ReceiveRest
  <2>1. /\ Interruptible
        /\ \/ \E n \in 1 .. ContigFree(ulReadIndex, ulWriteIndex) : Transfer(n)
           \/ NoTransfer
    BY <1>7 DEF Receive, ReceiveRest, IInv, ClientInv
  <2>2. CASE NoTransfer
    BY <1>3, <2>2 DEF NoTransfer, ghostVars
  <2> QED BY <1>4, <2>1, <2>2, TransferKeepsContents
<1>11. CASE Callback
  <2>1. PICK k \in 0 .. MaxTaken :
          /\ head' = head + AdvanceReadCount(ulReadIndex, ulWriteIndex, k)
          /\ UNCHANGED <<received, got>>
    BY <1>11 DEF Callback
  <2> DEFINE d == AdvanceReadCount(ulReadIndex, ulWriteIndex, k)
  <2>2. Used(ulReadIndex, ulWriteIndex) = received - head
    <3>1. Interruptible
      BY <1>11 DEF Callback, IInv, ClientInv
    <3>2. ulReadIndex \in 0 .. Size /\ ulWriteIndex \in Index
      BY <3>1, SettledInRange DEF IInv, TypeOK
    <3> QED BY <3>2, ContigFreeIsFree DEF AbsInv, SettledRead
  <2>3. d \in 0 .. Size - 1 /\ d <= received - head
    BY <1>1, <2>2, SizeAssumption, RxAssumption DEF AdvanceReadCount, AtMost
  <2>4. CASE d = 0
    BY <1>1, <1>3, <2>1, <2>4
  <2> QED BY <1>6, <2>1, <2>3, <2>4, SizeAssumption
<1>8. CASE AddToIndex
  <2>1. /\ head' = head + delta /\ UNCHANGED received /\ delta \in Nat
        /\ delta <= Size - 1 /\ delta <= received - head
    <3>1. /\ pc \in {"add", "skip"} /\ delta \in 0 .. Size - 1
          /\ SettledRead = ulReadIndex /\ todo \in Nat
          /\ Used(ulReadIndex, ulWriteIndex) \in Nat
      BY <1>8, SettledInRange, UsedInRange DEF AddToIndex, UNCHANGED_ByClient, IInv, TypeOK
    <3>2. delta <= Used(SettledRead, ulWriteIndex)
      BY <3>1 DEF IInv, ClientInv
    <3> QED BY <1>8, <3>1, <3>2, SizeAssumption DEF AddToIndex, UNCHANGED_ByClient, AbsInv
  <2>2. CASE pc = "add"
    <3>1. delta = 1 /\ ucTemp = head /\ got' = head
      BY <1>8, <2>2 DEF AddToIndex, UNCHANGED_ByClient, IInv, ClientInv
    <3>2. AbsGot' = <<head>>
      BY <1>1, <3>1 DEF AbsGot, NoByte
    <3>3. SubSeq(AbsQueue, 1, 1) = <<head>>
      <4>1. head + 1 <= received
        BY <1>1, <2>1, <3>1
      <4>2. SubSeq(AbsQueue, 1, 1) = Positions(head, head + 1)
        <5>1. head \in Nat /\ received \in Nat /\ 1 \in Nat /\ AbsQueue = Positions(head, received)
          BY <1>1
        <5> QED BY <4>1, <5>1, PositionsGet
      <4> QED BY <1>1, <4>2, PositionsOne
    <3>4. 1 \in 1 .. Size - 1 /\ 1 <= Len(AbsQueue)
      BY <1>1, <1>2, <2>1, <3>1, SizeAssumption
    <3>5. AbsQueue' = SubSeq(AbsQueue, 1 + 1, Len(AbsQueue))
      BY <1>2, <1>5, <2>1, <3>1, <3>4
    <3> QED
      BY <2>1, <3>2, <3>3, <3>4, <3>5 DEF Queue!Next, Queue!Get, AbsQueue, AbsGot
  <2>3. CASE pc = "skip"
    <3>1. UNCHANGED got
      BY <1>8, <2>3 DEF AddToIndex, UNCHANGED_ByClient
    <3> QED BY <1>1, <1>3, <1>6, <2>1, <3>1
  <2> QED BY <1>8, <2>2, <2>3 DEF AddToIndex, UNCHANGED_ByClient
<1>9. CASE FlushStore
  <2>1. /\ head' = head + Used(ulReadIndex, saved) /\ UNCHANGED <<received, got>>
        /\ Used(ulReadIndex, saved) \in 0 .. Size - 1
        /\ Used(ulReadIndex, saved) <= received - head
    BY <1>9, SettledInRange, UsedInRange DEF FlushStore, UNCHANGED_ByClient, IInv, TypeOK, ClientInv, AbsInv
  <2> QED BY <1>1, <1>3, <1>6, <2>1
<1>10. CASE \/ BeginRead \/ LoadByte \/ BeginAdvance \/ TestIndex \/ SubtractSize
            \/ FlushLoad \/ UNCHANGED vars
  BY <1>3, <1>10 DEF vars, ghostVars, BeginRead, LoadByte, BeginAdvance, TestIndex,
                     SubtractSize, FlushLoad, UNCHANGED_ByClient
<1> QED BY <1>7, <1>8, <1>9, <1>10, <1>11 DEF Next, Client, Handler

\* Main loop, handler and callback see the bounded first-in first-out queue of
\* ByteQueue (usbringbuf.c), whatever the size of the ring.
THEOREM RxRefinesQueue ==
  ASSUME Safe
  PROVE  Spec => QueueSpec
<1>1. Init => Queue!Init
  <2> SUFFICES ASSUME Init PROVE Queue!Init
    OBVIOUS
  <2>1. AbsInv
    BY InitIInv, QueueIsPositions
  <2>2. received = 0 /\ head = 0 /\ got = NoByte
    BY DEF Init
  <2>3. AbsQueue = << >>
    BY <2>1, <2>2 DEF AbsInv, Positions
  <2> QED BY <2>2, <2>3 DEF Queue!Init, AbsQueue
<1>2. IInv /\ IInv' /\ [Next]_vars => [Queue!Next]_(Queue!vars)
  <2>1. IInv' => AbsInv'
    BY QueueIsPositions, PTL
  <2> QED BY <2>1, QueueIsPositions, StepIsQueueStep
<1> QED BY <1>1, <1>2, RxInvariant, PTL DEF Spec, QueueSpec, Queue!Spec
=============================================================================
