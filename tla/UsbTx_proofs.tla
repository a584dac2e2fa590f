------------------------------ MODULE UsbTx_proofs ------------------------------
(***************************************************************************)
(* The transmit path for every size of ring and packet, however the handler *)
(* interrupts the client, within an update of the write index too.  Until    *)
(* the first reset, disconnection, configuration or flush the ring, the      *)
(* packets and the host are a ByteQueue.                                    *)
(***************************************************************************)
EXTENDS UsbTx, UsbRingBuf_proofs

\* Two completions within one update of the write index are too many: the first
\* schedules bytes up to the end of the workspace, the second wraps the read
\* index and finds the write index on Size.  No client call of usb_dev_serial
\* can be interrupted at all; elsewhere the host must not be that quick.
OneCompletion == Preempt = "never" \/ ~TakesInUpdate

\* The types and ranges that TypeOK asks for until the first upset.
Typed == Kinds /\ Ranges

\* The state machine is busy exactly while a packet is on its way.
BusyOnTheWay ==
  eCDCTxState = "WAIT_DATA" <=> (txPktRdy \/ txIrq \/ Arming)

Labels == {"idle", "store", "add", "wrap", "avail", "contig", "total", "put",
           "mark", "send"}

\* A context that has found the endpoint free and not yet marked it busy.
Loading(c) == pc[c] \in {"contig", "total", "put", "mark"}

\* The parts of the state Typed leaves open.
LocalTypes ==
  /\ pc \in [Contexts -> Labels]
  /\ local \in [Contexts -> [ulPacket : Nat, ulSpace : Nat, ulTotal : Nat,
                             part : {1, 2}]]
  /\ {todo, delta, written, head, hostNext} \subseteq Nat

\* The bytes in the ring are the last bytes written, in order.
ContentsInOrder ==
  /\ head + InRing = written
  /\ \A i \in 0 .. InRing - 1 : At(i) = head + i

\* The client has room for what it is about to write, and has written what it
\* is about to claim.
ClientInv ==
  /\ pc["main"] = "store" => /\ todo >= 1 /\ InRing + todo <= Size - 1
                             /\ written + todo <= MaxBytes
  /\ pc["main"] = "add" => /\ delta >= 1 /\ ulWriteIndex + delta <= Size
                           /\ InRing + delta + todo <= Size - 1
                           /\ written + delta + todo <= MaxBytes
                           /\ \A i \in 0 .. delta - 1 :
                                pucBuf[ulWriteIndex + i] = written + i
  /\ pc["main"] = "wrap" => /\ InRing + todo <= Size - 1
                            /\ written + todo <= MaxBytes
  /\ pc["main"] \notin {"store", "add", "wrap"} => todo = 0

\* A handler that finds the write index on Size counts the bytes as well as one
\* that finds it on 0, unless the read index is on 0 or about to get there.
WrapInv ==
  ulWriteIndex = Size =>
    /\ ulReadIndex # 0
    /\ txIrq /\ Preempt = "anywhere" => ulReadIndex + usLastTxSize # Size

\* One packet at a time: it is being loaded, being armed, armed, or taken.
OnePacket ==
  /\ pc["isr"] # "idle" => pc["main"] \in {"idle", "store", "add", "wrap", "avail"}
  /\ \A c \in Contexts : Loading(c) => eCDCTxState = "IDLE"
  /\ BusyOnTheWay
  /\ ~(txPktRdy /\ txIrq) /\ (Arming => ~txPktRdy /\ ~txIrq)

\* Its bytes are the first in the ring, and its size is remembered.
PacketInv ==
  /\ usLastTxSize \in 0 .. Packet /\ usLastTxSize <= InRing
  /\ fifo = IF txIrq THEN << >> ELSE Positions(head, head + usLastTxSize)
  /\ txIrq => hostGot = Positions(head, head + usLastTxSize)
  /\ hostNext = IF txIrq THEN head + usLastTxSize ELSE head
  /\ eCDCTxState = "WAIT_DATA" => usLastTxSize >= 1
  /\ eCDCTxState = "IDLE" =>
       \/ usLastTxSize = 0
       \/ \E c \in Contexts : \/ pc[c] = "mark"
                              \/ pc[c] = "put" /\ local[c].part = 2

\* The locals of ScheduleNextTransmission: nobody moves an index between its
\* reads of the ring and the packet it makes of them.
LocalInv(c) ==
  LET l    == local[c]
      used == Used(ulReadIndex, ulWriteIndex)
      contig == ContigUsed(ulReadIndex, ulWriteIndex)
  IN  /\ ~Loading(c) /\ pc[c] # "send" => l = NoLocals
      /\ pc[c] \in {"contig", "total"} => l.ulPacket = Packet /\ l.part = 1
      /\ pc[c] = "total" => l.ulSpace = contig
      /\ pc[c] = "put" => /\ l.ulTotal = used /\ l.ulSpace >= 1
                          /\ l.ulPacket = Packet - usLastTxSize
                          /\ l.ulSpace = AtMost(IF l.part = 1 THEN contig
                                                ELSE used - usLastTxSize,
                                                l.ulPacket)
      /\ pc[c] = "put" /\ l.part = 1 => usLastTxSize = 0
      /\ pc[c] = "put" /\ l.part = 2 =>
           ulWriteIndex < ulReadIndex /\ usLastTxSize = Size - ulReadIndex
      /\ pc[c] = "mark" => usLastTxSize >= 1
      /\ pc[c] \in {"mark", "send"} => ~MorePartsTo(l)

\* Bytes nobody is sending will be found by a call that is going on.
SomebodySends ==
  eCDCTxState = "IDLE" /\ InRing > 0 => \E c \in Contexts : pc[c] # "idle"

NothingReset == configured /\ bConnected /\ upsets = 0

\* The inductive invariant.
IInv ==
  /\ Typed /\ LocalTypes /\ NothingReset
  /\ ContentsInOrder /\ ClientInv /\ WrapInv
  /\ OnePacket /\ PacketInv /\ \A c \in Contexts : LocalInv(c)
  /\ SomebodySends
-----------------------------------------------------------------------------

LEMMA InitKinds == Init => Kinds /\ pc \in [Contexts -> Labels]
<1> SUFFICES ASSUME Init PROVE Kinds /\ pc \in [Contexts -> Labels]
  OBVIOUS
<1>1. /\ bConnected \in BOOLEAN /\ configured \in BOOLEAN
      /\ txPktRdy \in BOOLEAN /\ txIrq \in BOOLEAN
  BY DEF Init
<1>2. pc \in [Contexts -> Labels] /\ pc["main"] = "idle" /\ pc["isr"] = "idle"
  BY DEF Init, Contexts, Labels
<1>3. eCDCTxState = "IDLE" /\ upsets = 0
  BY DEF Init
<1> QED BY <1>1, <1>2, <1>3 DEF Kinds

LEMMA InitIInv ==
  ASSUME Init
  PROVE  IInv
<1>1. InRing = 0
  BY SizeAssumption DEF Init, InRing, SettledWrite, WrapIndex, Used
<1>2. Typed /\ LocalTypes /\ NothingReset
  <2>1. Ranges
    BY SizeAssumption, TxAssumption DEF Init, Ranges, Index, NoByte
  <2>2. LocalTypes /\ NothingReset
    BY DEF Init, LocalTypes, NothingReset, Contexts, Labels, NoLocals
  <2> QED BY <2>1, <2>2, InitKinds DEF Typed
<1>3. ContentsInOrder /\ ClientInv /\ WrapInv
  BY <1>1, SizeAssumption DEF Init, ContentsInOrder, ClientInv, WrapInv, Contexts
<1>4. OnePacket /\ SomebodySends
  BY <1>1 DEF Init, OnePacket, BusyOnTheWay, Arming, SomebodySends, Loading,
              Contexts
<1>5. PacketInv
  <2>1. Positions(0, 0) = << >>
    BY DEF Positions
  <2> QED BY <1>1, <2>1, TxAssumption DEF Init, PacketInv, Contexts
<1>6. ASSUME NEW c \in Contexts PROVE LocalInv(c)
  BY DEF Init, LocalInv, Loading
<1> QED BY <1>2, <1>3, <1>4, <1>5, <1>6 DEF IInv

\* What is known of the indices.
LEMMA IndexFacts ==
  ASSUME IInv
  PROVE  /\ ulReadIndex \in Index /\ ulWriteIndex \in 0 .. Size
         /\ SettledWrite \in Index
         /\ pc["main"] # "wrap" => ulWriteIndex = SettledWrite
         /\ InRing \in 0 .. Size - 1
         /\ head \in Nat /\ written \in Nat /\ written = head + InRing
         /\ InRing = Used(ulReadIndex, ulWriteIndex)
         /\ ulWriteIndex = Size => ulReadIndex # 0
<1>1. /\ ulReadIndex \in Index /\ ulWriteIndex \in 0 .. Size
      /\ pc["main"] # "wrap" => ulWriteIndex \in Index
  BY SizeAssumption DEF IInv, Typed, Kinds, Ranges, Index
<1>2. /\ SettledWrite \in Index
      /\ pc["main"] # "wrap" => ulWriteIndex = SettledWrite
  BY <1>1, SizeAssumption DEF SettledWrite, WrapIndex, Index
<1>3. InRing \in 0 .. Size - 1
  BY <1>1, <1>2, UsedInRange DEF InRing
<1>4. head \in Nat /\ written \in Nat /\ written = head + InRing
  BY DEF IInv, LocalTypes, ContentsInOrder
<1>5. /\ ulWriteIndex = Size => ulReadIndex # 0
      /\ InRing = Used(ulReadIndex, ulWriteIndex)
  <2>1. ulWriteIndex = Size => ulReadIndex # 0
    BY DEF IInv, WrapInv
  <2> QED BY <1>1, <2>1, SizeAssumption DEF InRing, SettledWrite, WrapIndex, Used, Index
<1> QED BY <1>1, <1>2, <1>3, <1>4, <1>5

\* While one context is in ScheduleNextTransmission the other is not, or has
\* just entered it.
LEMMA OtherWaits ==
  ASSUME IInv, NEW c \in Contexts, NEW d \in Contexts, c # d,
         Runs(c), pc[c] \notin {"idle", "store", "add", "wrap"}
  PROVE  /\ pc[d] \in {"idle", "store", "add", "wrap", "avail"}
         /\ d = "isr" => pc[d] = "idle"
         /\ local[d] = NoLocals
  BY DEF IInv, OnePacket, Runs, Contexts, LocalInv, Loading

-----------------------------------------------------------------------------
(* ScheduleNextTransmission.                                                *)

\* Nothing in it touches the ring, so what is said of the ring and of the
\* client's write stays true.
LEMMA SchedulingKeepsRing ==
  ASSUME IInv, NEW c \in Contexts, UNCHANGED_ByScheduling,
         pc[c] \notin {"idle", "store", "add", "wrap"},
         NEW l \in Labels \ {"store", "add", "wrap"},
         pc' = [pc EXCEPT ![c] = l], usLastTxSize' = usLastTxSize \/ ~txIrq
  PROVE  /\ NothingReset' /\ ContentsInOrder' /\ ClientInv' /\ WrapInv'
         /\ InRing' = InRing
  BY DEF IInv, NothingReset, ContentsInOrder, ClientInv, WrapInv, InRing, SettledWrite,
         At, UNCHANGED_ByScheduling, ring, bus, client, LocalTypes, Contexts

LEMMA AskAvailableKeepsIInv ==
  ASSUME IInv, NEW c \in Contexts, AskAvailable(c)
  PROVE  IInv'
<1> DEFINE l == IF eCDCTxState = "IDLE" THEN "contig" ELSE "idle"
<1>1. /\ pc' = [pc EXCEPT ![c] = l]
      /\ local' = IF eCDCTxState = "IDLE"
                    THEN [local EXCEPT ![c].ulPacket = Packet] ELSE local
      /\ pc[c] = "avail" /\ Runs(c)
      /\ UNCHANGED <<eCDCTxState, usLastTxSize, fifo, txPktRdy>>
      /\ UNCHANGED_ByScheduling
  BY DEF AskAvailable, Goto
<1>2. NothingReset' /\ ContentsInOrder' /\ ClientInv' /\ WrapInv' /\ InRing' = InRing
  BY <1>1, SchedulingKeepsRing DEF Labels
<1>3. \A d \in Contexts \ {c} : /\ pc[d] \in {"idle", "store", "add", "wrap", "avail"}
                                /\ d = "isr" => pc[d] = "idle"
                                /\ local[d] = NoLocals
  BY <1>1, OtherWaits
<1>4. Typed' /\ LocalTypes'
  BY <1>1, TxAssumption
  DEF IInv, Typed, Kinds, Ranges, LocalTypes, UNCHANGED_ByScheduling, ring, bus, client, host,
      Contexts, Labels
<1>5. OnePacket' /\ SomebodySends'
  BY <1>1, <1>2, <1>3
  DEF IInv, OnePacket, SomebodySends, BusyOnTheWay, Arming, Loading,
      UNCHANGED_ByScheduling, LocalTypes, Contexts
<1>6. PacketInv'
  BY <1>1, <1>2, <1>3
  DEF IInv, PacketInv, UNCHANGED_ByScheduling, host, LocalTypes, Contexts,
      NoLocals
<1>7. ASSUME NEW d \in Contexts PROVE LocalInv(d)'
  BY <1>1, <1>3
  DEF IInv, LocalInv, Loading, NoLocals, LocalTypes, Contexts,
      UNCHANGED_ByScheduling, ring
<1> QED BY <1>2, <1>4, <1>5, <1>6, <1>7 DEF IInv

LEMMA MeasureContigKeepsIInv ==
  ASSUME IInv, NEW c \in Contexts, MeasureContig(c)
  PROVE  IInv'
<1>1. /\ pc' = [pc EXCEPT ![c] = "total"]
      /\ local' = [local EXCEPT ![c].ulSpace = ContigUsed(ulReadIndex, ulWriteIndex)]
      /\ pc[c] = "contig" /\ Runs(c)
      /\ UNCHANGED <<eCDCTxState, usLastTxSize, fifo, txPktRdy>>
      /\ UNCHANGED_ByScheduling
  BY DEF MeasureContig, Goto
<1>2. NothingReset' /\ ContentsInOrder' /\ ClientInv' /\ WrapInv' /\ InRing' = InRing
  BY <1>1, SchedulingKeepsRing DEF Labels
<1>3. \A d \in Contexts \ {c} : /\ pc[d] \in {"idle", "store", "add", "wrap", "avail"}
                                /\ d = "isr" => pc[d] = "idle"
                                /\ local[d] = NoLocals
  BY <1>1, OtherWaits
<1>4. Typed' /\ LocalTypes'
  <2>1. ContigUsed(ulReadIndex, ulWriteIndex) \in Nat
    BY IndexFacts, SizeAssumption DEF ContigUsed, Index
  <2> QED
    BY <1>1, <2>1
    DEF IInv, Typed, Kinds, Ranges, LocalTypes, UNCHANGED_ByScheduling, ring, bus, client, host,
        Contexts, Labels
<1>5. OnePacket' /\ SomebodySends'
  BY <1>1, <1>2, <1>3
  DEF IInv, OnePacket, SomebodySends, BusyOnTheWay, Arming, Loading,
      UNCHANGED_ByScheduling, LocalTypes, Contexts
<1>6. PacketInv'
  BY <1>1, <1>2, <1>3
  DEF IInv, PacketInv, UNCHANGED_ByScheduling, host, LocalTypes, Contexts,
      NoLocals
<1>7. ASSUME NEW d \in Contexts PROVE LocalInv(d)'
  BY <1>1, <1>3
  DEF IInv, LocalInv, Loading, NoLocals, LocalTypes, Contexts,
      UNCHANGED_ByScheduling, ring
<1> QED BY <1>2, <1>4, <1>5, <1>6, <1>7 DEF IInv

LEMMA MeasureTotalKeepsIInv ==
  ASSUME IInv, NEW c \in Contexts, MeasureTotal(c)
  PROVE  IInv'
<1> DEFINE contig == ContigUsed(ulReadIndex, ulWriteIndex)
           used == Used(ulReadIndex, ulWriteIndex)
           l == IF contig = 0 THEN "idle" ELSE "put"
<1>1. /\ pc[c] = "total" /\ Runs(c)
      /\ local[c].ulSpace = contig /\ local[c].ulPacket = Packet /\ local[c].part = 1
      /\ pc' = [pc EXCEPT ![c] = l]
      /\ local' = IF contig = 0 THEN [local EXCEPT ![c] = NoLocals]
                  ELSE [local EXCEPT ![c].ulTotal = used,
                                     ![c].ulSpace = AtMost(contig, Packet)]
      /\ UNCHANGED <<eCDCTxState, usLastTxSize, fifo, txPktRdy>>
      /\ UNCHANGED_ByScheduling
  BY DEF MeasureTotal, Goto, IInv, LocalInv
<1>2. NothingReset' /\ ContentsInOrder' /\ ClientInv' /\ WrapInv' /\ InRing' = InRing
  BY <1>1, SchedulingKeepsRing DEF Labels
<1>3. \A d \in Contexts \ {c} : /\ pc[d] \in {"idle", "store", "add", "wrap", "avail"}
                                /\ d = "isr" => pc[d] = "idle"
                                /\ local[d] = NoLocals
  BY <1>1, OtherWaits
<1>4. /\ contig \in Nat /\ used \in Nat /\ used = InRing
      /\ contig = 0 => InRing = 0
      /\ AtMost(contig, Packet) \in Nat
      /\ contig # 0 => AtMost(contig, Packet) >= 1
  BY IndexFacts, SizeAssumption, TxAssumption
  DEF ContigUsed, Used, Index, AtMost
<1>5. Typed' /\ LocalTypes'
  BY <1>1, <1>4
  DEF IInv, Typed, Kinds, Ranges, LocalTypes, UNCHANGED_ByScheduling, ring, bus, client, host,
      Contexts, Labels, NoLocals
<1>6. OnePacket' /\ SomebodySends'
  BY <1>1, <1>2, <1>3, <1>4
  DEF IInv, OnePacket, SomebodySends, BusyOnTheWay, Arming, Loading,
      UNCHANGED_ByScheduling, LocalTypes, Contexts
<1>7. usLastTxSize = 0
  BY <1>1, <1>3 DEF IInv, OnePacket, PacketInv, Loading, Typed, Kinds, Ranges
<1>8. PacketInv'
  BY <1>1, <1>2, <1>3, <1>7
  DEF IInv, PacketInv, UNCHANGED_ByScheduling, host, LocalTypes, Contexts,
      NoLocals
<1>9. ASSUME NEW d \in Contexts PROVE LocalInv(d)'
  BY <1>1, <1>3, <1>4, <1>7, TxAssumption
  DEF IInv, LocalInv, Loading, NoLocals, LocalTypes, Contexts,
      UNCHANGED_ByScheduling, ring
<1> QED BY <1>2, <1>5, <1>6, <1>8, <1>9 DEF IInv

\* The part that is put into the FIFO follows what is there already, and both
\* are the first bytes of the ring.
LEMMA PartFollows ==
  ASSUME IInv, NEW c \in Contexts, Runs(c), pc[c] = "put"
  PROVE  LET n == local[c].ulSpace IN
         /\ n \in Nat \ {0}
         /\ usLastTxSize + n <= InRing /\ usLastTxSize + n <= Packet
         /\ PartBytes(local[c]) = [i \in 1 .. n |-> head + usLastTxSize + i - 1]
         /\ MorePartsTo(local[c]) =>
              /\ usLastTxSize = 0 /\ n = Size - ulReadIndex
              /\ ulWriteIndex < ulReadIndex /\ n < Packet /\ n < InRing
<1> DEFINE r == ulReadIndex
           w == ulWriteIndex
           l == local[c]
           n == l.ulSpace
           start == IF l.part = 1 THEN r ELSE 0
<1>1. /\ r \in Index /\ w \in 0 .. Size /\ InRing = Used(r, w)
      /\ InRing \in 0 .. Size - 1 /\ (w = Size => r # 0)
  BY IndexFacts
<1>2. /\ n \in Nat \ {0} /\ l.ulTotal = InRing /\ l.ulPacket = Packet - usLastTxSize
      /\ n = AtMost(IF l.part = 1 THEN ContigUsed(r, w) ELSE InRing - usLastTxSize,
                    l.ulPacket)
      /\ l.part = 1 => usLastTxSize = 0
      /\ l.part # 1 => l.part = 2 /\ w < r /\ usLastTxSize = Size - r
      /\ usLastTxSize \in 0 .. Packet
  BY <1>1 DEF IInv, LocalInv, PacketInv, LocalTypes
<1>3. usLastTxSize + n <= InRing /\ usLastTxSize + n <= Packet
  BY <1>1, <1>2, TxAssumption, SizeAssumption DEF AtMost, ContigUsed, Used, Index
<1>4. ASSUME NEW i \in 1 .. n
      PROVE  start + i - 1 \in Index /\ pucBuf[start + i - 1] = head + usLastTxSize + i - 1
  <2>1. /\ start + i - 1 \in Index
        /\ start + i - 1 = WrapIndex(r + (usLastTxSize + i - 1))
    BY <1>1, <1>2, <1>3, TxAssumption, SizeAssumption
    DEF AtMost, ContigUsed, Used, Index, WrapIndex
  <2>2. At(usLastTxSize + i - 1) = head + (usLastTxSize + i - 1)
    BY <1>1, <1>2, <1>3 DEF IInv, ContentsInOrder
  <2> QED BY <1>2, <2>1, <2>2, IndexFacts DEF At
<1>5. PartBytes(l) = [i \in 1 .. n |-> head + usLastTxSize + i - 1]
  BY <1>4 DEF PartBytes
<1>6. MorePartsTo(l) => /\ usLastTxSize = 0 /\ n = Size - r
                        /\ w < r /\ n < Packet /\ n < InRing
  BY <1>1, <1>2, TxAssumption, SizeAssumption
  DEF MorePartsTo, AtMost, ContigUsed, Used, Index
<1> QED BY <1>2, <1>3, <1>5, <1>6

LEMMA PutBytesKeepsIInv ==
  ASSUME IInv, NEW c \in Contexts, PutBytes(c)
  PROVE  IInv'
<1> DEFINE l == local[c]
           n == l.ulSpace
           more == MorePartsTo(l)
           last == usLastTxSize + n
<1>1. /\ pc[c] = "put" /\ Runs(c)
      /\ eCDCTxState = "IDLE" /\ ~txPktRdy /\ ~txIrq
      /\ fifo' = fifo \o PartBytes(l) /\ usLastTxSize' = last
      /\ pc' = [pc EXCEPT ![c] = IF more THEN "put" ELSE "mark"]
      /\ local' = IF more THEN [local EXCEPT ![c] = SecondPart(l)] ELSE local
      /\ UNCHANGED <<eCDCTxState, txPktRdy>> /\ UNCHANGED_ByScheduling
  <2>1. pc[c] = "put" /\ Runs(c)
    BY DEF PutBytes
  <2>2. eCDCTxState = "IDLE"
    BY <2>1 DEF IInv, OnePacket, Loading
  <2>3. ~txPktRdy /\ ~txIrq
    BY <2>2 DEF IInv, OnePacket, BusyOnTheWay
  <2> QED BY <2>1, <2>2, <2>3 DEF PutBytes, AfterTransfer, Goto
<1>2. /\ n \in Nat \ {0} /\ last <= InRing /\ last <= Packet
      /\ PartBytes(l) = [i \in 1 .. n |-> head + usLastTxSize + i - 1]
      /\ more => /\ usLastTxSize = 0 /\ n = Size - ulReadIndex
                 /\ ulWriteIndex < ulReadIndex /\ n < Packet /\ n < InRing
  BY <1>1, PartFollows
<1>3. NothingReset' /\ ContentsInOrder' /\ ClientInv' /\ WrapInv' /\ InRing' = InRing
  BY <1>1, SchedulingKeepsRing DEF Labels
<1>4. \A d \in Contexts \ {c} : /\ pc[d] \in {"idle", "store", "add", "wrap", "avail"}
                                /\ d = "isr" => pc[d] = "idle"
                                /\ local[d] = NoLocals
  BY <1>1, OtherWaits
<1>5. /\ ulReadIndex \in Index /\ ulWriteIndex \in 0 .. Size
      /\ InRing = Used(ulReadIndex, ulWriteIndex) /\ InRing \in 0 .. Size - 1
      /\ head \in Nat /\ usLastTxSize \in Nat /\ last \in 1 .. Packet
  BY <1>2, IndexFacts, TxAssumption DEF IInv, PacketInv
<1>6. fifo' = Positions(head, head + last) /\ Len(fifo') = last
  <2>1. fifo = Positions(head, head + usLastTxSize)
    BY <1>1 DEF IInv, PacketInv
  <2> DEFINE b == head + usLastTxSize
  <2>2. b \in Nat /\ head <= b /\ n \in Nat /\ b + n = head + last
        /\ b + n \in Nat /\ head <= b + n /\ (b + n) - head = last
    BY <1>2, <1>5
  <2>3. PartBytes(l) = [i \in 1 .. n |-> b + i - 1]
    BY <1>2
  <2> HIDE DEF b
  <2>4. Positions(head, b) \o [i \in 1 .. n |-> b + i - 1] = Positions(head, b + n)
    BY <1>5, <2>2, PositionsPut
  <2>5. Len(Positions(head, b + n)) = last
    BY <1>5, <2>2, PositionsPut
  <2> QED BY <1>1, <2>1, <2>2, <2>3, <2>4, <2>5 DEF b
<1>7. LocalTypes'
  <2>1. more => SecondPart(l) \in [ulPacket : Nat, ulSpace : Nat, ulTotal : Nat,
                                   part : {1, 2}]
    <3>1. l \in [ulPacket : Nat, ulSpace : Nat, ulTotal : Nat, part : {1, 2}]
      BY DEF IInv, LocalTypes
    <3> HIDE DEF l
    <3>2. ASSUME more
          PROVE  /\ l.ulPacket - n \in Nat
                 /\ AtMost(l.ulTotal - n, l.ulPacket - n) \in Nat
      BY <3>1, <3>2 DEF AtMost, MorePartsTo
    <3> QED BY <3>1, <3>2 DEF SecondPart
  <2> QED
    BY <1>1, <2>1
    DEF IInv, LocalTypes, UNCHANGED_ByScheduling, bus, client, host, Contexts, Labels
<1>8. Typed'
  <2>2. last \in 0 .. Packet
    BY <1>5, TxAssumption
  <2>3. /\ UNCHANGED <<pucBuf, ulReadIndex, ulWriteIndex, bConnected, configured>>
        /\ UNCHANGED <<todo, delta, written, head, hostNext, txIrq, upsets>>
        /\ UNCHANGED <<eCDCTxState, txPktRdy>> /\ usLastTxSize' = last
        /\ Len(fifo') <= Packet
    BY <1>1, <1>5, <1>6 DEF UNCHANGED_ByScheduling, ring, bus, client, host
  <2>4. /\ pc'["main"] \in {"idle", "store", "add", "wrap", "avail", "contig",
                            "total", "put", "mark", "send"}
        /\ pc'["isr"] \in {"idle", "avail", "contig", "total", "put", "mark", "send"}
        /\ ulWriteIndex = Size /\ pc["main"] = "wrap" => pc'["main"] = "wrap"
    BY <1>1 DEF IInv, Typed, Kinds, Ranges, LocalTypes, Contexts
  <2> QED BY <2>2, <2>3, <2>4 DEF IInv, Typed, Kinds, Ranges
<1>9. OnePacket' /\ SomebodySends'
  BY <1>1, <1>3, <1>4
  DEF IInv, OnePacket, SomebodySends, BusyOnTheWay, Arming, Loading,
      UNCHANGED_ByScheduling, LocalTypes, Contexts
<1>10. PacketInv'
  <2>1. \E d \in Contexts : \/ pc'[d] = "mark"
                            \/ pc'[d] = "put" /\ local'[d].part = 2
    BY <1>1 DEF IInv, LocalTypes, SecondPart
  <2>2. last >= 1 /\ last \in 0 .. Packet
    BY <1>2, <1>5
  <2>3. hostNext = head /\ ~txIrq' /\ head' = head /\ hostNext' = hostNext
    BY <1>1 DEF IInv, PacketInv, UNCHANGED_ByScheduling, host
  <2> HIDE DEF last
  <2> QED
    BY <1>1, <1>2, <1>3, <1>6, <2>1, <2>2, <2>3 DEF PacketInv
<1>11. ASSUME NEW d \in Contexts PROVE LocalInv(d)'
  <2>1. CASE d # c
    BY <1>1, <1>4, <2>1
    DEF LocalInv, Loading, NoLocals, IInv, LocalTypes
  <2>2. CASE d = c /\ more
    BY <1>1, <1>2, <1>5, <2>2, SizeAssumption, TxAssumption
    DEF IInv, LocalInv, Loading, LocalTypes, SecondPart, AtMost, MorePartsTo,
        UNCHANGED_ByScheduling, ring
  <2>3. CASE d = c /\ ~more
    BY <1>1, <1>5, <2>3 DEF IInv, LocalInv, Loading, LocalTypes, MorePartsTo
  <2> QED BY <2>1, <2>2, <2>3
<1> QED BY <1>3, <1>7, <1>8, <1>9, <1>10, <1>11 DEF IInv

LEMMA MarkBusyKeepsIInv ==
  ASSUME IInv, NEW c \in Contexts, MarkBusy(c)
  PROVE  IInv'
<1>1. /\ pc[c] = "mark" /\ Runs(c)
      /\ eCDCTxState = "IDLE" /\ ~txPktRdy /\ ~txIrq
      /\ eCDCTxState' = "WAIT_DATA"
      /\ pc' = [pc EXCEPT ![c] = "send"]
      /\ UNCHANGED <<local, usLastTxSize, fifo, txPktRdy>> /\ UNCHANGED_ByScheduling
  BY DEF MarkBusy, Goto, IInv, OnePacket, BusyOnTheWay, Loading
<1>2. NothingReset' /\ ContentsInOrder' /\ ClientInv' /\ WrapInv' /\ InRing' = InRing
  BY <1>1, SchedulingKeepsRing DEF Labels
<1>3. \A d \in Contexts \ {c} : /\ pc[d] \in {"idle", "store", "add", "wrap", "avail"}
                                /\ d = "isr" => pc[d] = "idle"
                                /\ local[d] = NoLocals
  BY <1>1, OtherWaits
<1>4. Typed' /\ LocalTypes'
  BY <1>1
  DEF IInv, Typed, Kinds, Ranges, LocalTypes, UNCHANGED_ByScheduling, ring, bus, client, host,
      Contexts, Labels
<1>5. OnePacket' /\ SomebodySends'
  BY <1>1, <1>2, <1>3
  DEF IInv, OnePacket, SomebodySends, BusyOnTheWay, Arming, Loading,
      UNCHANGED_ByScheduling, LocalTypes, Contexts
<1>6. PacketInv' /\ \A d \in Contexts : LocalInv(d)'
  BY <1>1, <1>2, <1>3
  DEF IInv, PacketInv, LocalInv, Loading, UNCHANGED_ByScheduling, ring, host,
      LocalTypes, Contexts, MorePartsTo
<1> QED BY <1>2, <1>4, <1>5, <1>6 DEF IInv

LEMMA SendPacketKeepsIInv ==
  ASSUME IInv, NEW c \in Contexts, SendPacket(c)
  PROVE  IInv'
<1>1. /\ pc[c] = "send" /\ Runs(c)
      /\ eCDCTxState = "WAIT_DATA" /\ ~txPktRdy /\ ~txIrq
      /\ txPktRdy' = TRUE
      /\ pc' = [pc EXCEPT ![c] = "idle"]
      /\ local' = [local EXCEPT ![c] = NoLocals]
      /\ UNCHANGED <<eCDCTxState, usLastTxSize, fifo>> /\ UNCHANGED_ByScheduling
  BY DEF SendPacket, AfterTransfer, Goto, IInv, OnePacket, BusyOnTheWay,
         Arming, LocalInv
<1>2. NothingReset' /\ ContentsInOrder' /\ ClientInv' /\ WrapInv' /\ InRing' = InRing
  BY <1>1, SchedulingKeepsRing DEF Labels
<1>3. \A d \in Contexts \ {c} : /\ pc[d] \in {"idle", "store", "add", "wrap", "avail"}
                                /\ d = "isr" => pc[d] = "idle"
                                /\ local[d] = NoLocals
  BY <1>1, OtherWaits
<1>4. Typed' /\ LocalTypes'
  BY <1>1
  DEF IInv, Typed, Kinds, Ranges, LocalTypes, UNCHANGED_ByScheduling, ring, bus, client, host,
      Contexts, Labels, NoLocals
<1>5. OnePacket' /\ SomebodySends'
  BY <1>1, <1>2, <1>3
  DEF IInv, OnePacket, SomebodySends, BusyOnTheWay, Arming, Loading,
      UNCHANGED_ByScheduling, LocalTypes, Contexts
<1>6. PacketInv' /\ \A d \in Contexts : LocalInv(d)'
  BY <1>1, <1>2, <1>3
  DEF IInv, PacketInv, LocalInv, Loading, UNCHANGED_ByScheduling, ring, host,
      LocalTypes, Contexts, NoLocals
<1> QED BY <1>2, <1>4, <1>5, <1>6 DEF IInv

LEMMA ScheduleKeepsIInv ==
  ASSUME IInv, NEW c \in Contexts, Schedule(c)
  PROVE  IInv'
BY AskAvailableKeepsIInv, MeasureContigKeepsIInv, MeasureTotalKeepsIInv,
   PutBytesKeepsIInv, MarkBusyKeepsIInv, SendPacketKeepsIInv DEF Schedule

-----------------------------------------------------------------------------
(* The client.                                                             *)

\* A step of the client's write disturbs no packet.
LEMMA WritingKeepsPackets ==
  ASSUME IInv, UNCHANGED_ByClient, head' = head, InRing' \in Nat, InRing' >= InRing,
         Runs("main"), pc["main"] \in {"idle", "store", "add", "wrap"},
         NEW l \in {"store", "add", "wrap", "avail"},
         pc' = [pc EXCEPT !["main"] = l]
  PROVE  /\ NothingReset' /\ OnePacket' /\ PacketInv' /\ SomebodySends'
         /\ \A c \in Contexts : LocalInv(c)'
<1>1. /\ pc["isr"] = "idle" /\ pc'["isr"] = "idle" /\ pc'["main"] = l
      /\ UNCHANGED <<instance, endpoint, bus, local, host>>
  BY DEF Runs, UNCHANGED_ByClient, IInv, LocalTypes, Contexts
<1>2. NothingReset' /\ OnePacket' /\ SomebodySends'
  BY <1>1
  DEF IInv, NothingReset, OnePacket, SomebodySends, BusyOnTheWay, Arming,
      Loading, Contexts, instance, endpoint, bus
<1>3. PacketInv'
  <2>1. InRing \in Nat
    BY IndexFacts
  <2> QED
    BY <1>1, <2>1 DEF IInv, PacketInv, Contexts, instance, endpoint, host
<1>4. ASSUME NEW c \in Contexts PROVE LocalInv(c)'
  BY <1>1 DEF IInv, LocalInv, Loading, Contexts
<1> QED BY <1>2, <1>3, <1>4

LEMMA BeginWriteKeepsIInv ==
  ASSUME IInv, BeginWrite
  PROVE  IInv'
<1>1. PICK n \in 0 .. Free(ulReadIndex, ulWriteIndex) :
        /\ written + n <= MaxBytes /\ todo' = n
        /\ pc' = [pc EXCEPT !["main"] = IF n = 0 THEN "avail" ELSE "store"]
        /\ Runs("main") /\ pc["main"] = "idle"
        /\ UNCHANGED <<ring, delta, written, head>> /\ UNCHANGED_ByClient
  BY DEF BeginWrite, Goto
<1>2. /\ n \in Nat /\ InRing + n <= Size - 1 /\ InRing' = InRing
      /\ InRing \in 0 .. Size - 1 /\ n \in 0 .. Size - 1
  BY <1>1, IndexFacts, UsedInRange, SizeAssumption
  DEF InRing, SettledWrite, ring
<1>3. Typed' /\ LocalTypes'
  BY <1>1, <1>2
  DEF IInv, Typed, Kinds, Ranges, LocalTypes, UNCHANGED_ByClient, ring, instance, endpoint, bus,
      host, Contexts, Labels
<1>4. ContentsInOrder'
  BY <1>1, <1>2 DEF IInv, ContentsInOrder, At, ring
<1>5. ClientInv' /\ WrapInv'
  <2>1. ulWriteIndex' # Size
    BY <1>1, IndexFacts, SizeAssumption DEF ring, Index
  <2> QED BY <1>1, <1>2, <2>1 DEF IInv, ClientInv, WrapInv, LocalTypes, Contexts
<1>6. /\ NothingReset' /\ OnePacket' /\ PacketInv' /\ SomebodySends'
      /\ \A c \in Contexts : LocalInv(c)'
  <2>1. InRing' \in Nat /\ InRing' >= InRing
    BY <1>2
  <2>2. PICK l \in {"store", "avail"} : pc' = [pc EXCEPT !["main"] = l]
    BY <1>1
  <2> QED BY <1>1, <2>1, <2>2, WritingKeepsPackets
<1> QED BY <1>3, <1>4, <1>5, <1>6 DEF IInv

LEMMA StoreByteKeepsIInv ==
  ASSUME IInv, StoreByte
  PROVE  IInv'
<1> DEFINE w == ulWriteIndex
<1>1. /\ pc["main"] = "store" /\ Runs("main")
      /\ pucBuf' = [pucBuf EXCEPT ![w] = written]
      /\ delta' = 1 /\ todo' = todo - 1
      /\ pc' = [pc EXCEPT !["main"] = "add"]
      /\ UNCHANGED <<ulReadIndex, ulWriteIndex, written, head>> /\ UNCHANGED_ByClient
  BY DEF StoreByte, Goto
<1>2. /\ todo \in Nat /\ todo >= 1 /\ InRing + todo <= Size - 1
      /\ written + todo <= MaxBytes
  BY <1>1 DEF IInv, ClientInv, LocalTypes
<1>3. /\ InRing' = InRing /\ InRing \in 0 .. Size - 1
      /\ ulReadIndex \in Index /\ w \in Index /\ InRing = Used(ulReadIndex, w)
      /\ head \in Nat /\ written \in Nat /\ written = head + InRing
  BY <1>1, IndexFacts DEF InRing, SettledWrite
<1>4. Typed' /\ LocalTypes'
  <2>1. written \in 0 .. MaxBytes - 1 /\ 1 \in 0 .. Size - 1 /\ todo - 1 \in 0 .. Size - 1
    BY <1>2, <1>3, SizeAssumption, TxAssumption
  <2>2. pucBuf' \in [Index -> 0 .. MaxBytes - 1 \cup {NoByte}]
    BY <1>1, <1>3, <2>1 DEF IInv, Typed, Kinds, Ranges
  <2>3. /\ UNCHANGED <<ulReadIndex, ulWriteIndex, written, head, hostNext, local>>
        /\ UNCHANGED <<eCDCTxState, usLastTxSize, bConnected, configured>>
        /\ UNCHANGED <<txPktRdy, txIrq, fifo, upsets>>
        /\ delta' = 1 /\ todo' = todo - 1
    BY <1>1 DEF UNCHANGED_ByClient, instance, endpoint, bus, host
  <2>4. /\ pc' \in [Contexts -> Labels]
        /\ pc'["main"] = "add" /\ pc'["isr"] = pc["isr"]
    BY <1>1 DEF IInv, LocalTypes, Contexts, Labels
  <2>5. Typed'
    BY <1>3, <2>1, <2>2, <2>3, <2>4 DEF IInv, Typed, Kinds, Ranges
  <2>6. LocalTypes'
    BY <2>1, <2>3, <2>4 DEF IInv, LocalTypes
  <2> QED BY <2>5, <2>6
<1>5. ContentsInOrder'
  <2>1. ASSUME NEW i \in 0 .. InRing - 1 PROVE At(i)' = At(i)
    <3>1. WrapIndex(ulReadIndex + i) # w
      BY <1>2, <1>3, SizeAssumption DEF Used, WrapIndex, Index
    <3> QED BY <1>1, <3>1 DEF At, IInv, Typed, Kinds, Ranges
  <2> QED BY <1>1, <1>3, <2>1 DEF IInv, ContentsInOrder
<1>6. ClientInv' /\ WrapInv'
  <2>1. pucBuf'[w + 0] = written + 0
    BY <1>1, <1>3 DEF IInv, Typed, Kinds, Ranges, Index
  <2>2. pc'["main"] = "add"
    BY <1>1 DEF IInv, LocalTypes, Contexts
  <2>3. WrapInv'
    BY <1>1, <1>3, SizeAssumption DEF WrapInv, Index
  <2> QED BY <1>1, <1>2, <1>3, <2>1, <2>2, <2>3, SizeAssumption DEF ClientInv, Index
<1>7. /\ NothingReset' /\ OnePacket' /\ PacketInv' /\ SomebodySends'
      /\ \A c \in Contexts : LocalInv(c)'
  BY <1>1, <1>3, WritingKeepsPackets
<1> QED BY <1>4, <1>5, <1>6, <1>7 DEF IInv

LEMMA BeginDataWrittenKeepsIInv ==
  ASSUME IInv, BeginDataWritten
  PROVE  IInv'
<1> DEFINE r == ulReadIndex
           w == ulWriteIndex
<1>1. PICK n \in 1 .. ContigFree(r, w) :
        /\ written + n <= MaxBytes
        /\ pucBuf' = [i \in Index |-> IF i >= w /\ i < w + n
                                        THEN written + (i - w) ELSE pucBuf[i]]
        /\ delta' = n
  BY DEF BeginDataWritten
<1>2. /\ pc["main"] = "idle" /\ Runs("main")
      /\ pc' = [pc EXCEPT !["main"] = "add"]
      /\ UNCHANGED <<ulReadIndex, ulWriteIndex, todo, written, head>>
      /\ UNCHANGED_ByClient
  BY DEF BeginDataWritten, Goto
<1>3. /\ InRing' = InRing /\ InRing \in 0 .. Size - 1
      /\ r \in Index /\ w \in Index /\ InRing = Used(r, w)
      /\ head \in Nat /\ written \in Nat /\ written = head + InRing
  BY <1>2, IndexFacts DEF InRing, SettledWrite
<1>4. /\ n \in 1 .. Size - 1 /\ w + n <= Size /\ InRing + n <= Size - 1
      /\ n <= ContigFree(r, w) /\ todo = 0
  <2>1. /\ ContigFree(r, w) \in 0 .. Size - 1 /\ w + ContigFree(r, w) <= Size
        /\ InRing + ContigFree(r, w) <= Size - 1
    <3>1. r \in 0 .. Size /\ WrapIndex(r) = r
      BY <1>3, SizeAssumption DEF Index, WrapIndex
    <3> QED BY <1>3, <3>1, ContigFreeIsFree
  <2> QED
    BY <1>2, <1>3, <2>1, SizeAssumption DEF IInv, ClientInv, Index
<1>5. Typed' /\ LocalTypes'
  <2>1. pucBuf' \in [Index -> 0 .. MaxBytes - 1 \cup {NoByte}]
    <3>1. ASSUME NEW i \in Index, i >= w, i < w + n
          PROVE  written + (i - w) \in 0 .. MaxBytes - 1
      <4>1. /\ written + n <= MaxBytes /\ MaxBytes \in Nat /\ written \in Nat
            /\ n \in Nat /\ w \in Nat /\ i \in Nat
        BY <1>1, <1>3, <1>4, SizeAssumption, TxAssumption DEF Index
      <4> HIDE DEF w
      <4> QED BY <3>1, <4>1
    <3> QED BY <1>1, <3>1 DEF IInv, Typed, Kinds, Ranges
  <2>2. delta' = n /\ n \in 0 .. Size - 1 /\ n \in Nat
    BY <1>1, <1>4
  <2> QED
    BY <1>2, <1>3, <2>1, <2>2
    DEF IInv, Typed, Kinds, Ranges, LocalTypes, UNCHANGED_ByClient, instance, endpoint, bus,
        host, Contexts, Labels
<1>6. ContentsInOrder'
  <2>1. ASSUME NEW i \in 0 .. InRing - 1 PROVE At(i)' = At(i)
    <3>1. /\ WrapIndex(r + i) \in Index
          /\ ~(w <= WrapIndex(r + i) /\ WrapIndex(r + i) < w + n)
      BY <1>3, <1>4, FreeBlockFollows, SizeAssumption DEF WrapIndex, Index, ContigFree
    <3> QED BY <1>1, <1>2, <3>1 DEF At, Index
  <2> QED BY <1>2, <1>3, <2>1 DEF IInv, ContentsInOrder
<1>7. ClientInv' /\ WrapInv'
  <2>1. ASSUME NEW i \in 0 .. n - 1 PROVE pucBuf'[w + i] = written + i
    <3>1. w \in Int /\ n \in Int /\ written \in Int /\ w + i \in Index
      BY <1>3, <1>4, SizeAssumption DEF Index
    <3>2. pucBuf' = [h \in Index |-> IF h >= w /\ h < w + n
                                      THEN written + (h - w) ELSE pucBuf[h]]
      BY <1>1
    <3> HIDE DEF w
    <3>3. pucBuf'[w + i] = IF w + i >= w /\ w + i < w + n
                             THEN written + (w + i - w) ELSE pucBuf[w + i]
      BY <3>1, <3>2
    <3> QED BY <1>4, <3>1, <3>3
  <2>2. pc'["main"] = "add" /\ delta' = n /\ written + n <= MaxBytes
    BY <1>1, <1>2 DEF IInv, LocalTypes, Contexts
  <2>3. n \in Nat /\ n >= 1 /\ w + n <= Size /\ InRing' + n <= Size - 1
    BY <1>3, <1>4
  <2>4. WrapInv'
    BY <1>2, <1>3, SizeAssumption DEF WrapInv, Index
  <2> QED BY <1>2, <1>3, <1>4, <2>1, <2>2, <2>3, <2>4 DEF ClientInv
<1>8. /\ NothingReset' /\ OnePacket' /\ PacketInv' /\ SomebodySends'
      /\ \A c \in Contexts : LocalInv(c)'
  BY <1>2, <1>3, WritingKeepsPackets
<1> QED BY <1>5, <1>6, <1>7, <1>8 DEF IInv

LEMMA AddToIndexKeepsIInv ==
  ASSUME IInv, AddToIndex
  PROVE  IInv'
<1> DEFINE r == ulReadIndex
           w == ulWriteIndex
<1>1. /\ pc["main"] = "add" /\ Runs("main")
      /\ ulWriteIndex' = w + delta /\ written' = written + delta /\ delta' = 0
      /\ pc' = [pc EXCEPT !["main"] = "wrap"]
      /\ UNCHANGED <<pucBuf, ulReadIndex, todo, head>> /\ UNCHANGED_ByClient
  BY DEF AddToIndex, Goto
<1>2. /\ delta \in Nat /\ delta >= 1 /\ todo \in Nat /\ w + delta <= Size
      /\ InRing + delta + todo <= Size - 1 /\ written + delta + todo <= MaxBytes
      /\ \A i \in 0 .. delta - 1 : pucBuf[w + i] = written + i
  BY <1>1 DEF IInv, ClientInv, LocalTypes
<1>3. /\ InRing \in 0 .. Size - 1
      /\ r \in Index /\ w \in Index /\ InRing = Used(r, w)
      /\ head \in Nat /\ written \in Nat /\ written = head + InRing
  BY <1>1, IndexFacts DEF InRing, SettledWrite
<1>4. InRing' = InRing + delta
  BY <1>1, <1>2, <1>3, SizeAssumption
  DEF InRing, SettledWrite, Used, WrapIndex, Index
<1>5. Typed' /\ LocalTypes'
  <2>1. /\ ulWriteIndex' \in Index \/ ulWriteIndex' = Size
        /\ written' \in 0 .. MaxBytes /\ 0 \in 0 .. Size - 1
    BY <1>1, <1>2, <1>3, SizeAssumption, TxAssumption DEF Index
  <2> QED
    BY <1>1, <2>1
    DEF IInv, Typed, Kinds, Ranges, LocalTypes, UNCHANGED_ByClient, instance, endpoint, bus, host,
        Contexts, Labels
<1>6. ContentsInOrder'
  <2>1. ASSUME NEW i \in 0 .. InRing + delta - 1 PROVE At(i)' = head + i
    <3>1. At(i)' = At(i)
      BY <1>1 DEF At
    <3>2. CASE i < InRing
      BY <1>3, <3>1, <3>2 DEF IInv, ContentsInOrder
    <3>3. CASE i >= InRing
      <4>1. WrapIndex(r + i) = w + (i - InRing)
        BY <1>2, <1>3, <3>3, SizeAssumption DEF Used, WrapIndex, Index
      <4>2. At(i) = written + (i - InRing)
        BY <1>2, <1>3, <3>3, <4>1 DEF At
      <4> QED BY <1>3, <3>1, <4>2
    <3> QED BY <1>3, <3>2, <3>3
  <2> QED BY <1>1, <1>2, <1>3, <1>4, <2>1 DEF ContentsInOrder
<1>7. ClientInv' /\ WrapInv'
  <2>1. ClientInv'
    BY <1>1, <1>2, <1>3, <1>4 DEF IInv, ClientInv, LocalTypes, Contexts
  <2>2. ASSUME w + delta = Size PROVE r # 0 /\ r <= w
    BY <1>2, <1>3, <2>2, SizeAssumption DEF Used, Index
  <2>3. txIrq => usLastTxSize \in Nat /\ usLastTxSize <= InRing
    BY TxAssumption DEF IInv, PacketInv
  <2>4. ASSUME w + delta = Size, txIrq PROVE r + usLastTxSize # Size
    BY <1>2, <1>3, <2>2, <2>3, <2>4, SizeAssumption DEF Used, Index
  <2>5. ulWriteIndex' = w + delta /\ ulReadIndex' = r
        /\ txIrq' = txIrq /\ usLastTxSize' = usLastTxSize
    BY <1>1 DEF UNCHANGED_ByClient, endpoint, instance
  <2> QED BY <2>1, <2>2, <2>4, <2>5 DEF WrapInv
<1>8. /\ NothingReset' /\ OnePacket' /\ PacketInv' /\ SomebodySends'
      /\ \A c \in Contexts : LocalInv(c)'
  BY <1>1, <1>2, <1>3, <1>4, WritingKeepsPackets
<1> QED BY <1>5, <1>6, <1>7, <1>8 DEF IInv

LEMMA WrapTheIndexKeepsIInv ==
  ASSUME IInv, WrapTheIndex
  PROVE  IInv'
<1>1. /\ pc["main"] = "wrap" /\ Runs("main")
      /\ ulWriteIndex' = SettledWrite
      /\ pc' = [pc EXCEPT !["main"] = IF todo > 0 THEN "store" ELSE "avail"]
      /\ UNCHANGED <<pucBuf, ulReadIndex, client, head>> /\ UNCHANGED_ByClient
  BY DEF WrapTheIndex, Goto, SettledWrite
<1>2. /\ InRing' = InRing /\ InRing \in 0 .. Size - 1
      /\ SettledWrite \in Index
  BY <1>1, IndexFacts, SizeAssumption DEF InRing, SettledWrite, WrapIndex, Index
<1>3. Typed' /\ LocalTypes'
  BY <1>1, <1>2
  DEF IInv, Typed, Kinds, Ranges, LocalTypes, UNCHANGED_ByClient, instance, endpoint, bus, host,
      client, Contexts, Labels
<1>4. ContentsInOrder'
  BY <1>1, <1>2 DEF IInv, ContentsInOrder, At, client
<1>5. ClientInv' /\ WrapInv'
  BY <1>1, <1>2, SizeAssumption
  DEF IInv, ClientInv, WrapInv, LocalTypes, Contexts, client, Index
<1>6. /\ NothingReset' /\ OnePacket' /\ PacketInv' /\ SomebodySends'
      /\ \A c \in Contexts : LocalInv(c)'
  <2>1. InRing' \in Nat /\ InRing' >= InRing
    BY <1>2
  <2>2. PICK l \in {"store", "avail"} : pc' = [pc EXCEPT !["main"] = l]
    BY <1>1
  <2> QED BY <1>1, <2>1, <2>2, WritingKeepsPackets
<1> QED BY <1>3, <1>4, <1>5, <1>6 DEF IInv

-----------------------------------------------------------------------------
(* The interrupt handler and the host.                                      *)

LEMMA TxCompleteKeepsIInv ==
  ASSUME IInv, TxComplete
  PROVE  IInv'
<1> DEFINE r == ulReadIndex
           k == usLastTxSize
<1>1. /\ pc["isr"] = "idle" /\ pc["main"] # "send"
      /\ pc["main"] # "idle" => Preempt = "anywhere"
      /\ \A c \in Contexts : ~Loading(c) /\ local[c] = NoLocals
      /\ txIrq /\ ~txPktRdy /\ eCDCTxState = "WAIT_DATA"
  BY DEF TxComplete, Interruptible, IInv, OnePacket, BusyOnTheWay, Arming,
         Contexts, LocalInv, Loading, Typed, Kinds, Ranges
<1>2. /\ r \in Index /\ SettledWrite \in Index /\ InRing = Used(r, SettledWrite)
      /\ InRing = Used(r, ulWriteIndex) /\ InRing \in 0 .. Size - 1
      /\ head \in Nat /\ written \in Nat /\ written = head + InRing
      /\ k \in 1 .. Packet /\ k <= InRing
  <2>1. /\ r \in Index /\ SettledWrite \in Index /\ InRing = Used(r, ulWriteIndex)
        /\ InRing \in 0 .. Size - 1 /\ head \in Nat /\ written \in Nat
        /\ written = head + InRing
    BY IndexFacts
  <2>2. k \in 1 .. Packet /\ k <= InRing
    BY <1>1, TxAssumption DEF IInv, PacketInv
  <2> QED BY <2>1, <2>2 DEF InRing
<1>3. /\ AdvanceReadCount(r, ulWriteIndex, k) = k
      /\ AdvanceRead(r, ulWriteIndex, k) = WrapIndex(r + k)
  BY <1>2, SizeAssumption, TxAssumption
  DEF AdvanceRead, AdvanceReadCount, AtMost, Index
<1>4. /\ ulReadIndex' = WrapIndex(r + k) /\ head' = head + k
      /\ eCDCTxState' = "IDLE" /\ usLastTxSize' = 0 /\ txIrq' = FALSE
      /\ pc' = [pc EXCEPT !["isr"] = "avail"]
      /\ UNCHANGED <<pucBuf, ulWriteIndex, local, bConnected, fifo, txPktRdy, bus,
                     client, host>>
  BY <1>3 DEF TxComplete, HandleTxComplete, Goto
<1>5. /\ ulReadIndex' \in Index /\ InRing' = InRing - k
  <2>1. k \in 0 .. Used(r, SettledWrite)
    BY <1>2, TxAssumption
  <2>2. WrapIndex(r + k) \in Index
        /\ Used(WrapIndex(r + k), SettledWrite) = Used(r, SettledWrite) - k
    BY <1>2, <2>1, AdvanceReadRemoves
  <2>3. InRing' = Used(ulReadIndex', SettledWrite)
    BY <1>4 DEF InRing, SettledWrite
  <2> QED BY <1>2, <1>4, <2>2, <2>3
<1>6. Typed' /\ LocalTypes'
  <2>1. head + k \in 0 .. MaxBytes
    BY <1>2, TxAssumption DEF IInv, Typed, Kinds, Ranges
  <2>2. 0 \in 0 .. Packet
    BY TxAssumption
  <2>3. LocalTypes'
    BY <1>2, <1>4, <2>1 DEF IInv, LocalTypes, client, host, Contexts, Labels
  <2>4. Typed'
    BY <1>1, <1>2, <1>4, <1>5, <2>1, <2>2
    DEF IInv, Typed, Kinds, Ranges, LocalTypes, bus, client, host, Contexts
  <2> QED BY <2>3, <2>4
<1>7. NothingReset'
  BY <1>4 DEF IInv, NothingReset, bus
<1>8. ContentsInOrder'
  <2>1. ASSUME NEW i \in 0 .. InRing - k - 1 PROVE At(i)' = head + k + i
    <3>1. WrapIndex(WrapIndex(r + k) + i) = WrapIndex(r + (k + i))
      BY <1>2, SizeAssumption DEF WrapIndex, Index
    <3>2. At(i)' = At(k + i)
      BY <1>4, <3>1 DEF At
    <3>3. At(k + i) = head + (k + i)
      BY <1>2 DEF IInv, ContentsInOrder
    <3> QED BY <1>2, <3>2, <3>3
  <2>2. head' + InRing' = written'
    BY <1>2, <1>4, <1>5 DEF client
  <2> QED BY <1>4, <1>5, <2>1, <2>2 DEF ContentsInOrder
<1>9. ClientInv'
  <2>1. /\ pc'["main"] = pc["main"] /\ InRing' \in Nat /\ InRing' <= InRing
        /\ UNCHANGED <<pucBuf, ulWriteIndex, todo, delta, written>>
    BY <1>2, <1>4, <1>5 DEF IInv, LocalTypes, Contexts, client
  <2>2. todo \in Nat /\ delta \in Nat
    BY DEF IInv, LocalTypes
  <2>6. InRing \in Nat /\ Size \in Nat
    BY <1>2, SizeAssumption
  <2>3. CASE pc["main"] = "store"
    <3>1. InRing + todo <= Size - 1
      BY <2>3 DEF IInv, ClientInv
    <3>2. InRing' + todo <= Size - 1
      BY <2>1, <2>2, <2>6, <3>1
    <3> QED BY <2>1, <2>3, <3>2 DEF IInv, ClientInv
  <2>4. CASE pc["main"] = "add"
    <3>1. InRing + delta + todo <= Size - 1
      BY <2>4 DEF IInv, ClientInv
    <3>2. \A a, b, c, d \in Nat : a <= b /\ b + c + d <= Size - 1 => a + c + d <= Size - 1
      BY SizeAssumption
    <3>3. InRing' + delta + todo <= Size - 1
      BY <1>2, <2>1, <2>2, <3>1, <3>2
    <3> QED BY <2>1, <2>4, <3>3 DEF IInv, ClientInv
  <2>5. CASE pc["main"] \notin {"store", "add", "wrap"}
    BY <2>1, <2>5 DEF IInv, ClientInv
  <2>7. CASE pc["main"] = "wrap"
    <3>1. InRing + todo <= Size - 1
      BY <2>7 DEF IInv, ClientInv
    <3>2. InRing' + todo <= Size - 1
      BY <2>1, <2>2, <2>6, <3>1
    <3> QED BY <2>1, <2>7, <3>2 DEF IInv, ClientInv
  <2> QED BY <2>3, <2>4, <2>5, <2>7
<1>13. WrapInv'
  <2> SUFFICES ASSUME ulWriteIndex = Size PROVE ulReadIndex' # 0 /\ txIrq' = FALSE
    BY <1>4 DEF WrapInv
  <2>1. pc["main"] = "wrap"
    BY SizeAssumption DEF IInv, Typed, Ranges, Index
  <2>2. r # 0 /\ r + k # Size
    BY <1>1, <2>1 DEF IInv, WrapInv
  <2> QED BY <1>2, <1>4, <2>2, SizeAssumption, TxAssumption DEF WrapIndex, Used, Index
<1>10. OnePacket' /\ SomebodySends'
  BY <1>1, <1>4
  DEF IInv, Typed, Kinds, Ranges, OnePacket, SomebodySends, BusyOnTheWay, Arming, Loading,
      LocalTypes, Contexts
<1>11. PacketInv'
  <2>1. Positions(head + k, head + k + 0) = << >>
    BY <1>2 DEF Positions
  <2>2. fifo = << >> /\ hostNext = head + k
    BY <1>1 DEF IInv, PacketInv
  <2> QED
    BY <1>2, <1>4, <1>5, <2>1, <2>2, TxAssumption DEF PacketInv, host
<1>12. ASSUME NEW c \in Contexts PROVE LocalInv(c)'
  BY <1>1, <1>4 DEF IInv, LocalInv, Loading, LocalTypes, Contexts
<1> QED BY <1>6, <1>7, <1>8, <1>9, <1>10, <1>11, <1>12, <1>13 DEF IInv

\* The packet the host takes is not empty, and is the first bytes of the ring.
LEMMA PacketTaken ==
  ASSUME IInv, HostTakesPacket
  PROVE  LET k == usLastTxSize IN
         /\ k \in Nat /\ k >= 1 /\ k <= InRing /\ k <= Packet
         /\ hostGot' = Positions(head, head + k)
         /\ hostNext = head /\ hostNext' = head + k
         /\ ~txIrq /\ eCDCTxState = "WAIT_DATA"
         /\ \A c \in Contexts : ~Loading(c) /\ pc[c] # "send"
<1> DEFINE k == usLastTxSize
<1>1. /\ ~txIrq /\ eCDCTxState = "WAIT_DATA"
      /\ \A c \in Contexts : ~Loading(c) /\ pc[c] # "send"
  BY DEF HostTakesPacket, IInv, Typed, Kinds, Ranges, OnePacket, BusyOnTheWay, Arming
<1>2. /\ k \in Nat /\ k >= 1 /\ k <= InRing /\ k <= Packet /\ head \in Nat
      /\ fifo = Positions(head, head + k) /\ hostNext = head
  BY <1>1, TxAssumption DEF IInv, PacketInv, LocalTypes
<1>3. /\ Len(Positions(head, head + k)) = k /\ Positions(head, head + k)[k] = head + k - 1
      /\ Positions(head, head + k) # << >>
  BY <1>2 DEF Positions
<1>4. hostGot' = fifo /\ hostNext' = head + k
  BY <1>2, <1>3 DEF HostTakesPacket
<1> QED BY <1>1, <1>2, <1>4

LEMMA HostTakesPacketKeepsIInv ==
  ASSUME OneCompletion, IInv, HostTakesPacket
  PROVE  IInv'
<1> DEFINE k == usLastTxSize
<1>1. /\ k \in Nat /\ k >= 1 /\ k <= InRing /\ k <= Packet
      /\ hostGot' = Positions(head, head + k)
      /\ hostNext = head /\ hostNext' = head + k
      /\ eCDCTxState = "WAIT_DATA"
      /\ \A c \in Contexts : ~Loading(c) /\ pc[c] # "send"
  BY PacketTaken
<1>2. /\ fifo' = << >> /\ txPktRdy' = FALSE /\ txIrq' = TRUE
      /\ UNCHANGED <<ring, instance, bus, pc, local, client, head>>
  BY DEF HostTakesPacket
<1>3. InRing' = InRing /\ InRing \in Nat /\ head \in Nat /\ written = head + InRing
  BY <1>2, IndexFacts DEF InRing, SettledWrite, ring
<1>4. Typed' /\ LocalTypes'
  <2>1. head + k \in 0 .. MaxBytes
    BY <1>1, <1>3, TxAssumption DEF IInv, Typed, Kinds, Ranges
  <2>2. Len(<< >>) <= Packet
    BY TxAssumption
  <2>3. LocalTypes'
    BY <1>1, <1>2, <1>3 DEF IInv, LocalTypes, client
  <2>4. Typed'
    BY <1>1, <1>2, <2>1, <2>2 DEF IInv, Typed, Kinds, Ranges, ring, instance, bus, client
  <2> QED BY <2>3, <2>4
<1>5. NothingReset' /\ ContentsInOrder' /\ ClientInv'
  BY <1>2, <1>3
  DEF IInv, NothingReset, ContentsInOrder, ClientInv, At, ring, instance, bus, client
<1>6. OnePacket' /\ SomebodySends'
  BY <1>1, <1>2
  DEF IInv, OnePacket, SomebodySends, BusyOnTheWay, Arming, Loading, instance
<1>7. PacketInv' /\ WrapInv'
  <2>1. ulWriteIndex = Size => Preempt # "anywhere"
    BY SizeAssumption DEF HostTakesPacket, OneCompletion, IInv, Typed, Ranges, Index
  <2> QED
    BY <1>1, <1>2, <1>3, <2>1 DEF IInv, PacketInv, WrapInv, instance, ring
<1>8. ASSUME NEW c \in Contexts PROVE LocalInv(c)'
  BY <1>2 DEF IInv, LocalInv, Loading, MorePartsTo, ring, instance
<1> QED BY <1>4, <1>5, <1>6, <1>7, <1>8 DEF IInv

LEMMA NextKeepsIInv ==
  ASSUME OneCompletion, IInv, [Next]_vars, upsets' = 0
  PROVE  IInv'
<1>1. CASE UNCHANGED vars
  <2>1. UNCHANGED <<ring, instance, endpoint, bus, pc, local, client, head, host>>
    BY <1>1 DEF vars
  <2>2. Typed' /\ LocalTypes' /\ NothingReset' /\ ContentsInOrder' /\ ClientInv'
        /\ WrapInv'
    BY <2>1
    DEF IInv, WrapInv, Typed, Kinds, Ranges, LocalTypes, NothingReset, ContentsInOrder, ClientInv, At,
        InRing, SettledWrite, ring, instance, endpoint, bus, client, host
  <2>3. OnePacket' /\ PacketInv' /\ SomebodySends'
    BY <2>1
    DEF IInv, OnePacket, PacketInv, SomebodySends, BusyOnTheWay, Arming,
        Loading, InRing, SettledWrite, ring, instance, endpoint, host
  <2>4. ASSUME NEW c \in Contexts PROVE LocalInv(c)'
    BY <2>1 DEF IInv, LocalInv, Loading, MorePartsTo, ring, instance
  <2> QED BY <2>2, <2>3, <2>4 DEF IInv
<1>2. CASE Main
  <2>1. ~Flush
    BY DEF Flush, IInv, NothingReset
  <2> QED
    BY <1>2, <2>1, BeginWriteKeepsIInv, StoreByteKeepsIInv, BeginDataWrittenKeepsIInv,
       AddToIndexKeepsIInv, WrapTheIndexKeepsIInv, ScheduleKeepsIInv
    DEF Main, Contexts
<1>3. upsets = 0 /\ upsets' = 0
  BY DEF IInv, NothingReset
<1>4. CASE Handler
  BY <1>3, <1>4, TxCompleteKeepsIInv, ScheduleKeepsIInv
  DEF Handler, ConfigChange, Disconnect, Contexts
<1>5. CASE Environment
  BY <1>3, <1>5, HostTakesPacketKeepsIInv DEF Environment, BusReset
<1> QED BY <1>1, <1>2, <1>4, <1>5 DEF Next

\* Whatever the upsets, the kinds of the variables stay, and the machine is busy
\* in a configured device only while something is under way.
Recovers == Kinds /\ pc \in [Contexts -> Labels] /\ NeverBusyForNothing

LEMMA NextRecovers ==
  ASSUME Recovers, [Next]_vars
  PROVE  Recovers'
<1>1. CASE UNCHANGED vars
  BY <1>1
  DEF Recovers, Kinds, NeverBusyForNothing, Arming, vars, instance, endpoint, bus
<1>2. ASSUME NEW c \in Contexts, Schedule(c) PROVE Recovers'
  <2>1. CASE AskAvailable(c) \/ MeasureContig(c) \/ MeasureTotal(c)
    BY <2>1
    DEF Recovers, Kinds, NeverBusyForNothing, Arming, AskAvailable, MeasureContig,
        MeasureTotal, Goto, UNCHANGED_ByScheduling, bus, Labels, Contexts
  <2>2. CASE PutBytes(c)
    BY <2>2
    DEF Recovers, Kinds, NeverBusyForNothing, Arming, PutBytes, AfterTransfer, Goto,
        UNCHANGED_ByScheduling, bus, Labels, Contexts
  <2>3. CASE MarkBusy(c)
    BY <2>3
    DEF Recovers, Kinds, NeverBusyForNothing, Arming, MarkBusy, Goto,
        UNCHANGED_ByScheduling, bus, Labels, Contexts
  <2>4. CASE SendPacket(c)
    BY <2>4
    DEF Recovers, Kinds, NeverBusyForNothing, SendPacket, AfterTransfer, Goto,
        UNCHANGED_ByScheduling, bus, Labels, Contexts
  <2> QED BY <1>2, <2>1, <2>2, <2>3, <2>4 DEF Schedule
<1>3. CASE \/ BeginWrite \/ StoreByte \/ BeginDataWritten \/ AddToIndex
           \/ WrapTheIndex \/ Flush
  BY <1>3
  DEF Recovers, Kinds, NeverBusyForNothing, Arming, BeginWrite, StoreByte,
      BeginDataWritten, AddToIndex, WrapTheIndex, Flush, Goto, UNCHANGED_ByClient,
      instance, endpoint, bus, Labels, Contexts
<1>4. CASE TxComplete \/ ConfigChange \/ Disconnect
  <2>1. pc' \in [Contexts -> Labels] /\ pc'["main"] = pc["main"]
        /\ pc'["isr"] \in {pc["isr"], "avail"}
    BY <1>4 DEF Recovers, TxComplete, HandleTxComplete, ConfigChange, Disconnect, Goto,
                Labels, Contexts
  <2>2. CASE TxComplete
    BY <2>1, <2>2
    DEF Recovers, Kinds, NeverBusyForNothing, TxComplete, bus
  <2>3. CASE ConfigChange
    BY <2>1, <2>3
    DEF Recovers, Kinds, NeverBusyForNothing, ConfigChange, endpoint
  <2>4. CASE Disconnect
    <3>1. configured' = FALSE /\ bConnected' = FALSE /\ upsets' = upsets + 1
          /\ UNCHANGED <<eCDCTxState, txPktRdy, txIrq>>
      BY <2>4 DEF Disconnect, endpoint
    <3>2. NeverBusyForNothing'
      BY <3>1 DEF NeverBusyForNothing
    <3>3. upsets' \in Nat
      BY <3>1 DEF Recovers, Kinds
    <3>4. Kinds'
      BY <2>1, <3>1, <3>3 DEF Recovers, Kinds
    <3> QED BY <2>1, <3>2, <3>4 DEF Recovers
  <2> QED BY <1>4, <2>2, <2>3, <2>4
<1>5. CASE HostTakesPacket \/ BusReset
  <2>1. UNCHANGED <<pc, eCDCTxState, bConnected>>
    BY <1>5 DEF HostTakesPacket, BusReset, instance
  <2>2. CASE HostTakesPacket
    BY <2>1, <2>2 DEF Recovers, Kinds, NeverBusyForNothing, HostTakesPacket, bus
  <2>3. CASE BusReset
    <3>1. configured' = FALSE /\ txPktRdy' = FALSE /\ upsets' = upsets + 1
          /\ UNCHANGED txIrq
      BY <2>3 DEF BusReset
    <3>2. NeverBusyForNothing'
      BY <3>1 DEF NeverBusyForNothing
    <3>3. upsets' \in Nat
      BY <3>1 DEF Recovers, Kinds
    <3>4. Kinds'
      BY <2>1, <3>1, <3>3 DEF Recovers, Kinds
    <3> QED BY <2>1, <3>2, <3>4 DEF Recovers
  <2> QED BY <1>5, <2>2, <2>3
<1> QED BY <1>1, <1>2, <1>3, <1>4, <1>5 DEF Next, Main, Handler, Environment, Contexts

\* However often the device is reset, disconnected or configured, and wherever
\* that interrupts the client: a configured device never waits for a packet that
\* is gone.
THEOREM TxNeverBusyForNothing == Spec => []NeverBusyForNothing
<1>1. Init => Recovers
  BY InitKinds DEF Init, Recovers, NeverBusyForNothing
<1>2. Recovers /\ [Next]_vars => Recovers'
  BY NextRecovers
<1>3. Recovers => NeverBusyForNothing
  BY DEF Recovers
<1> QED BY <1>1, <1>2, <1>3, PTL DEF Spec

\* There is no way back to a device that nothing has upset.
LEMMA NextNeverForgets ==
  ASSUME Recovers, [Next]_vars, upsets' = 0
  PROVE  upsets = 0
<1>1. upsets \in Nat
  BY DEF Recovers, Kinds
<1>2. upsets' = upsets \/ upsets' = upsets + 1
  <2>1. ASSUME NEW c \in Contexts, Schedule(c) PROVE upsets' = upsets
    BY <2>1 DEF Schedule, AskAvailable, MeasureContig, MeasureTotal, PutBytes, MarkBusy,
                SendPacket, UNCHANGED_ByScheduling, bus
  <2> QED
    BY <2>1
    DEF Next, Main, Handler, Environment, BeginWrite, StoreByte, BeginDataWritten,
        AddToIndex, WrapTheIndex, Flush, UNCHANGED_ByClient, TxComplete,
        HandleTxComplete, ConfigChange, Disconnect, HostTakesPacket, BusReset, vars, bus,
        Contexts
<1> QED BY <1>1, <1>2

\* The inductive invariant with upsets.
Inv == Recovers /\ (upsets = 0 => IInv)

\* The inductive invariant holds of every behaviour, until the first upset.
THEOREM TxInvariant ==
  ASSUME OneCompletion
  PROVE  Spec => []Inv
<1>1. Init => Inv
  <2>1. Init => Recovers
    BY InitKinds DEF Init, Recovers, NeverBusyForNothing
  <2> QED BY <2>1, InitIInv DEF Inv
<1>2. Inv /\ [Next]_vars => Inv'
  BY NextRecovers, NextNeverForgets, NextKeepsIInv DEF Inv
<1> QED BY <1>1, <1>2, PTL DEF Spec

\* The indices, the packet and the client's counts keep their types, for every
\* ring and packet.
THEOREM TxTypeCorrect ==
  ASSUME OneCompletion
  PROVE  Spec => []TypeOK
<1>1. Inv => TypeOK
  BY DEF Inv, Recovers, IInv, Typed, TypeOK
<1> QED BY <1>1, TxInvariant, PTL

\* A packet is never loaded on top of another, wherever the handler interrupts
\* the client's call of ScheduleNextTransmission.
THEOREM TxBusyWhileOnItsWay ==
  ASSUME OneCompletion
  PROVE  Spec => []BusyWhileOnItsWay
<1>1. Inv => BusyWhileOnItsWay
  BY DEF Inv, IInv, OnePacket, BusyOnTheWay, BusyWhileOnItsWay
<1> QED BY <1>1, TxInvariant, PTL

\* Between a client that finds the endpoint busy and a handler that finds the
\* ring empty no byte is left in the ring with nobody to send it.
THEOREM TxNoByteLeftBehind ==
  ASSUME OneCompletion
  PROVE  Spec => []NoByteLeftBehind
<1>1. Inv => NoByteLeftBehind
  <2> SUFFICES ASSUME IInv, AtRest PROVE InRing = 0
    BY DEF Inv, NoByteLeftBehind
  <2>1. eCDCTxState = "IDLE"
    BY DEF AtRest, IInv, OnePacket, BusyOnTheWay, Arming, Typed, Kinds
  <2>2. ~(InRing > 0) /\ InRing \in Nat
    BY <2>1, IndexFacts DEF AtRest, IInv, SomebodySends
  <2> QED BY <2>2
<1> QED BY <1>1, TxInvariant, PTL

\* TX_COMPLETE reports the size of the packet the host has taken, and releases
\* no byte the host has not, also when it comes within the client's update of
\* the write index.
THEOREM TxCompleteReportsSent ==
  ASSUME OneCompletion
  PROVE  Spec => CompleteReportsSent
<1>1. Inv /\ [Next]_vars =>
        [TxComplete /\ upsets = 0 => /\ usLastTxSize = Len(hostGot)
                                     /\ head' <= hostNext]_vars
  <2> SUFFICES ASSUME IInv, TxComplete
               PROVE  usLastTxSize = Len(hostGot) /\ head' <= hostNext
    BY DEF Inv
  <2>1. /\ txIrq /\ usLastTxSize \in Nat /\ head \in Nat
        /\ usLastTxSize <= InRing /\ hostNext = head + usLastTxSize
        /\ hostGot = Positions(head, head + usLastTxSize)
    BY TxAssumption DEF TxComplete, IInv, PacketInv, LocalTypes
  <2>2. Len(hostGot) = usLastTxSize
    BY <2>1 DEF Positions
  <2>3. head' <= head + usLastTxSize
    <3>1. InRing = Used(ulReadIndex, ulWriteIndex) /\ InRing \in Nat
      BY IndexFacts
    <3>2. AdvanceReadCount(ulReadIndex, ulWriteIndex, usLastTxSize)
            \in 0 .. usLastTxSize
      BY <2>1, <3>1 DEF AdvanceReadCount, AtMost
    <3> QED BY <2>1, <3>2 DEF TxComplete, HandleTxComplete
  <2> QED BY <2>1, <2>2, <2>3
<1> QED BY <1>1, TxInvariant, PTL DEF CompleteReportsSent, Spec

-----------------------------------------------------------------------------
(* The transmit path implements the queue of ByteQueue: the queue holds the *)
(* stream positions from where the host has come to what has been written.   *)

\* What the refinement mapping makes of the ring.
AbsQueue == [i \in 1 .. InRing - Taken |-> At(Taken + i - 1)]

\* The inductive invariant seen through the mapping.
AbsInv == /\ AbsQueue = Positions(hostNext, written)
          /\ hostNext \in Nat /\ written \in Nat
          /\ written - hostNext \in 0 .. Size - 1

LEMMA QueueIsPositions == IInv => AbsInv
<1> SUFFICES ASSUME IInv PROVE AbsInv
  OBVIOUS
<1> DEFINE k == IF txIrq THEN usLastTxSize ELSE 0
<1>1. /\ InRing \in 0 .. Size - 1 /\ head \in Nat /\ written = head + InRing
      /\ k \in Nat /\ k <= InRing /\ hostNext = head + k
  BY IndexFacts, TxAssumption DEF IInv, PacketInv
<1>2. Taken = k
  <2>1. ASSUME txIrq PROVE Len(hostGot) = k
    <3>1. hostGot = Positions(head, head + k)
      BY <2>1 DEF IInv, PacketInv
    <3> QED BY <1>1, <3>1 DEF Positions
  <2> QED BY <2>1 DEF Taken
<1> HIDE DEF k
<1>3. ASSUME NEW i \in 1 .. InRing - k PROVE At(k + i - 1) = hostNext + i - 1
  BY <1>1 DEF IInv, ContentsInOrder
<1>4. AbsQueue = [i \in 1 .. written - hostNext |-> hostNext + i - 1]
  <2>1. written - hostNext = InRing - k
    BY <1>1
  <2> QED BY <1>2, <1>3, <2>1 DEF AbsQueue
<1>5. hostNext \in Nat /\ written \in Nat /\ written - hostNext \in 0 .. Size - 1
  BY <1>1, SizeAssumption
<1> QED BY <1>4, <1>5 DEF AbsInv, Positions

\* Every step is a step of the queue or leaves it alone.
LEMMA StepIsQueueStep ==
  ASSUME IInv, AbsInv, AbsInv', [Next]_vars, upsets' = 0
  PROVE  [Queue!Next]_(Queue!vars)
<1>1. /\ AbsQueue = Positions(hostNext, written)
      /\ AbsQueue' = Positions(hostNext', written')
      /\ hostNext \in Nat /\ written \in Nat
      /\ written - hostNext \in 0 .. Size - 1
      /\ written' - hostNext' \in 0 .. Size - 1
      /\ hostNext <= written
  <2>1. \A a, b \in Nat : b - a \in 0 .. Size - 1 => a <= b
    BY SizeAssumption
  <2> QED BY <2>1 DEF AbsInv
<1>2. Len(AbsQueue) = written - hostNext
  BY <1>1 DEF Positions
<1>3. CASE UNCHANGED <<hostNext, written, hostGot>>
  <2>1. UNCHANGED <<AbsQueue, written, hostGot>>
    BY <1>1, <1>3
  <2> QED BY <2>1 DEF Queue!vars, AbsQueue
<1>4. CASE AddToIndex
  <2>1. /\ written' = written + delta /\ UNCHANGED <<hostNext, hostGot>>
        /\ delta \in Nat /\ delta >= 1
    BY <1>4 DEF AddToIndex, UNCHANGED_ByClient, host, IInv, ClientInv, LocalTypes
  <2>2. delta \in 1 .. Size - 1 /\ Len(AbsQueue) + delta <= Size - 1
    BY <1>1, <1>2, <2>1, SizeAssumption
  <2>3. AbsQueue' = AbsQueue \o [i \in 1 .. delta |-> written + i - 1]
    BY <1>1, <2>1, PositionsPut
  <2> QED
    BY <2>1, <2>2, <2>3 DEF Queue!Next, Queue!Put, AbsQueue
<1>5. CASE HostTakesPacket
  <2> DEFINE k == usLastTxSize
  <2>1. /\ k \in Nat /\ k >= 1 /\ hostGot' = Positions(hostNext, hostNext + k)
        /\ hostNext' = hostNext + k /\ written' = written
    BY <1>5, PacketTaken DEF HostTakesPacket, client
  <2> HIDE DEF k
  <2>2. k \in 1 .. Size - 1 /\ k <= Len(AbsQueue) /\ hostNext + k <= written
    BY <1>1, <1>2, <2>1, SizeAssumption
  <2>3. /\ AbsQueue' = SubSeq(AbsQueue, k + 1, Len(AbsQueue))
        /\ hostGot' = SubSeq(AbsQueue, 1, k)
    BY <1>1, <2>1, <2>2, PositionsGet
  <2> QED
    BY <2>1, <2>2, <2>3 DEF Queue!Next, Queue!Get, AbsQueue
<1>6. \/ AddToIndex \/ HostTakesPacket \/ UNCHANGED <<hostNext, written, hostGot>>
  <2>1. upsets = 0 /\ upsets' = 0
    BY DEF IInv, NothingReset
  <2>2. ASSUME NEW c \in Contexts, Schedule(c)
        PROVE  UNCHANGED <<hostNext, written, hostGot>>
    BY <2>2 DEF Schedule, AskAvailable, MeasureContig, MeasureTotal, PutBytes, MarkBusy,
                SendPacket, UNCHANGED_ByScheduling, client, host
  <2> QED
    BY <2>1, <2>2
    DEF Next, Main, Handler, Environment, BeginWrite, StoreByte, BeginDataWritten,
        WrapTheIndex, Flush, UNCHANGED_ByClient, TxComplete, HandleTxComplete,
        ConfigChange, Disconnect, BusReset, vars, client, host, Contexts
<1> QED BY <1>3, <1>4, <1>5, <1>6

\* Client, handler, endpoint and host together are the bounded first-in
\* first-out queue of ByteQueue: until the first upset the host takes the bytes
\* written, each once and in order.
THEOREM TxRefinesQueue ==
  ASSUME OneCompletion
  PROVE  Spec => QueueSpec
<1>1. Init => Queue!Init
  <2> SUFFICES ASSUME Init PROVE Queue!Init
    OBVIOUS
  <2>1. AbsInv
    BY InitIInv, QueueIsPositions
  <2>2. written = 0 /\ hostNext = 0 /\ hostGot = << >>
    BY DEF Init
  <2>3. AbsQueue = << >>
    BY <2>1, <2>2 DEF AbsInv, Positions
  <2> QED BY <2>2, <2>3 DEF Queue!Init, AbsQueue
<1>2. Inv /\ Inv' /\ [Next]_vars => [upsets' = 0 => Queue!Next]_(Queue!vars)
  <2> SUFFICES ASSUME Inv, Inv', [Next]_vars, upsets' = 0
               PROVE  [Queue!Next]_(Queue!vars)
    OBVIOUS
  <2>1. IInv' => AbsInv'
    BY QueueIsPositions, PTL
  <2>2. IInv /\ IInv'
    BY NextNeverForgets DEF Inv
  <2> QED BY <2>1, <2>2, QueueIsPositions, StepIsQueueStep
<1> QED BY <1>1, <1>2, TxInvariant, PTL DEF Spec, QueueSpec
=============================================================================
