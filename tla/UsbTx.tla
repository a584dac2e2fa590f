-------------------------------- MODULE UsbTx --------------------------------
(***************************************************************************)
(* The transmit path of the serial device: a client writes bytes into a    *)
(* transmit tUSBBuffer (usblib/usbbuffer.c), which packs them into packets *)
(* and hands them to USBDCDCPacketWrite (usblib/device/usbdcdc.c), which    *)
(* fills the FIFO of the bulk IN endpoint (drivers/usb.c).  When the host   *)
(* has taken a packet the interrupt handler removes its bytes from the ring *)
(* and schedules the next one.                                             *)
(*                                                                         *)
(* ScheduleNextTransmission runs in two contexts, the client's ("main")    *)
(* and the interrupt handler's ("isr"), and takes one step per access to    *)
(* state the two share.  The handler runs to its end before the client      *)
(* resumes; the host and the USB core act at any time.  Only the client      *)
(* moves the write index, so that its load, comparison and subtraction are   *)
(* one step; the addition before them is another.                          *)
(*                                                                         *)
(* Bytes carry their position in the stream the client writes.             *)
(***************************************************************************)
EXTENDS UsbRingBuf, Sequences

CONSTANTS
  Packet,       \* DATA_IN_EP_MAX_SIZE
  Preempt,      \* where the handler may interrupt the client: see Interruptible
  ClientFlush,  \* whether the client calls USBBufferFlush while it runs
  MaxBytes,     \* bound on the bytes the client writes
  TakesInUpdate, \* whether the host can take a packet within an index update
  MaxUpsets     \* bound on resets, disconnections, configurations and flushes

ASSUME TxAssumption ==
  /\ Packet \in Nat \ {0}
  /\ Preempt \in {"never", "anywhere"}
  /\ {ClientFlush, TakesInUpdate} \subseteq BOOLEAN
  /\ MaxBytes \in Nat /\ MaxUpsets \in Nat

VARIABLES
  pucBuf, ulReadIndex, ulWriteIndex,    \* the ring of the buffer
  eCDCTxState, usLastTxSize, bConnected, \* tCDCSerInstance
  fifo, txPktRdy, txIrq,    \* the endpoint: bytes loaded, armed, interrupt due
  configured,               \* the host has set a configuration and polls us
  upsets,                   \* resets, connections, flushes that have occurred
  pc, local,                \* per context: the next access, the C locals
  todo, delta,              \* of the client's write: bytes left, index step
  written,                  \* bytes that have entered the ring
  head,                     \* stream position of the byte at the read index
  hostGot, hostNext         \* last packet the host took, position after it

ring     == <<pucBuf, ulReadIndex, ulWriteIndex>>
instance == <<eCDCTxState, usLastTxSize, bConnected>>
endpoint == <<fifo, txPktRdy, txIrq>>
bus      == <<configured, upsets>>
client   == <<todo, delta, written>>
host     == <<hostGot, hostNext>>
vars == <<ring, instance, endpoint, bus, pc, local, client, head, host>>

Contexts == {"main", "isr"}
NoByte == -1

\* The locals of ScheduleNextTransmission: what the lower layer accepts, the
\* part to transfer now, the bytes in the ring, and which part comes next.
NoLocals == [ulPacket |-> 0, ulSpace |-> 0, ulTotal |-> 0, part |-> 1]

Init ==
  /\ pucBuf = [i \in Index |-> NoByte] /\ ulReadIndex = 0 /\ ulWriteIndex = 0
  /\ eCDCTxState = "IDLE" /\ usLastTxSize = 0 /\ bConnected = TRUE
  /\ fifo = << >> /\ txPktRdy = FALSE /\ txIrq = FALSE
  /\ configured = TRUE /\ upsets = 0
  /\ pc = [c \in Contexts |-> "idle"]
  /\ local = [c \in Contexts |-> NoLocals]
  /\ todo = 0 /\ delta = 0 /\ written = 0
  /\ head = 0 /\ hostGot = << >> /\ hostNext = 0

Goto(c, label) == pc' = [pc EXCEPT ![c] = label]

\* The client runs only while the handler does not; the handler is entered
\* only where the client can be interrupted.  "never": every client call is
\* made from handlers of the same priority, as usb_dev_serial does.
\* "anywhere": the client is preempted before any of its accesses, also
\* within an index update, which masks nothing (IntDisable is commented out).
Runs(c) == c = "isr" \/ pc["isr"] = "idle"

Interruptible ==
  /\ pc["isr"] = "idle"
  /\ \/ pc["main"] = "idle"
     \/ Preempt = "anywhere"

-----------------------------------------------------------------------------
(* ScheduleNextTransmission and, from "put" to "send", the packet write it  *)
(* calls through pfnTransfer.                                              *)

UNCHANGED_ByScheduling ==
  UNCHANGED <<ring, bConnected, txIrq, bus, client, head, host>>

\* USBDCDCTxPacketAvailable: a whole packet unless one is being sent.
AskAvailable(c) ==
  /\ Runs(c) /\ pc[c] = "avail"
  /\ IF eCDCTxState = "IDLE"
       THEN /\ local' = [local EXCEPT ![c].ulPacket = Packet]
            /\ Goto(c, "contig")
       ELSE Goto(c, "idle") /\ UNCHANGED local
  /\ UNCHANGED <<eCDCTxState, usLastTxSize, fifo, txPktRdy>>
  /\ UNCHANGED_ByScheduling

MeasureContig(c) ==
  /\ Runs(c) /\ pc[c] = "contig"
  /\ local' = [local EXCEPT ![c].ulSpace = ContigUsed(ulReadIndex, ulWriteIndex)]
  /\ Goto(c, "total")
  /\ UNCHANGED <<eCDCTxState, usLastTxSize, fifo, txPktRdy>>
  /\ UNCHANGED_ByScheduling

MeasureTotal(c) ==
  /\ Runs(c) /\ pc[c] = "total"
  /\ IF local[c].ulSpace = 0
       THEN /\ local' = [local EXCEPT ![c] = NoLocals]
            /\ Goto(c, "idle")
       ELSE /\ local' = [local EXCEPT
                 ![c].ulTotal = Used(ulReadIndex, ulWriteIndex),
                 ![c].ulSpace = AtMost(local[c].ulSpace, local[c].ulPacket)]
            /\ Goto(c, "put")
  /\ UNCHANGED <<eCDCTxState, usLastTxSize, fifo, txPktRdy>>
  /\ UNCHANGED_ByScheduling

\* The data spans the end of the workspace and does not fill the packet.
MorePartsTo(l) == l.part = 1 /\ l.ulSpace < l.ulPacket /\ l.ulSpace < l.ulTotal

SecondPart(l) ==
  [l EXCEPT !.part = 2,
            !.ulPacket = l.ulPacket - l.ulSpace,
            !.ulSpace = AtMost(l.ulTotal - l.ulSpace, l.ulPacket - l.ulSpace)]

\* The call of pfnTransfer returns, whatever it returns: go on to the second
\* part if there is one.
AfterTransfer(c) ==
  IF MorePartsTo(local[c])
    THEN /\ local' = [local EXCEPT ![c] = SecondPart(local[c])]
         /\ Goto(c, "put")
    ELSE /\ local' = [local EXCEPT ![c] = NoLocals]
         /\ Goto(c, "idle")

\* Mutant: the second part does not start over at the beginning of the
\* workspace.
PartBytes_NoWrap(l) ==
  [i \in 1 .. l.ulSpace |-> pucBuf[WrapIndex(ulReadIndex + i - 1)]]

\* The bytes of the part: the first starts at the read index, the second at
\* the beginning of the workspace.
PartBytes(l) ==
  LET start == IF l.part = 1 THEN ulReadIndex ELSE 0
  IN  [i \in 1 .. l.ulSpace |->
         IF start + i - 1 \in Index THEN pucBuf[start + i - 1] ELSE NoByte]

\* USBDCDCPacketWrite up to its test of bLast, with USBEndpointDataPut.
PutBytes(c) ==
  /\ Runs(c) /\ pc[c] = "put"
  /\ IF eCDCTxState # "IDLE" \/ txPktRdy
       THEN /\ AfterTransfer(c)
            /\ UNCHANGED <<usLastTxSize, fifo>>
       ELSE /\ fifo' = fifo \o PartBytes(local[c])
            /\ usLastTxSize' = usLastTxSize + local[c].ulSpace
            /\ IF MorePartsTo(local[c])
                 THEN AfterTransfer(c)
                 ELSE Goto(c, "mark") /\ UNCHANGED local
  /\ UNCHANGED <<eCDCTxState, txPktRdy>>
  /\ UNCHANGED_ByScheduling

\* Mutant: the endpoint is armed but the state is left idle.
MarkBusy_Forgotten(c) ==
  /\ Runs(c) /\ pc[c] = "mark"
  /\ Goto(c, "send")
  /\ UNCHANGED <<eCDCTxState, local, usLastTxSize, fifo, txPktRdy>>
  /\ UNCHANGED_ByScheduling

\* USBDCDCPacketWrite, bLast: record that a packet is on its way ...
MarkBusy(c) ==
  /\ Runs(c) /\ pc[c] = "mark"
  /\ eCDCTxState' = "WAIT_DATA"
  /\ Goto(c, "send")
  /\ UNCHANGED <<local, usLastTxSize, fifo, txPktRdy>>
  /\ UNCHANGED_ByScheduling

\* ... and let USBEndpointDataSend arm the endpoint.
SendPacket(c) ==
  /\ Runs(c) /\ pc[c] = "send"
  /\ txPktRdy' = TRUE
  /\ AfterTransfer(c)
  /\ UNCHANGED <<eCDCTxState, usLastTxSize, fifo>>
  /\ UNCHANGED_ByScheduling

Schedule(c) == \/ AskAvailable(c) \/ MeasureContig(c) \/ MeasureTotal(c)
               \/ PutBytes(c) \/ MarkBusy(c) \/ SendPacket(c)

-----------------------------------------------------------------------------
(* The client.                                                             *)

UNCHANGED_ByClient ==
  UNCHANGED <<instance, endpoint, bus, local, host>>

\* USBBufferWrite: the length is clamped to the free space.
BeginWrite ==
  /\ Runs("main") /\ pc["main"] = "idle"
  /\ \E n \in 0 .. Free(ulReadIndex, ulWriteIndex) :
       /\ written + n <= MaxBytes
       /\ todo' = n
       /\ Goto("main", IF n = 0 THEN "avail" ELSE "store")
  /\ UNCHANGED <<ring, delta, written, head>>
  /\ UNCHANGED_ByClient

\* USBRingBufWriteOne stores the byte ...
StoreByte ==
  /\ Runs("main") /\ pc["main"] = "store"
  /\ pucBuf' = [pucBuf EXCEPT ![ulWriteIndex] = written]
  /\ delta' = 1
  /\ todo' = todo - 1
  /\ Goto("main", "add")
  /\ UNCHANGED <<ulReadIndex, ulWriteIndex, written, head>>
  /\ UNCHANGED_ByClient

\* USBBufferDataWritten: the client has filled the contiguous free block
\* itself and claims n bytes of it.
BeginDataWritten ==
  /\ Runs("main") /\ pc["main"] = "idle"
  /\ \E n \in 1 .. ContigFree(ulReadIndex, ulWriteIndex) :
       /\ written + n <= MaxBytes
       /\ pucBuf' = [i \in Index |->
                       IF i >= ulWriteIndex /\ i < ulWriteIndex + n
                         THEN written + (i - ulWriteIndex) ELSE pucBuf[i]]
       /\ delta' = n
  /\ Goto("main", "add")
  /\ UNCHANGED <<ulReadIndex, ulWriteIndex, todo, written, head>>
  /\ UNCHANGED_ByClient

\* ... UpdateIndexAtomic or USBRingBufAdvanceWrite adds to the write index ...
AddToIndex ==
  /\ Runs("main") /\ pc["main"] = "add"
  /\ ulWriteIndex' = ulWriteIndex + delta
  /\ written' = written + delta
  /\ delta' = 0
  /\ Goto("main", "wrap")
  /\ UNCHANGED <<pucBuf, ulReadIndex, todo, head>>
  /\ UNCHANGED_ByClient

\* Mutant: the write returns without trying to transmit.
WrapTheIndex_NoKick ==
  /\ Runs("main") /\ pc["main"] = "wrap"
  /\ ulWriteIndex' = WrapIndex(ulWriteIndex)
  /\ Goto("main", IF todo > 0 THEN "store" ELSE "idle")
  /\ UNCHANGED <<pucBuf, ulReadIndex, client, head>>
  /\ UNCHANGED_ByClient

\* ... and wraps it.
WrapTheIndex ==
  /\ Runs("main") /\ pc["main"] = "wrap"
  /\ ulWriteIndex' = WrapIndex(ulWriteIndex)
  /\ Goto("main", IF todo > 0 THEN "store" ELSE "avail")
  /\ UNCHANGED <<pucBuf, ulReadIndex, client, head>>
  /\ UNCHANGED_ByClient

\* USBRingBufFlush.  Only the client moves the write index, so its load and
\* the store of the read index are one step.
FlushRing ==
  /\ ulReadIndex' = ulWriteIndex
  /\ head' = written

Flush ==
  /\ ClientFlush /\ upsets < MaxUpsets
  /\ Runs("main") /\ pc["main"] = "idle"
  /\ FlushRing
  /\ upsets' = upsets + 1
  /\ UNCHANGED <<pucBuf, ulWriteIndex, instance, endpoint, configured, pc, local,
                 client, host>>

-----------------------------------------------------------------------------
(* The interrupt handler.                                                  *)

\* Mutant: the next packet is not scheduled.
HandleTxComplete_NoSchedule(n) ==
  /\ ulReadIndex' = AdvanceRead(ulReadIndex, ulWriteIndex, n)
  /\ head' = head + AdvanceReadCount(ulReadIndex, ulWriteIndex, n)
  /\ UNCHANGED <<pucBuf, ulWriteIndex, pc, local>>

\* HandleTxComplete of the buffer: n bytes are removed from the ring and the
\* next packet is scheduled.
HandleTxComplete(n) ==
  /\ ulReadIndex' = AdvanceRead(ulReadIndex, ulWriteIndex, n)
  /\ head' = head + AdvanceReadCount(ulReadIndex, ulWriteIndex, n)
  /\ Goto("isr", "avail")
  /\ UNCHANGED <<pucBuf, ulWriteIndex, local>>

\* Mutant: the size of the packet is not reset.
TxComplete_NoReset ==
  /\ Interruptible /\ txIrq
  /\ txIrq' = FALSE
  /\ eCDCTxState' = "IDLE"
  /\ HandleTxComplete(usLastTxSize)
  /\ UNCHANGED <<usLastTxSize, bConnected, fifo, txPktRdy, bus, client, host>>

\* ProcessDataToHost: the state goes idle, and the size of the packet is
\* taken, reset and reported to the buffer.
TxComplete ==
  /\ Interruptible /\ txIrq
  /\ txIrq' = FALSE
  /\ eCDCTxState' = "IDLE"
  /\ usLastTxSize' = 0
  /\ HandleTxComplete(usLastTxSize)
  /\ UNCHANGED <<bConnected, fifo, txPktRdy, bus, client, host>>

\* Mutant: the data endpoint's state is not reset.
ConfigChange_KeepsState ==
  /\ Interruptible /\ upsets < MaxUpsets
  /\ bConnected' = TRUE /\ configured' = TRUE
  /\ IF bConnected THEN UNCHANGED <<ulReadIndex, head>> ELSE FlushRing
  /\ upsets' = upsets + 1
  /\ UNCHANGED <<pucBuf, ulWriteIndex, eCDCTxState, usLastTxSize, endpoint, pc,
                 local, client, host>>

\* HandleConfigChange; the client flushes its buffer when it is told of a
\* connection (ControlHandler of usb_dev_serial).
ConfigChange ==
  /\ Interruptible /\ upsets < MaxUpsets
  /\ eCDCTxState' = "IDLE"
  /\ bConnected' = TRUE /\ configured' = TRUE
  /\ IF bConnected THEN UNCHANGED <<ulReadIndex, head>> ELSE FlushRing
  /\ upsets' = upsets + 1
  /\ UNCHANGED <<pucBuf, ulWriteIndex, usLastTxSize, endpoint, pc, local,
                 client, host>>

\* HandleDisconnect.
Disconnect ==
  /\ Interruptible /\ upsets < MaxUpsets
  /\ bConnected' = FALSE /\ configured' = FALSE
  /\ upsets' = upsets + 1
  /\ UNCHANGED <<ring, eCDCTxState, usLastTxSize, endpoint, pc, local, client,
                 head, host>>

-----------------------------------------------------------------------------
(* The USB core and the host.                                              *)

\* The host takes the packet that is armed.  Unless TakesInUpdate, a client
\* that has been interrupted between the addition to the write index and its
\* wrapping gets on with it before the host takes another packet.
HostTakesPacket ==
  /\ TakesInUpdate \/ pc["main"] # "wrap"
  /\ configured /\ txPktRdy
  /\ hostGot' = fifo
  /\ hostNext' = IF fifo = << >> THEN hostNext ELSE fifo[Len(fifo)] + 1
  /\ fifo' = << >> /\ txPktRdy' = FALSE /\ txIrq' = TRUE
  /\ UNCHANGED <<ring, instance, bus, pc, local, client, head>>

\* A bus reset empties the endpoint FIFOs; the serial device has no reset
\* handler.
BusReset ==
  /\ upsets < MaxUpsets
  /\ configured' = FALSE /\ fifo' = << >> /\ txPktRdy' = FALSE
  /\ upsets' = upsets + 1
  /\ UNCHANGED <<ring, instance, txIrq, pc, local, client, head, host>>

-----------------------------------------------------------------------------

Main == \/ BeginWrite \/ StoreByte \/ BeginDataWritten \/ AddToIndex
        \/ WrapTheIndex \/ Flush \/ Schedule("main")
Handler == TxComplete \/ ConfigChange \/ Disconnect \/ Schedule("isr")
Environment == HostTakesPacket \/ BusReset

Next == Main \/ Handler \/ Environment

Spec == Init /\ [][Next]_vars

\* A call that was begun goes on, a handler that was entered runs on, and a
\* host that polls takes the packet.  A pending interrupt stays pending, so
\* the handler is entered if it is ever again and again allowed to be.
\* Nobody has to write, flush or restart.
MainGoesOn == Main /\ pc["main"] # "idle"
Fairness == /\ WF_vars(MainGoesOn)
            /\ SF_vars(TxComplete) /\ WF_vars(Schedule("isr"))
            /\ WF_vars(HostTakesPacket)

FairSpec == Spec /\ Fairness
-----------------------------------------------------------------------------

(***************************************************************************)
(* Properties.                                                             *)
(***************************************************************************)

\* The write index as it stands once the update in progress has wrapped it.
SettledWrite == WrapIndex(ulWriteIndex)

InRing == Used(ulReadIndex, SettledWrite)

At(i) == pucBuf[WrapIndex(ulReadIndex + i)]

\* What no upset can change.
Kinds ==
  /\ eCDCTxState \in {"IDLE", "WAIT_DATA"}
  /\ bConnected \in BOOLEAN /\ configured \in BOOLEAN
  /\ txPktRdy \in BOOLEAN /\ txIrq \in BOOLEAN
  /\ upsets \in Nat
  /\ pc["main"] \in {"idle", "store", "add", "wrap", "avail", "contig",
                     "total", "put", "mark", "send"}
  /\ pc["isr"] \in {"idle", "avail", "contig", "total", "put", "mark", "send"}

\* The write index rests on Size only between the two halves of its update.
Ranges ==
  /\ pucBuf \in [Index -> 0 .. MaxBytes - 1 \cup {NoByte}]
  /\ ulReadIndex \in Index
  /\ ulWriteIndex \in Index \/ (ulWriteIndex = Size /\ pc["main"] = "wrap")
  /\ usLastTxSize \in 0 .. Packet
  /\ Len(fifo) <= Packet
  /\ {todo, delta} \subseteq 0 .. Size - 1
  /\ {written, head, hostNext} \subseteq 0 .. MaxBytes

\* Every variable has its type, and stays in its range until the first upset.
TypeOK == Kinds /\ (upsets = 0 => Ranges)

\* Until the first upset a packet on its way, loaded or taken but not yet
\* reported, keeps the state machine busy, so that no second packet is loaded
\* on top of it; and the machine is busy only then, or while the packet is
\* being armed.
Arming == \E c \in Contexts : pc[c] = "send"
BusyWhileOnItsWay ==
  upsets = 0 => (eCDCTxState = "WAIT_DATA" <=> (txPktRdy \/ txIrq \/ Arming))

\* With resets and new configurations at any time: a configured device is
\* never left waiting for a packet that is no longer there.
NeverBusyForNothing ==
  eCDCTxState = "WAIT_DATA" /\ configured => txPktRdy \/ txIrq \/ Arming

\* When everybody has come to rest without an upset the ring is empty: between
\* a client that finds the endpoint busy and a handler that finds the ring
\* empty, neither leaves a byte to be sent by nobody.
AtRest == /\ \A c \in Contexts : pc[c] = "idle"
          /\ ~txPktRdy /\ ~txIrq
NoByteLeftBehind == AtRest /\ upsets = 0 => InRing = 0

\* Until the first upset TX_COMPLETE reports the number of bytes of the packet
\* the host has taken, and removes from the ring only bytes the host has taken.
CompleteReportsSent ==
  [][TxComplete /\ upsets = 0 => /\ usLastTxSize = Len(hostGot)
                                 /\ head' <= hostNext]_vars

\* Until the first upset the client, the ring, the packets and the host together
\* are a first-in first-out queue from which the host takes every byte once.
\* The bytes of a packet the host has taken are still in the ring until its
\* interrupt.
Taken == IF txIrq THEN Len(hostGot) ELSE 0
Queue == INSTANCE ByteQueue WITH
  Capacity <- Size - 1,
  Lossy <- FALSE,
  queue <- [i \in 1 .. InRing - Taken |-> At(Taken + i - 1)],
  put <- written,
  got <- hostGot

QueueSpec == Queue!Init /\ [][upsets' = 0 => Queue!Next]_(Queue!vars)

\* Every byte the client has written reaches the host, if nothing upsets it.
AllDelivered == []<>(hostNext = written \/ upsets > 0)
=============================================================================
