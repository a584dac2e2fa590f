----------------------------- MODULE UsbMscDevice -----------------------------
(***************************************************************************)
(* The mass storage device (usblib/device/usbdmsc.c, built with DMA_MODE):   *)
(* the SCSI state machine between the interrupts of the bulk endpoints, the *)
(* DMA queues, the endpoint itself and a medium that may be taken out.       *)
(*                                                                         *)
(* HandleEndpoints runs in the USB interrupt, so one call of it is one step: *)
(* its part for the IN endpoint and, on the state that leaves, its part for  *)
(* the OUT endpoint.  Both are functions of dev.  A block is one packet and  *)
(* one unit of the buffer pool (512 bytes); the pool is CppiDmaBuffers, of   *)
(* which only the number of units in use is kept here: one run at most is on  *)
(* its way, so every run is given the first free units, those lost lie before *)
(* it and the free ones behind it, and an allocation fails only for want of   *)
(* units.                                                                   *)
(*                                                                         *)
(* An item of data is <<"block", its address>>, <<"info", 0>> (the answer to *)
(* an inquiry and the like), <<"sense", key>>, or <<"junk", 0>> where the    *)
(* code sends a buffer that nobody has filled, or no buffer at all.           *)
(***************************************************************************)
EXTENDS Integers, Sequences

CONSTANTS
  Chunk,        \* DMA_TX_MAX_CHUNK_SIZE / MAX_TRANSFER_SIZE
  Commands,     \* what the host may ask: [kind, lba, n]
  Room,         \* CPDMA_NUMOF_BUFFERS - NUM_OF_RX_BDs: units not for reception
  StalledOut,   \* the host also asks what stalls the OUT endpoint
  MediaStable   \* the medium goes only where the code notices: see Eject

\* Commands without a data stage, and those that need a medium.
NoData == {"ready", "verify", "bad"}
NeedsMedium == {"capacity", "read", "write"}
Kinds == NoData \cup NeedsMedium \cup {"inquiry", "sense", "badIn", "badOut"}

ASSUME MscAssumption ==
  /\ Chunk \in Nat \ {0} /\ Room \in Nat
  /\ StalledOut \in BOOLEAN /\ MediaStable \in BOOLEAN
  /\ \A c \in Commands :
       c.kind \in Kinds /\ c.lba \in Nat
         /\ c.n \in (IF c.kind \in NoData THEN {0} ELSE Nat \ {0})

VARIABLES
  dev,    \* tMSCInstance, g_sSCSICSW, the endpoints, the DMA queues
  host,   \* the host's side of the command
  disk    \* the medium: is it in, and what this command wrote to it

vars == <<dev, host, disk>>

None == [kind |-> "none"]
NotReady == "NOT_READY"
Illegal == "ILGL_RQST"

\* USBDMSCCompositeInit, then the host's SET_CONFIGURATION.
Init ==
  \E in \in BOOLEAN :
    /\ disk = [inserted |-> in, written |-> << >>]
    /\ dev = [ucSCSIState |-> "IDLE", ulBytesToTransfer |-> 0,  \* in blocks
              ulCurrentLBA |-> 0, pvMedia |-> in,
              ucSenseKey |-> IF in THEN "UNIT_ATTN" ELSE NotReady,
              csw |-> [tag |-> 0, status |-> 0],
              coreTx |-> FALSE, coreRx |-> FALSE,  \* DMA of the endpoint
              chunk |-> << >>, run |-> 0,  \* queued data, and its units
              inPacket |-> << >>, inStall |-> FALSE, irqIn |-> FALSE,
              fifo |-> << >>, rxq |-> << >>,
              outStall |-> FALSE, irqOut |-> FALSE,
              inUse |-> 0, lost |-> 0,     \* units of the pool,
              units |-> 0,                 \* those of the run
              alloc |-> "ok"]              \* or "failed": NULL was returned,
                                           \* or "halted": the program died of it
    /\ host = [phase |-> "idle", cmd |-> None, tag |-> 0, got |-> << >>,
               sent |-> 0, csw |-> << >>,
               why |-> IF in THEN "UNIT_ATTN" ELSE NotReady]

Least(a, b) == IF a < b THEN a ELSE b

-----------------------------------------------------------------------------
(* The device: answers.                                                    *)

Junk(n) == [i \in 1..n |-> <<"junk", 0>>]

\* cppiDmaAllocnBuffer finds n units.
Fits(d, n) == n <= Room - d.inUse

\* cppiDmaAllocnBuffer, doDmaTxTransfer and enableCoreTxDMA of n units.  Only
\* SEND_BLOCKS looks for NULL; the commands write a response to address 0, and
\* the DMA sends what is there, if the program survives it (HandleEndpoints).
Queue(d, items) ==
  LET n == Len(items)
      q == [d EXCEPT !.run = n, !.coreTx = TRUE]
  IN  IF Fits(d, n)
        THEN [q EXCEPT !.chunk = items, !.units = n, !.inUse = @ + n]
        ELSE [q EXCEPT !.chunk = Junk(n), !.alloc = "failed"]

\* Mutant: the state in which the status is sent is not entered.
Answer_NoStatus(d, item) == [Queue(d, <<item>>) EXCEPT !.csw.status = 0]

\* A response of one packet; its status follows.
Answer(d, item) ==
  [Queue(d, <<item>>) EXCEPT !.csw.status = 0, !.ucSCSIState = "SEND_STATUS"]

\* No answer: the IN endpoint stalls and the status follows.
FailIn(d, key) ==
  [d EXCEPT !.csw.status = 1, !.inStall = TRUE, !.ucSenseKey = key,
            !.ucSCSIState = "SEND_STATUS"]

FailOut(d, key) ==
  [d EXCEPT !.csw.status = 1, !.outStall = TRUE, !.ucSenseKey = key,
            !.ucSCSIState = "SEND_STATUS"]

\* USBDSCSISendStatus, with the DMA turned off as all its callers do.
\* USBEndpointDataPut does nothing while a packet is armed;
\* USBEndpointDataSend stores the register as a whole, the stall in it too.
SendStatus(d) ==
  [d EXCEPT !.coreTx = FALSE, !.coreRx = FALSE,
            !.inPacket = IF @ = << >> THEN <<d.csw>> ELSE @,
            !.inStall = FALSE, !.ucSCSIState = "SENT_STATUS"]

\* What BlockRead puts into a buffer.
BlockRead(lba, n) ==
  [i \in 1..n |-> IF disk.inserted THEN <<"block", lba + i - 1>>
                  ELSE <<"junk", 0>>]

\* USBDSCSIRead10.  A first read that fails closes the medium; the buffer
\* just allocated for it is not freed.  Without a buffer nothing is read.
Read10(d, c) ==
  LET n == Least(c.n, Chunk)
  IN  IF ~d.pvMedia THEN FailIn(d, NotReady)
      ELSE IF Fits(d, n) /\ ~disk.inserted
        THEN [FailIn(d, NotReady) EXCEPT
                !.pvMedia = FALSE, !.ulCurrentLBA = c.lba,
                !.inUse = @ + n, !.lost = @ + n]
      ELSE [Queue(d, BlockRead(c.lba, n)) EXCEPT
              !.ulCurrentLBA = c.lba, !.ulBytesToTransfer = c.n,
              !.ucSCSIState = "SEND_BLOCKS"]

\* USBDSCSIWrite10.
Write10(d, c) ==
  IF d.pvMedia
    THEN [d EXCEPT !.ulCurrentLBA = c.lba, !.ulBytesToTransfer = c.n,
                   !.coreRx = TRUE, !.ucSCSIState = "RECEIVE_BLOCKS"]
    ELSE FailOut(d, NotReady)

\* TEST UNIT READY opens a medium that is closed, and sets no sense.
TestUnitReady(d) ==
  LET open == d.pvMedia \/ disk.inserted
  IN  [d EXCEPT !.pvMedia = open, !.csw.status = IF open THEN 0 ELSE 1]

\* The switch of USBDSCSICommand.
Command(d, c) ==
  CASE c.kind = "inquiry"  -> Answer(d, <<"info", 0>>)
    [] c.kind = "ready"    -> TestUnitReady(d)
    [] c.kind = "capacity" -> IF d.pvMedia THEN Answer(d, <<"info", 0>>)
                              ELSE FailIn(d, NotReady)
    [] c.kind = "sense"    -> Answer(d, <<"sense", d.ucSenseKey>>)
    [] c.kind = "read"     -> Read10(d, c)
    [] c.kind = "write"    -> Write10(d, c)
    [] c.kind = "verify"   -> d
    [] c.kind = "badIn"    -> FailIn(d, Illegal)
    [] c.kind = "badOut"   -> FailOut(d, Illegal)
    [] c.kind = "bad"      -> [d EXCEPT !.csw.status = 1, !.ucSenseKey = Illegal]

-----------------------------------------------------------------------------
(* The device: HandleEndpoints.                                             *)

\* The queued chunk has left the endpoint; dmaTxCompletion waits for that.
TxPending(d) == d.run > 0 /\ d.chunk = << >>

\* Mutant: the units are not given back.
TxCompletion_Kept(d) == [d EXCEPT !.run = 0, !.units = 0]

TxCompletion(d) == [d EXCEPT !.run = 0, !.units = 0, !.inUse = @ - d.units]

\* Mutant: the next chunk is read from where the last one was.
SendBlocks_Same(d, done) ==
  LET left == IF d.ulBytesToTransfer > Chunk THEN d.ulBytesToTransfer - Chunk
              ELSE 0
  IN  IF left = 0
        THEN SendStatus([d EXCEPT !.ulBytesToTransfer = 0, !.csw.status = 0])
        ELSE [Queue(d, BlockRead(d.ulCurrentLBA, Least(left, Chunk)))
                EXCEPT !.ulBytesToTransfer = left]

\* STATE_SCSI_SEND_BLOCKS.  What BlockRead returns is not looked at.  Without a
\* buffer nothing is queued, and so nothing will be reported.
SendBlocks(d, done) ==
  LET left == IF ~done THEN d.ulBytesToTransfer
              ELSE IF d.ulBytesToTransfer > Chunk
                THEN d.ulBytesToTransfer - Chunk ELSE 0
      next == d.ulCurrentLBA + Chunk
      n    == Least(left, Chunk)
      e    == [d EXCEPT !.ulBytesToTransfer = left, !.ulCurrentLBA = next]
  IN  IF left = 0
        THEN SendStatus([d EXCEPT !.ulBytesToTransfer = 0, !.csw.status = 0])
      ELSE IF ~done THEN d
      ELSE IF Fits(d, n) THEN Queue(e, BlockRead(next, n))
      ELSE [e EXCEPT !.alloc = "failed"]

InPart(d) ==
  LET done == TxPending(d)
      e    == IF done THEN TxCompletion(d) ELSE d
  IN  IF ~(d.irqIn \/ done) THEN d
      ELSE CASE d.ucSCSIState = "SEND_BLOCKS" -> SendBlocks(e, done)
             [] d.ucSCSIState = "SEND_STATUS" -> SendStatus(e)
             [] d.ucSCSIState = "SENT_STATUS" ->
                  [e EXCEPT !.coreTx = FALSE, !.coreRx = FALSE,
                            !.ucSCSIState = "IDLE"]
             [] OTHER -> e

OutPending(d) == d.irqOut \/ d.rxq # << >>

\* STATE_SCSI_RECEIVE_BLOCKS: all that the DMA has received is written.
ReceiveBlocks(d) ==
  LET n == Len(d.rxq)
      e == [d EXCEPT !.rxq = << >>, !.ulBytesToTransfer = @ - n,
                     !.ulCurrentLBA = @ + n]
  IN  IF e.ulBytesToTransfer = 0
        THEN SendStatus([e EXCEPT !.csw.status = 0]) ELSE e

\* What it writes; what BlockWrite returns is not looked at.
BlockWrites(d) ==
  IF disk.inserted
    THEN [i \in 1..Len(d.rxq) |-> <<d.ulCurrentLBA + i - 1, d.rxq[i]>>]
    ELSE << >>

\* STATE_SCSI_IDLE: the DMA brings the packet in, be it in the endpoint yet;
\* one that is not a command is dropped.
Received(d) == d.rxq \o d.fifo

TakeCommand(d) ==
  LET p == Head(Received(d))
      e == [d EXCEPT !.coreRx = TRUE, !.rxq = Tail(Received(d)),
                     !.fifo = << >>]
      f == [e EXCEPT !.csw = [tag |-> p.tag, status |-> 0]]
  IN  IF p.kind = "data" THEN e
      ELSE IF p.cmd.n = 0 THEN SendStatus(Command(f, p.cmd))
      ELSE Command(f, p.cmd)

OutPart(d) ==
  IF ~OutPending(d) THEN d
  ELSE CASE d.ucSCSIState = "RECEIVE_BLOCKS" -> ReceiveBlocks(d)
         [] d.ucSCSIState = "IDLE" -> TakeCommand(d)
         [] OTHER -> d

\* The first use of address 0 may be a data abort, from which nothing returns
\* (DataAbortHandler): usb_dev_msc maps nothing there.
Outcomes(d) ==
  IF d.alloc = "failed" /\ dev.alloc = "ok" THEN {"failed", "halted"} ELSE {d.alloc}

\* In STATE_SCSI_IDLE it waits in the interrupt for a packet to come.
HandleEndpoints ==
  /\ dev.alloc # "halted"
  /\ dev.irqIn \/ TxPending(dev) \/ OutPending(dev)
  /\ \E d \in {InPart(dev)} :
       /\ OutPending(d) /\ d.ucSCSIState = "IDLE" => Received(d) # << >>
       /\ \E outcome \in Outcomes(OutPart(d)) :
            dev' = [OutPart(d) EXCEPT !.irqIn = FALSE, !.irqOut = FALSE,
                                      !.alloc = outcome]
       /\ disk' = IF OutPending(d) /\ d.ucSCSIState = "RECEIVE_BLOCKS"
                    THEN [disk EXCEPT !.written = @ \o BlockWrites(d)]
                    ELSE disk
  /\ UNCHANGED host

\* HandleDisconnect, while nothing is queued for transmission and no packet
\* waits to be looked at.
HandleDisconnect ==
  /\ host.phase # "away" /\ dev.alloc # "halted"
  /\ dev.run = 0 /\ dev.fifo = << >> /\ ~OutPending(dev)
  /\ dev' = [dev EXCEPT !.csw = [tag |-> 0, status |-> 0],
                        !.ucSCSIState = "IDLE", !.ulBytesToTransfer = 0,
                        !.ulCurrentLBA = 0, !.pvMedia = FALSE,
                        !.inPacket = << >>, !.inStall = FALSE,
                        !.outStall = FALSE]
  /\ host' = [host EXCEPT !.phase = "away"]
  /\ UNCHANGED disk

\* The host is back and configures the device; it does not know how the last
\* command ended.
ConfigChangeHandler ==
  /\ host.phase = "away" /\ dev.alloc # "halted"
  /\ dev' = [dev EXCEPT !.coreTx = FALSE, !.coreRx = FALSE]
  /\ host' = [host EXCEPT !.phase = "idle", !.csw = << >>, !.cmd = None,
                          !.why = "unknown"]
  /\ UNCHANGED disk

-----------------------------------------------------------------------------
(* The host, the endpoint and the medium.                                   *)

\* A packet that finds the DMA off is reported by an interrupt.
Arrive(d, p) == [d EXCEPT !.fifo = <<p>>, !.irqOut = ~d.coreRx]

\* What the code ignores is kept out of the runs: a WRITE(10) whose medium
\* is gone without having been closed, and commands that stall the OUT
\* endpoint.
Asks(c) ==
  /\ ~StalledOut => c.kind # "badOut" /\ (c.kind = "write" => dev.pvMedia)
  /\ MediaStable /\ c.kind = "write" /\ dev.pvMedia => disk.inserted

SendCommand ==
  /\ host.phase = "idle" /\ dev.fifo = << >>
  /\ \E c \in Commands :
       /\ Asks(c)
       /\ host' = [phase |-> IF c.n = 0 THEN "csw" ELSE "data", cmd |-> c,
                   tag |-> 1 - host.tag, got |-> << >>, sent |-> 0,
                   csw |-> << >>, why |-> host.why]
       /\ dev' = Arrive(dev, [kind |-> "command", cmd |-> c,
                              tag |-> 1 - host.tag])
       /\ disk' = [disk EXCEPT !.written = << >>]

TakeData ==
  /\ host.phase = "data" /\ dev.coreTx /\ dev.chunk # << >>
  /\ dev' = [dev EXCEPT !.chunk = Tail(@)]
  /\ host' = [host EXCEPT
                !.got = Append(@, Head(dev.chunk)),
                !.phase = IF Len(host.got) + 1 = host.cmd.n
                            THEN "csw" ELSE "data"]
  /\ UNCHANGED disk

\* The command may still lie in the endpoint, which then takes nothing.
SendData ==
  /\ host.phase = "data" /\ host.cmd.kind \in {"write", "badOut"}
  /\ dev.fifo = << >> /\ ~dev.outStall
  /\ dev' = Arrive(dev, [kind |-> "data", block |-> host.sent])
  /\ host' = [host EXCEPT !.sent = @ + 1,
                          !.phase = IF host.sent + 1 = host.cmd.n
                                      THEN "csw" ELSE "data"]
  /\ UNCHANGED disk

\* The data stage is refused; the host clears the halt and asks for the
\* status.
SeeStall ==
  /\ host.phase = "data"
  /\ \/ /\ dev.inStall
        /\ dev' = [dev EXCEPT !.inStall = FALSE, !.irqIn = TRUE]
     \/ /\ dev.outStall
        /\ dev' = [dev EXCEPT !.outStall = FALSE, !.irqOut = TRUE]
  /\ host' = [host EXCEPT !.phase = "csw"]
  /\ UNCHANGED disk

\* Why a command failed; TEST UNIT READY leaves no reason.
Reason(c) == IF c.kind = "ready" THEN host.why
             ELSE IF c.kind \in NeedsMedium THEN NotReady ELSE Illegal

TakeStatus ==
  /\ host.phase = "csw" /\ dev.inPacket # << >>
  /\ dev' = [dev EXCEPT !.inPacket = << >>, !.irqIn = TRUE]
  /\ host' = [host EXCEPT
                !.phase = "idle", !.csw = dev.inPacket,
                !.why = IF dev.inPacket[1].status = 1 THEN Reason(host.cmd)
                        ELSE @]
  /\ UNCHANGED disk

HostGoesOn == TakeData \/ SendData \/ SeeStall \/ TakeStatus

\* The DMA takes a packet out of the endpoint.
DmaReceive ==
  /\ dev.coreRx /\ dev.fifo # << >>
  /\ dev' = [dev EXCEPT !.fifo = << >>, !.rxq = @ \o dev.fifo]
  /\ UNCHANGED <<host, disk>>

\* A BlockWrite that fails, and a BlockRead after the first one, go
\* unnoticed; with MediaStable the medium is not taken out then.
Eject ==
  /\ disk.inserted
  /\ MediaStable /\ dev.alloc # "halted" =>
       /\ dev.ucSCSIState \notin {"SEND_BLOCKS", "RECEIVE_BLOCKS"}
       /\ host.phase \in {"data", "csw"} => host.cmd.kind # "write"
  /\ disk' = [disk EXCEPT !.inserted = FALSE]
  /\ UNCHANGED <<dev, host>>

Insert ==
  /\ ~disk.inserted
  /\ disk' = [disk EXCEPT !.inserted = TRUE]
  /\ UNCHANGED <<dev, host>>

Next ==
  \/ HandleEndpoints \/ HandleDisconnect \/ ConfigChangeHandler
  \/ SendCommand \/ TakeData \/ SendData \/ SeeStall \/ TakeStatus
  \/ DmaReceive \/ Eject \/ Insert

\* Interrupts are taken, the DMA goes on, and so does a host in a command.
Spec == /\ Init /\ [][Next]_vars
        /\ WF_vars(HandleEndpoints) /\ WF_vars(DmaReceive)
        /\ WF_vars(HostGoesOn)
-----------------------------------------------------------------------------

(***************************************************************************)
(* Properties.                                                             *)
(***************************************************************************)

\* What the host asked for, as it is to come; any sense when it does not know.
Wanted(c) ==
  CASE c.kind \in {"inquiry", "capacity"} -> << <<"info", 0>> >>
    [] c.kind = "sense" -> IF host.why = "unknown" THEN host.got
                           ELSE << <<"sense", host.why>> >>
    [] c.kind = "read"  -> [i \in 1..c.n |-> <<"block", c.lba + i - 1>>]
    [] OTHER -> << >>

\* What a WRITE(10) is to put on the medium.
ToWrite(c) ==
  IF c.kind = "write"
    THEN [i \in 1..c.n |->
            <<c.lba + i - 1, [kind |-> "data", block |-> i - 1]>>]
    ELSE << >>

\* The status a host receives is that of the command it sent last, success
\* only if every block has come (or has been written) in order and none
\* twice, failure only if none has; REQUEST SENSE tells why the last command
\* failed (HandleEndpoints, USBDSCSICommand).  Only once an allocation has
\* failed, which PoolAccounted delays, may what is sent be junk.
StatusTells ==
  dev.alloc = "ok" /\ host.phase = "idle" /\ host.csw # << >> =>
    LET s == host.csw[1]
    IN  /\ s.tag = host.tag
        /\ s.status = 0 => /\ host.got = Wanted(host.cmd)
                           /\ disk.written = ToWrite(host.cmd)
        /\ s.status = 1 => host.got = << >> /\ disk.written = << >>

\* The units of the pool in use are those of the one chunk on its way, and
\* those that failing reads have lost; they are never more than there are.  An
\* allocation fails, and what nobody prepared for happens, only when those
\* lost leave no room for a chunk (cppiDmaAllocnBuffer, dmaTxCompletion).
PoolAccounted ==
  /\ dev.inUse = dev.units + dev.lost /\ dev.inUse <= Room
  /\ dev.units <= dev.run /\ dev.run <= Chunk /\ Len(dev.chunk) <= dev.run
  /\ dev.alloc # "ok" => dev.lost + Chunk > Room

\* Every command ends with a status, unless the cable is pulled or an
\* allocation has failed: then the program may have halted, or wait in
\* SEND_BLOCKS for a completion of what was never queued.
CommandsEnd ==
  host.phase \in {"data", "csw"} ~>
    host.phase \in {"idle", "away"} \/ dev.alloc # "ok"
=============================================================================
