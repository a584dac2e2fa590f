------------------------------- MODULE UsbCdcRx -------------------------------
(***************************************************************************)
(* The receive path of the serial device and the control requests that have *)
(* to wait for it (usblib/device/usbdcdc.c, usblib/usbbuffer.c).  A change   *)
(* the host asks for -- a break, new line coding, new DTR/RTS -- must reach   *)
(* the client between the bytes the host sent before and after it.  If the   *)
(* client still has data, the driver puts the change off, blocks reception,  *)
(* and tries again from the tick of the start-of-frame interrupt.            *)
(*                                                                         *)
(* Every handler here runs in the USB or the UART interrupt, at one priority *)
(* (usb_dev_serial), so each is one action: a function of dev, the state of  *)
(* the device.  The host, the endpoint and the UART move between them.  Of   *)
(* the bytes only the number is kept: UsbRingRx shows the ring keeps their    *)
(* order.                                                                   *)
(***************************************************************************)
EXTENDS UsbRingBuf

CONSTANTS
  Packet,       \* DATA_OUT_EP_MAX_SIZE
  UartRoom,     \* bytes the UART takes before it reports no space
  Durations,    \* wValue of a break request, in ticks; 0 ends a break
  MaxBytes,     \* bound on the bytes the host sends
  MaxRequests,  \* bound on the control requests
  MaxRestarts   \* bound on resets, disconnections and configurations

ASSUME RxAssumption ==
  /\ Packet \in Nat \ {0} /\ UartRoom \in Nat \ {0}
  /\ Durations \subseteq Nat
  /\ MaxBytes \in Nat /\ MaxRequests \in Nat /\ MaxRestarts \in Nat

RX_BLOCK_OPS == {"SEND_BREAK", "LINE_CODING_CHANGE", "LINE_STATE_CHANGE"}
DeferredOps == RX_BLOCK_OPS \cup {"CLEAR_BREAK", "PACKET_RX"}

VARIABLES
  dev,       \* the ring, tCDCSerInstance, the OUT endpoint and the client
  rxIrq,     \* the OUT endpoint's interrupt is due
  ep0,       \* what is on endpoint zero: see Requests
  configured,
  sent,      \* bytes the host has sent
  lost,      \* bytes dropped by a reset or by the client's flush
  asked,     \* per kind of request: bytes sent before the last one
  breakAsked,\* duration of the last break request
  requests, restarts

hostVars == <<sent, asked, breakAsked, requests>>
busVars == <<configured, lost, restarts>>
vars == <<dev, rxIrq, ep0, hostVars, busVars>>

\* Endpoint zero: nothing, a request that has arrived, or a SET_LINE_CODING
\* that waits for its data.  Endpoint zero reports the length it was told to
\* expect, so the length HandleEP0Data checks is always right.
Requests == {"SEND_BREAK", "LINE_STATE_CHANGE", "SET_LINE_CODING",
             "SET_CONFIGURATION", "CODING"}
Ep0States == Requests \cup {"none", "expect_coding"}

Init ==
  /\ dev = [ulReadIndex |-> 0, ulWriteIndex |-> 0,
            deferred |-> {},           \* usDeferredOpFlags
            bRxBlocked |-> FALSE, usBreakDuration |-> 0,
            eCDCRequestState |-> "IDLE", bConnected |-> TRUE,
            usControlLineState |-> 0, sLineCoding |-> 0,
            fifo |-> 0, rxPktRdy |-> FALSE,      \* the OUT endpoint
            uart |-> 0, txInt |-> FALSE,         \* the client's UART
            g_bSendingBreak |-> FALSE,
            lineState |-> 0, lineCoding |-> 0,   \* last told the client
            taken |-> 0]                         \* bytes given to the UART
  /\ rxIrq = FALSE /\ ep0 = "none" /\ configured = TRUE
  /\ sent = 0 /\ lost = 0 /\ breakAsked = 0
  /\ asked = [op \in RX_BLOCK_OPS |-> 0]
  /\ requests = 0 /\ restarts = 0

InRing(d) == Used(d.ulReadIndex, d.ulWriteIndex)

-----------------------------------------------------------------------------
(* Reception, as functions of the device's state.                          *)

\* USBUARTPrimeTransmit: no more than the UART has room for, and nothing
\* while a break is being sent.
USBUARTPrimeTransmit(d) ==
  LET n == IF d.g_bSendingBreak THEN 0 ELSE AtMost(UartRoom - d.uart, InRing(d))
  IN  [d EXCEPT !.ulReadIndex = WrapIndex(d.ulReadIndex + n),
                !.uart = d.uart + n, !.taken = d.taken + n]

\* The client's RxHandler, USB_EVENT_RX_AVAILABLE.
RxHandler(d) == [USBUARTPrimeTransmit(d) EXCEPT !.txInt = TRUE]

USBDCDCRxPacketAvailable(d) ==
  IF d.rxPktRdy /\ ~d.bRxBlocked THEN d.fifo ELSE 0

\* Mutant of USBDCDCPacketRead: the packet is acknowledged though part of it
\* has not been read.
USBDCDCPacketRead_AckAlways(d, length) ==
  [d EXCEPT !.fifo = 0, !.rxPktRdy = FALSE, !.deferred = @ \ {"PACKET_RX"}]

\* USBDCDCPacketRead: only the read of the last byte frees the endpoint.
USBDCDCPacketRead(d, length) ==
  LET n == AtMost(length, d.fifo)
  IN  CASE ~d.rxPktRdy -> d
        [] d.rxPktRdy /\ d.bRxBlocked ->
             [d EXCEPT !.deferred = @ \cup {"PACKET_RX"}]
        [] d.rxPktRdy /\ ~d.bRxBlocked /\ n = d.fifo ->
             [d EXCEPT !.fifo = 0, !.rxPktRdy = FALSE,
                       !.deferred = @ \ {"PACKET_RX"}]
        [] OTHER -> [d EXCEPT !.fifo = d.fifo - n]

\* Mutant of ReadPart: the write index is not advanced.
ReadPart_NotAdvanced(d) ==
  USBDCDCPacketRead(d, ContigFree(d.ulReadIndex, d.ulWriteIndex))

\* One call of pfnTransfer into the contiguous free space, and the advance of
\* the write index.
ReadPart(d) ==
  LET after == USBDCDCPacketRead(d, ContigFree(d.ulReadIndex, d.ulWriteIndex))
      index == AdvanceWrite(d.ulReadIndex, d.ulWriteIndex, d.fifo - after.fifo)
  IN  [after EXCEPT !.ulWriteIndex = index.write, !.ulReadIndex = index.read]

\* HandleRxAvailable of the buffer, as an action: a second part if the first
\* ran into the end of the workspace, then the client, whose callback returns
\* 0.  (\E x \in {e} names the state between two calls.)
HandleRxAvailable(d) ==
  \E first \in {ReadPart(d)} :
    \E second \in {IF d.fifo - first.fifo < USBDCDCRxPacketAvailable(d)
                     THEN ReadPart(first) ELSE first} :
      dev' = RxHandler(second)

-----------------------------------------------------------------------------
(* Deferred operations, as functions of the device's state.                *)

\* Mutant: a packet in the endpoint counts as data the client has to consume,
\* though it cannot be read while reception is blocked.
DeviceConsumedAllData_Endpoint(d) == InRing(d) = 0 /\ ~d.rxPktRdy

\* HandleDataRemaining: what the ring holds and what the client says it holds,
\* which for usb_dev_serial is always 0.
DeviceConsumedAllData(d) == InRing(d) = 0

Defer(d, op) == [d EXCEPT !.deferred = @ \cup {op}]

\* SendBreak; its callback sets the break on the client's line.
SendBreak(d, bSend) ==
  [d EXCEPT !.deferred = (@ \ {"SEND_BREAK", "CLEAR_BREAK"})
                           \cup (IF bSend THEN {"CLEAR_BREAK"} ELSE {}),
            !.g_bSendingBreak = bSend]

SendLineStateChange(d) ==
  [d EXCEPT !.deferred = @ \ {"LINE_STATE_CHANGE"},
            !.lineState = d.usControlLineState]

\* Mutant: it withdraws the other change with its own.
SendLineCodingChange_BothFlags(d) ==
  [d EXCEPT !.deferred = @ \ {"LINE_CODING_CHANGE", "LINE_STATE_CHANGE"},
            !.lineCoding = d.sLineCoding]

SendLineCodingChange(d) ==
  [d EXCEPT !.deferred = @ \ {"LINE_CODING_CHANGE"},
            !.lineCoding = d.sLineCoding]

\* Mutant of OrBlock: reception goes on.
OrBlock_NotBlocked(d, told) == IF DeviceConsumedAllData(d) THEN told ELSE d

\* A request handler's end, with CheckAndSend...: told, if the client has no
\* data left, or else d with reception blocked.
OrBlock(d, told) ==
  IF DeviceConsumedAllData(d) THEN told ELSE [d EXCEPT !.bRxBlocked = TRUE]

When(op, d, told) == IF op \in d.deferred THEN told ELSE d

\* The first part of CDCTickHandler: the break timer.
BreakTimer(d) ==
  When("CLEAR_BREAK", d,
       IF d.usBreakDuration <= 1
         THEN SendBreak(d, FALSE)
         ELSE [d EXCEPT !.usBreakDuration = @ - 1])

\* Its second part: once the data is consumed, every change that waited for
\* it is sent, and reception is unblocked.
RetryDeferred(d) ==
  IF ~DeviceConsumedAllData(d) THEN d
  ELSE LET b == When("SEND_BREAK", d, SendBreak(d, TRUE))
           s == When("LINE_STATE_CHANGE", b, SendLineStateChange(b))
           c == When("LINE_CODING_CHANGE", s, SendLineCodingChange(s))
       IN  [c EXCEPT !.bRxBlocked = @ /\ c.deferred \cap RX_BLOCK_OPS # {}]

\* Its third part, an action: a packet still in the endpoint is offered again.
RetryReceive(d) ==
  IF ~d.bRxBlocked /\ "PACKET_RX" \in d.deferred
    THEN HandleRxAvailable(d) ELSE dev' = d

-----------------------------------------------------------------------------
(* The USB interrupt.  One interrupt handles the tick, then endpoint zero,   *)
(* then the data endpoints, so a packet is not handled before a request      *)
(* that arrived with it or before it.                                       *)

\* Mutant: the tick never offers the packet again.
CDCTickHandler_NoRetryReceive ==
  /\ dev' = IF dev.deferred = {} THEN dev ELSE RetryDeferred(BreakTimer(dev))
  /\ UNCHANGED <<rxIrq, ep0, hostVars, busVars>>

CDCTickHandler ==
  /\ IF dev.deferred = {} THEN UNCHANGED dev
     ELSE \E timed \in {BreakTimer(dev)} :
            \E retried \in {RetryDeferred(timed)} : RetryReceive(retried)
  /\ UNCHANGED <<rxIrq, ep0, hostVars, busVars>>

\* Mutant of ProcessDataFromHost: a blocked packet is not remembered.
ProcessDataFromHost_NotFlagged ==
  /\ rxIrq /\ ep0 \notin Requests
  /\ rxIrq' = FALSE
  /\ IF dev.rxPktRdy /\ ~dev.bRxBlocked
       THEN HandleRxAvailable(Defer(dev, "PACKET_RX")) ELSE UNCHANGED dev
  /\ UNCHANGED <<ep0, hostVars, busVars>>

ProcessDataFromHost ==
  /\ rxIrq /\ ep0 \notin Requests
  /\ rxIrq' = FALSE
  /\ IF ~dev.rxPktRdy THEN UNCHANGED dev
     ELSE \E d \in {Defer(dev, "PACKET_RX")} :
            IF d.bRxBlocked THEN dev' = d ELSE HandleRxAvailable(d)
  /\ UNCHANGED <<ep0, hostVars, busVars>>

\* HandleRequests.  The data of a request is its number.
HandleSetControlLineState ==
  /\ ep0 = "LINE_STATE_CHANGE"
  /\ LET d == Defer([dev EXCEPT !.usControlLineState = requests],
                    "LINE_STATE_CHANGE")
     IN  dev' = OrBlock(d, SendLineStateChange(d))
  /\ ep0' = "none"
  /\ UNCHANGED <<rxIrq, hostVars, busVars>>

HandleSendBreak ==
  /\ ep0 = "SEND_BREAK"
  /\ LET d == Defer([dev EXCEPT !.usBreakDuration = breakAsked], "SEND_BREAK")
     IN  dev' = OrBlock(d, SendBreak(d, breakAsked # 0))
  /\ ep0' = "none"
  /\ UNCHANGED <<rxIrq, hostVars, busVars>>

HandleSetLineCoding ==
  /\ ep0 = "SET_LINE_CODING"
  /\ dev' = [dev EXCEPT !.eCDCRequestState = "WAIT_DATA"]
  /\ ep0' = "expect_coding"
  /\ UNCHANGED <<rxIrq, hostVars, busVars>>

\* HandleEP0Data.  The data is already in sLineCoding, where endpoint zero was
\* told to put it.
HandleEP0Data ==
  /\ ep0 = "CODING"
  /\ LET d == [dev EXCEPT !.sLineCoding = requests]
         c == Defer([d EXCEPT !.eCDCRequestState = "IDLE"], "LINE_CODING_CHANGE")
     IN  dev' = IF dev.eCDCRequestState = "WAIT_DATA"
                  THEN OrBlock(c, SendLineCodingChange(c)) ELSE d
  /\ ep0' = "none"
  /\ UNCHANGED <<rxIrq, hostVars, busVars>>

\* HandleConfigChange; a client that is told of a connection flushes its
\* buffers.  The deferred operations and the block are left as they are.
HandleConfigChange ==
  /\ ep0 = "SET_CONFIGURATION"
  /\ dev' = [dev EXCEPT !.eCDCRequestState = "IDLE", !.bConnected = TRUE,
                        !.ulReadIndex = IF dev.bConnected THEN @
                                        ELSE dev.ulWriteIndex]
  /\ lost' = IF dev.bConnected THEN lost ELSE lost + InRing(dev)
  /\ ep0' = "none" /\ configured' = TRUE
  /\ UNCHANGED <<rxIrq, hostVars, restarts>>

HandleDisconnect ==
  /\ restarts < MaxRestarts
  /\ dev' = [dev EXCEPT !.bConnected = FALSE]
  /\ configured' = FALSE /\ ep0' = "none"
  /\ restarts' = restarts + 1
  /\ UNCHANGED <<rxIrq, hostVars, lost>>

-----------------------------------------------------------------------------
(* The client's UART.                                                      *)

\* USBUARTIntHandler, transmit: enabled by RxHandler, disabled once the ring
\* is empty.
UartInterrupt ==
  /\ dev.txInt /\ dev.uart < UartRoom
  /\ LET d == USBUARTPrimeTransmit(dev)
     IN  dev' = [d EXCEPT !.txInt = InRing(d) # 0]
  /\ UNCHANGED <<rxIrq, ep0, hostVars, busVars>>

UartSends ==
  /\ dev.uart > 0
  /\ dev' = [dev EXCEPT !.uart = @ - 1]
  /\ UNCHANGED <<rxIrq, ep0, hostVars, busVars>>

-----------------------------------------------------------------------------
(* The host and the bus.                                                   *)

HostSendsPacket ==
  /\ configured /\ ~dev.rxPktRdy
  /\ \E n \in 0 .. Packet :
       /\ sent + n <= MaxBytes
       /\ sent' = sent + n
       /\ dev' = [dev EXCEPT !.fifo = n, !.rxPktRdy = TRUE]
  /\ rxIrq' = TRUE
  /\ UNCHANGED <<ep0, asked, breakAsked, requests, busVars>>

HostRequests ==
  /\ configured /\ ep0 = "none" /\ requests < MaxRequests
  /\ requests' = requests + 1
  /\ \/ \E n \in Durations : ep0' = "SEND_BREAK" /\ breakAsked' = n
     \/ ep0' \in {"LINE_STATE_CHANGE", "SET_LINE_CODING"} /\ UNCHANGED breakAsked
  /\ asked' = IF ep0' \in RX_BLOCK_OPS THEN [asked EXCEPT ![ep0'] = sent] ELSE asked
  /\ UNCHANGED <<dev, rxIrq, sent, busVars>>

HostSendsCoding ==
  /\ configured /\ ep0 = "expect_coding"
  /\ ep0' = "CODING"
  /\ asked' = [asked EXCEPT !["LINE_CODING_CHANGE"] = sent]
  /\ UNCHANGED <<dev, rxIrq, sent, breakAsked, requests, busVars>>

HostConfigures ==
  /\ ~configured /\ ep0 = "none"
  /\ ep0' = "SET_CONFIGURATION"
  /\ UNCHANGED <<dev, rxIrq, hostVars, busVars>>

\* A bus reset empties the endpoint; the serial device has no reset handler.
BusReset ==
  /\ restarts < MaxRestarts
  /\ configured' = FALSE /\ ep0' = "none"
  /\ lost' = lost + dev.fifo
  /\ dev' = [dev EXCEPT !.fifo = 0, !.rxPktRdy = FALSE]
  /\ restarts' = restarts + 1
  /\ UNCHANGED <<rxIrq, hostVars>>

-----------------------------------------------------------------------------

EndpointZero == \/ HandleSetControlLineState \/ HandleSendBreak
                \/ HandleSetLineCoding \/ HandleEP0Data \/ HandleConfigChange
UsbInterrupt == CDCTickHandler \/ EndpointZero \/ ProcessDataFromHost
Client == UartInterrupt \/ UartSends
Host == HostSendsPacket \/ HostRequests \/ HostSendsCoding \/ HostConfigures

Next == UsbInterrupt \/ HandleDisconnect \/ Client \/ Host \/ BusReset

Spec == Init /\ [][Next]_vars

\* Start-of-frame interrupts keep coming as long as a host is connected, a due
\* interrupt is taken and the UART drains.  The host has to do nothing but
\* finish a line coding it has begun.
Fairness == /\ WF_vars(dev.bConnected /\ CDCTickHandler)
            /\ WF_vars(ProcessDataFromHost)
            /\ WF_vars(EndpointZero \/ HostSendsCoding)
            /\ WF_vars(UartInterrupt) /\ WF_vars(UartSends)

FairSpec == Spec /\ Fairness
-----------------------------------------------------------------------------

(***************************************************************************)
(* Properties.                                                             *)
(***************************************************************************)

Counts == 0 .. MaxBytes

\* Every variable stays in its range; the UART is never given more than it
\* takes.
TypeOK ==
  /\ {dev.ulReadIndex, dev.ulWriteIndex} \subseteq Index
  /\ dev.deferred \subseteq DeferredOps
  /\ \E n \in Durations \cup {0} : dev.usBreakDuration \in 0 .. n
  /\ dev.eCDCRequestState \in {"IDLE", "WAIT_DATA"}
  /\ {dev.bRxBlocked, dev.bConnected, dev.rxPktRdy, dev.txInt,
      dev.g_bSendingBreak, rxIrq, configured} \subseteq BOOLEAN
  /\ dev.fifo \in 0 .. Packet /\ (dev.fifo > 0 => dev.rxPktRdy)
  /\ dev.uart \in 0 .. UartRoom
  /\ {dev.usControlLineState, dev.sLineCoding, dev.lineState, dev.lineCoding}
       \subseteq 0 .. MaxRequests
  /\ {sent, lost, dev.taken} \subseteq Counts
  /\ asked \in [RX_BLOCK_OPS -> Counts]
  /\ ep0 \in Ep0States

\* A byte the host has sent is in the endpoint, in the ring, or with the
\* client, and in one of them only; resets and flushes drop the rest.
EveryByteSomewhere == sent = lost + dev.fifo + InRing(dev) + dev.taken

\* A packet in the endpoint always has somebody who will come for it: its
\* interrupt, or the flag the tick looks at.
PacketRemembered == dev.rxPktRdy => rxIrq \/ "PACKET_RX" \in dev.deferred

\* With no change outstanding, the client works with the line state and the
\* line coding the driver has last taken from the host.
ClientUpToDate ==
  /\ "LINE_STATE_CHANGE" \notin dev.deferred =>
       dev.lineState = dev.usControlLineState
  /\ "LINE_CODING_CHANGE" \notin dev.deferred =>
       dev.lineCoding = dev.sLineCoding

Told(op) ==
  \/ op = "LINE_STATE_CHANGE" /\ dev'.lineState # dev.lineState
  \/ op = "LINE_CODING_CHANGE" /\ dev'.lineCoding # dev.lineCoding
  \/ op = "SEND_BREAK" /\ dev'.g_bSendingBreak /\ ~dev.g_bSendingBreak

\* As long as nothing is reset, the client is told of a change before it is
\* given any byte the host sent after asking for it: at that moment no such
\* byte has left the endpoint.
NoLaterDataFirst ==
  [][restarts = 0 =>
       \A op \in RX_BLOCK_OPS :
         Told(op) => dev.taken + InRing(dev) <= asked[op]]_vars

\* A break request that was put off is carried out as the host asked: it
\* starts a break if its duration is not zero, and else ends one.
DeferredBreakAsAsked ==
  [][/\ "SEND_BREAK" \in dev.deferred /\ "SEND_BREAK" \notin dev'.deferred
     /\ ep0 # "SEND_BREAK"
     => (dev'.g_bSendingBreak <=> breakAsked # 0)]_vars

\* However long the client takes, and while a host is connected, it comes to
\* work with the line state and the line coding last taken from the host, and
\* every break ends.  A break that has to wait while none is being sent begins,
\* unless the host asks for its end first.  (One that has to wait while another
\* is being sent may never begin: the end of the first, SendBreak(FALSE) in the
\* tick, withdraws its flag too.)
ChangesMade ==
  /\ []<>(dev.bConnected => /\ dev.lineState = dev.usControlLineState
                            /\ dev.lineCoding = dev.sLineCoding)
  /\ []<>(dev.bConnected => ~dev.g_bSendingBreak)
  /\ ("SEND_BREAK" \in dev.deferred /\ ~dev.g_bSendingBreak /\ breakAsked # 0)
       ~> (dev.g_bSendingBreak \/ ~dev.bConnected \/ breakAsked = 0)

\* Every packet is read to its end and the client gets every byte that no reset
\* or flush has dropped: a packet that found the ring full or reception blocked
\* is offered again, also when the change it was blocked for has already been
\* made.
AllReceived ==
  []<>(dev.bConnected => dev.taken + lost = sent /\ ~dev.rxPktRdy)
=============================================================================
