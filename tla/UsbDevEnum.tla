------------------------------ MODULE UsbDevEnum ------------------------------
(***************************************************************************)
(* Endpoint zero of a USB device (usblib/device/usbdenum.c): the state       *)
(* machine that reads requests, answers them packet by packet and puts off   *)
(* a change of address until the status stage, against a host that performs *)
(* control transfers and resets the bus.                                    *)
(*                                                                         *)
(* USBDeviceIntHandlerInternal handles a bus reset and then endpoint zero.   *)
(* It is entered (interrupt status read and cleared) in one step and looks   *)
(* at the endpoint in another.  Each handler is a function of dev, the state *)
(* of the device and its endpoint; the host's tokens are single steps.       *)
(*                                                                         *)
(* A byte is <<where it lies, section or value, its position there>>.       *)
(***************************************************************************)
EXTENDS Integers, Sequences

CONSTANTS
  Packet,        \* EP0_MAX_PACKET_SIZE
  SectionSizes,  \* ucSize of the sections of the configuration descriptor
  BlockSize,     \* size of what is sent from one block: see Blocks
  Requests,      \* the requests the host makes
  TidyResets,    \* resets come only where the handlers cope: see BusReset
  Window         \* a SETUP may arrive between entering and looking

Blocks == {"device", "class"}

Min2(a, b) == IF a < b THEN a ELSE b

\* Where section s begins; USBDCDConfigDescGetSize.
SectionStart[s \in 1..Len(SectionSizes) + 1] ==
  IF s = 1 THEN 0 ELSE SectionStart[s - 1] + SectionSizes[s - 1]

ConfigSize == SectionStart[Len(SectionSizes) + 1]

\* The place of the byte at position p of the whole descriptor.
Place(p) ==
  LET s == CHOOSE t \in 1..Len(SectionSizes) :
             p \in SectionStart[t]..SectionStart[t + 1] - 1
  IN  <<s, p - SectionStart[s]>>

ConfigBytes ==
  [i \in 1..ConfigSize |-> <<"config", Place(i - 1)[1], Place(i - 1)[2]>>]

\* What a request with a data stage towards the host is to be answered with,
\* given the configuration the host has set.
Total(r, configuration) ==
  IF r.kind = "config" THEN ConfigBytes
  ELSE IF r.kind = "getConfiguration" THEN << <<"value", configuration, 0>> >>
  ELSE [i \in 1..BlockSize[r.kind] |-> <<r.kind, 0, i - 1>>]

Expected(r, configuration) ==
  LET all == Total(r, configuration)
  IN  SubSeq(all, 1, Min2(Len(all), r.wLength))

Answered == {"config", "getConfiguration", "unsupported"} \cup Blocks

\* An answer that fills its last packet and is as long as the host asked ends
\* for the host with that packet, for the driver with one more, empty one;
\* what the controller does then is outside the repository.
ASSUME EnumAssumption ==
  /\ Packet \in Nat \ {0}
  /\ SectionSizes \in Seq(Nat \ {0}) /\ Len(SectionSizes) > 0
  /\ BlockSize \in [Blocks -> Nat \ {0}]
  /\ TidyResets \in BOOLEAN /\ Window \in BOOLEAN
  /\ \A r \in Requests :
       /\ r.kind \in Answered \cup
            {"setAddress", "setConfiguration", "classOut", "refused"}
       /\ r.wLength \in Nat /\ r.wValue \in Nat
       /\ r.kind \in Answered \ {"unsupported"} =>
            \/ r.wLength > Len(Total(r, 0))
            \/ Len(Expected(r, 0)) % Packet # 0

VARIABLES
  dev,      \* tDeviceInstance, the registers of endpoint zero, the client
  irq,      \* interrupts due: subset of {"reset", "ep0"}
  latched,  \* interrupts the running handler has read; {} when none runs
  host      \* the host's side of the control transfer

vars == <<dev, irq, latched, host>>

None == [kind |-> "none"]
Nowhere == <<"null", 0, 0>>

Registers == [rx |-> None, fifo |-> << >>, txRdy |-> FALSE,
              dataEnd |-> FALSE, stall |-> FALSE, sentStall |-> FALSE]

Init ==
  /\ dev = [csr |-> Registers, faddr |-> 0,
            eEP0State |-> "IDLE", pEP0Data |-> Nowhere,
            ulEP0DataRemain |-> 0, ulOUTDataSize |-> 0,
            ulDevAddress |-> 0, pending |-> FALSE,   \* DEV_ADDR_PENDING
            ulConfiguration |-> 1,                   \* DEFAULT_CONFIG_ID
            ucConfigSection |-> 1, ucSectionOffset |-> 0,
            received |-> 0]       \* bytes given to pfnDataReceived
  /\ irq = {} /\ latched = {}
  /\ host = [phase |-> "idle", req |-> None, got |-> << >>, sent |-> 0,
             result |-> "none", address |-> 0, configuration |-> 0]

-----------------------------------------------------------------------------
(* The endpoint functions of drivers/usb.c, as far as endpoint zero goes.    *)

\* USBEndpointDataPut and USBEndpointDataSend do nothing while a packet is
\* armed.  The latter and USBDevEndpointDataAck store the register as a
\* whole: a stall requested or reported before is gone.
DataPutAndSend(csr, bytes, last) ==
  IF csr.txRdy THEN csr
  ELSE [csr EXCEPT !.fifo = @ \o bytes, !.txRdy = TRUE, !.dataEnd = last,
                   !.stall = FALSE, !.sentStall = FALSE]

DataAck(csr, last) ==
  [csr EXCEPT !.rx = None, !.dataEnd = last,
              !.stall = FALSE, !.sentStall = FALSE]

StallEP0(d) ==
  [d EXCEPT !.csr.stall = TRUE, !.csr.rx = None, !.eEP0State = "STALL"]

-----------------------------------------------------------------------------
(* Sending the data stage.                                                  *)

\* The last packet is a short one: a full packet is followed by another, be
\* it empty.
IsLast(n) == n # Packet

Advanced(p, n) == <<p[1], p[2], p[3] + n>>
Bytes(p, n) == [i \in 1..n |-> Advanced(p, i - 1)]

StateTx(d) ==
  LET n == Min2(d.ulEP0DataRemain, Packet)
  IN  [d EXCEPT
        !.eEP0State = IF IsLast(n) THEN "STATUS" ELSE "TX",
        !.ulEP0DataRemain = @ - n,
        !.pEP0Data = Advanced(@, n),
        !.csr = DataPutAndSend(@, Bytes(d.pEP0Data, n), IsLast(n)),
        !.ulOUTDataSize = IF IsLast(n) THEN 0 ELSE @]

\* Mutant: the next packet starts its section anew.
FromSections_OffsetLost(s, o, n) ==
  LET from == SectionStart[s] + o
      next == IF from + n = ConfigSize
                THEN <<Len(SectionSizes) + 1, 0>> ELSE Place(from + n)
  IN  [section |-> next[1], offset |-> 0,
       bytes   |-> SubSeq(ConfigBytes, from + 1, from + n)]

\* The loop over the sections: n bytes from offset o of section s on, and the
\* place of the next one, which is past the last section when all are sent.
FromSections(s, o, n) ==
  LET from == SectionStart[s] + o
      next == IF from + n = ConfigSize
                THEN <<Len(SectionSizes) + 1, 0>> ELSE Place(from + n)
  IN  [section |-> next[1], offset |-> next[2],
       bytes   |-> SubSeq(ConfigBytes, from + 1, from + n)]

\* The first bytes come from a copy of the header in which the total length
\* has been filled in: the same positions.
StateTxConfig(d) ==
  LET n == Min2(d.ulEP0DataRemain, Packet)
      sent == FromSections(d.ucConfigSection, d.ucSectionOffset, n)
      left == IF sent.section > Len(SectionSizes)
                THEN 0 ELSE d.ulEP0DataRemain - n
  IN  [d EXCEPT
        !.eEP0State = IF IsLast(n) THEN "STATUS" ELSE "TX_CONFIG",
        !.ucConfigSection = sent.section,
        !.ucSectionOffset = sent.offset,
        !.ulEP0DataRemain = left,
        !.pEP0Data = IF left = 0 THEN @
                     ELSE <<"config", sent.section, sent.offset>>,
        !.csr = DataPutAndSend(@, sent.bytes, IsLast(n)),
        !.ulOUTDataSize = IF IsLast(n) THEN 0 ELSE @]

-----------------------------------------------------------------------------
(* The requests.                                                            *)

\* Mutant: the address takes effect with the request.
SetAddress_AtOnce(d, r) ==
  [d EXCEPT !.csr = DataAck(@, TRUE), !.eEP0State = "STATUS",
            !.ulDevAddress = r.wValue, !.faddr = r.wValue]

SetAddress(d, r) ==
  [d EXCEPT !.csr = DataAck(@, TRUE), !.eEP0State = "STATUS",
            !.ulDevAddress = r.wValue, !.pending = TRUE]

\* Every device descriptor of the library has one configuration.
bNumConfigurations == 1

\* The state stays IDLE: there is nothing to do when the status stage ends.
SetConfiguration(d, r) ==
  LET acked == [d EXCEPT !.csr = DataAck(@, TRUE)]
  IN  IF r.wValue > bNumConfigurations THEN StallEP0(acked)
      ELSE [acked EXCEPT !.ulConfiguration = r.wValue]

\* The common form of the answers: acknowledge, point to the data, send.
SendBlock(d, block, n) ==
  StateTx([d EXCEPT !.csr = DataAck(@, FALSE), !.pEP0Data = block,
                    !.ulEP0DataRemain = n])

GetConfiguration(d) ==
  SendBlock(d, <<"value", IF d.pending THEN 0 ELSE d.ulConfiguration, 0>>, 1)

\* A descriptor the device does not have is refused, and then the end of the
\* function sends whatever pEP0Data points to since an earlier request.
UnknownDescriptor(d, r) ==
  LET refused == StallEP0([d EXCEPT !.csr = DataAck(@, FALSE)])
  IN  IF d.pEP0Data = Nowhere THEN refused
      ELSE StateTx([refused EXCEPT !.ulEP0DataRemain = Min2(@, r.wLength)])

\* wValue is the index of the configuration.
ConfigDescriptor(d, r) ==
  LET acked == [d EXCEPT !.csr = DataAck(@, FALSE)]
  IN  IF r.wValue >= bNumConfigurations
        THEN [StallEP0(acked) EXCEPT !.pEP0Data = Nowhere, !.ulEP0DataRemain = 0]
        ELSE StateTxConfig([acked EXCEPT
               !.pEP0Data = <<"config", 1, 0>>,
               !.ucConfigSection = 1, !.ucSectionOffset = 0,
               !.ulEP0DataRemain = Min2(ConfigSize, r.wLength)])

GetDescriptor(d, r) ==
  CASE r.kind = "device" ->
         SendBlock(d, <<"device", 0, 0>>, Min2(BlockSize["device"], r.wLength))
    [] r.kind = "config" -> ConfigDescriptor(d, r)
    [] OTHER -> UnknownDescriptor(d, r)

\* A request of the device's class, as usbdcdc.c answers them: data to the
\* host through USBDCDSendDataEP0, from it through USBDCDRequestDataEP0.
ClassIn(d) ==
  SendBlock([d EXCEPT !.ulOUTDataSize = BlockSize["class"]],
            <<"class", 0, 0>>, BlockSize["class"])

ClassOut(d, r) ==
  [d EXCEPT !.eEP0State = "RX", !.pEP0Data = <<"class", 0, 0>>,
            !.ulOUTDataSize = r.wLength, !.ulEP0DataRemain = r.wLength,
            !.received = 0, !.csr = DataAck(@, FALSE)]

\* Without a packet USBEndpointDataGet returns a size of 0.
Dispatch(d, r) ==
  CASE r.kind = "none" -> d
    [] r.kind = "setAddress" -> SetAddress(d, r)
    [] r.kind = "setConfiguration" -> SetConfiguration(d, r)
    [] r.kind = "getConfiguration" -> GetConfiguration(d)
    [] r.kind = "class" -> ClassIn(d)
    [] r.kind = "classOut" -> ClassOut(d, r)
    [] r.kind = "refused" -> StallEP0(d)
    [] OTHER -> GetDescriptor(d, r)

ReadAndDispatchRequest(d) == Dispatch(d, d.csr.rx)

-----------------------------------------------------------------------------
(* USBDeviceEnumHandler and USBDeviceEnumResetHandler.                      *)

\* A packet that is not the last is acknowledged as such; when the last has
\* come the client is called.
StateRx(d) ==
  LET n == Min2(d.ulEP0DataRemain, Packet)
      last == d.ulEP0DataRemain <= Packet
  IN  [d EXCEPT
        !.csr = DataAck(@, last),
        !.pEP0Data = Advanced(@, n), !.ulEP0DataRemain = @ - n,
        !.eEP0State = IF last THEN "IDLE" ELSE @,
        !.received = IF last THEN @ + d.ulOUTDataSize ELSE @,
        !.ulOUTDataSize = IF last THEN 0 ELSE @]

\* Mutant: does not look for a request.
StateStatus_NoDispatch(d) ==
  [d EXCEPT !.eEP0State = "IDLE", !.pending = FALSE,
            !.faddr = IF d.pending THEN d.ulDevAddress ELSE @]

\* The status stage is over: a pending address takes effect now, and if a
\* request has come in the meantime no other interrupt will report it.
StateStatus(d) ==
  Dispatch([d EXCEPT !.eEP0State = "IDLE", !.pending = FALSE,
                     !.faddr = IF d.pending THEN d.ulDevAddress ELSE @],
           d.csr.rx)

StateStall(d) ==
  IF d.csr.sentStall
    THEN [d EXCEPT !.csr.sentStall = FALSE, !.eEP0State = "IDLE"]
    ELSE d

EnumHandler(d) ==
  CASE d.eEP0State = "STATUS" -> StateStatus(d)
    [] d.eEP0State = "IDLE" -> ReadAndDispatchRequest(d)
    [] d.eEP0State = "TX" -> StateTx(d)
    [] d.eEP0State = "TX_CONFIG" -> StateTxConfig(d)
    [] d.eEP0State = "RX" -> StateRx(d)
    [] OTHER -> StateStall(d)

ResetHandler(d) == [d EXCEPT !.ulConfiguration = 1]

\* Reading and clearing the interrupt status, and what it says to do.
EnterHandler ==
  /\ latched = {} /\ irq # {}
  /\ latched' = irq /\ irq' = {}
  /\ UNCHANGED <<dev, host>>

RunHandler ==
  /\ latched # {}
  /\ \E d \in {IF "reset" \in latched THEN ResetHandler(dev) ELSE dev} :
       dev' = IF "ep0" \in latched THEN EnumHandler(d) ELSE d
  /\ latched' = {}
  /\ UNCHANGED <<irq, host>>

-----------------------------------------------------------------------------
(* The host and the controller.  A transfer goes through "in" or "out", as   *)
(* the request has data to send, and through "statusOut" or "statusIn".      *)

Interrupt == irq' = irq \cup {"ep0"}

\* The device answers only to the address it has taken.
Heard == dev.faddr = host.address

Done(result) ==
  host' = [host EXCEPT !.phase = "idle", !.result = result]

\* After a stall the host waits until the device has seen that it was sent:
\* StateStall does not look for a request.
SendSetup(r) ==
  /\ host.phase = "idle" /\ Heard
  /\ Window \/ latched = {}
  /\ ~dev.csr.sentStall
  /\ dev' = [dev EXCEPT !.csr.rx = r]
  /\ host' = [host EXCEPT
       !.phase = CASE r.kind \in Answered -> "in"
                   [] r.kind = "classOut" -> "out"
                   [] OTHER -> "statusIn",
       !.req = r, !.got = << >>, !.sent = 0, !.result = "none"]
  /\ Interrupt /\ UNCHANGED latched

TakeIn ==
  /\ host.phase = "in" /\ Heard /\ dev.csr.txRdy
  /\ LET got == host.got \o dev.csr.fifo
         over == Len(dev.csr.fifo) < Packet \/ Len(got) >= host.req.wLength
     IN  host' = [host EXCEPT !.got = got,
                              !.phase = IF over THEN "statusOut" ELSE @]
  /\ dev' = [dev EXCEPT !.csr.txRdy = FALSE, !.csr.fifo = << >>]
  /\ Interrupt /\ UNCHANGED latched

SendOut ==
  /\ host.phase = "out" /\ Heard
  /\ dev.csr.rx = None /\ ~dev.csr.stall
  /\ LET n == Min2(host.req.wLength - host.sent, Packet)
     IN  /\ dev' = [dev EXCEPT !.csr.rx = [kind |-> "data", size |-> n]]
         /\ host' = [host EXCEPT !.sent = @ + n,
              !.phase = IF host.sent + n = host.req.wLength
                          THEN "statusIn" ELSE @]
  /\ Interrupt /\ UNCHANGED latched

StatusStage ==
  /\ host.phase \in {"statusOut", "statusIn"} /\ Heard
  /\ dev.csr.dataEnd /\ ~dev.csr.stall /\ dev.csr.rx = None
  /\ dev' = [dev EXCEPT !.csr.dataEnd = FALSE]
  /\ host' = [host EXCEPT !.phase = "idle", !.result = "done",
       !.address = IF host.req.kind = "setAddress"
                     THEN host.req.wValue ELSE @,
       !.configuration = IF host.req.kind = "setConfiguration"
                           THEN host.req.wValue ELSE @]
  /\ Interrupt /\ UNCHANGED latched

SeeStall ==
  /\ host.phase # "idle" /\ Heard /\ dev.csr.stall
  /\ dev' = [dev EXCEPT !.csr.stall = FALSE, !.csr.sentStall = TRUE,
                        !.csr.dataEnd = FALSE]
  /\ Done("stall")
  /\ Interrupt /\ UNCHANGED latched

\* USBDeviceEnumResetHandler leaves eEP0State and a pending address as they
\* are.  That does no harm where the next request makes them good.
Tidy == dev.eEP0State \in {"IDLE", "STATUS"} /\ ~dev.pending

\* The controller forgets address and endpoint; interrupts already due stay.
BusReset ==
  /\ TidyResets => Tidy
  /\ dev' = [dev EXCEPT !.csr = Registers, !.faddr = 0]
  /\ host' = [host EXCEPT !.phase = "idle", !.result = "none",
                          !.address = 0, !.configuration = 0]
  /\ irq' = irq \cup {"reset"}
  /\ UNCHANGED latched

Handler == EnterHandler \/ RunHandler
HostGoesOn == TakeIn \/ SendOut \/ StatusStage \/ SeeStall

Next == Handler \/ HostGoesOn \/ BusReset \/ \E r \in Requests : SendSetup(r)

\* The interrupt is taken and its handler runs on; the host repeats a token
\* that is not answered.
Spec == Init /\ [][Next]_vars /\ WF_vars(Handler) /\ WF_vars(HostGoesOn)
-----------------------------------------------------------------------------
(* Properties.                                                              *)

\* A change of address takes effect after the status stage of its request
\* and before anything else: when nothing is left to be handled the device
\* listens to the address the host uses.
AddressAgreed == irq = {} /\ latched = {} => dev.faddr = host.address

\* Before the host sends the status stage it has been sent exactly what it
\* asked for -- every section once, in order, cut to the length it gave -- and
\* before it is granted one the client has been given exactly what it sent.  No
\* packet is longer than the endpoint takes.
DataStageExact ==
  /\ Len(dev.csr.fifo) <= Packet
  /\ host.phase = "statusOut" /\ host.req.kind # "unsupported" =>
       \/ host.got = Expected(host.req, host.configuration)
       \/ host.req.kind = "getConfiguration" /\ host.configuration = 0
  /\ host.phase = "statusIn" /\ host.req.kind = "classOut"
       /\ dev.csr.dataEnd => dev.received = host.req.wLength

\* Every control transfer comes to an end, although requests arrive while the
\* status stage of the one before is still to be handled, and after resets.
EveryTransferEnds == host.phase # "idle" ~> host.phase = "idle"
=============================================================================
