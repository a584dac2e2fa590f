# Verification of StarterWare's USB stack, DMA buffer pool and Ethernet rings

StarterWare is the bare-metal software of TI's AM335x processor: register-level
drivers, a USB library, an SD/MMC and a NAND library, an Ethernet port, a boot
loader and examples.  There is no operating system.  A program is
one main loop and its interrupt handlers, and what makes it hard to test is that the
two share state, with each other and with engines and hosts that do not wait.

This directory holds TLA+ modules of the parts whose correctness depends on such
sharing, on the order of events, or on arithmetic at a boundary; TLC
configurations that check them; and TLAPS proofs.  `PROJECT.json` lists the runs,
the findings, the hazards, and for every definition the source lines it models.

## 1. Inventory

### The core: USB device library (`src/usblib`)

| Component | State it keeps | Operations | Interacts with |
|---|---|---|---|
| ring buffer, `usbringbuf.c` | `ulReadIndex`, `ulWriteIndex`, the workspace | read, write, advance, flush, sizes | called by the USB buffer in two contexts |
| USB buffer, `usbbuffer.c` | a ring; which lower-layer functions to call | client: write, data written, read, data removed, flush, info; from below: `RX_AVAILABLE`, `TX_COMPLETE`, `DATA_REMAINING`, `REQUEST_BUFFER` | calls the device driver's packet functions; the driver calls its event callback |
| serial device, `device/usbdcdc.c` | a state per endpoint, `usDeferredOpFlags`, `bRxBlocked`, break timer, line state and coding, serial state, `usLastTxSize` | packet write and read, `USBDCDCSerialStateChange`, handlers for endpoints, requests, EP0 data, configuration, disconnection, tick | controller driver, enumeration, tick, client callbacks |
| bulk, HID, composite devices | the same pattern with fewer operations | | same |
| mass storage device, `device/usbdmsc.c` | SCSI state, LBA, bytes to transfer, sense data, status block | one handler for both endpoints, a branch per SCSI state; one function per command; configuration, disconnection | DMA pool and completion, media functions |
| enumeration, `device/usbdenum.c`, `usbdhandler.c` | endpoint-zero state, data pointer and remainder, section and offset of the configuration descriptor, pending address, configuration | interrupt dispatch: reset, disconnect, tick, EP0, endpoints; one function per standard request | every device class |
| tick, `usbtick.c` | at most six handlers | fan-out of the start-of-frame interrupt | device classes |
| host, `host/usbhostenum.c` and classes | device state, events, descriptors, active driver; endpoint-zero state; per-pipe states | `USBHCDMain`; control and pipe transfers that block in the main loop and are completed by interrupts | class drivers, DMA pool |

### Its neighbours

| Component | Role | Why it is hard |
|---|---|---|
| `drivers/cppi41dma.c` | DMA for USB: a pool of 512-byte units, descriptors, queues | the pool is shared by the main loop and handlers |
| `drivers/usb.c` | FIFOs and ready bits of the endpoints | hardware flags set by the core at any time |
| `drivers/cpsw.c`, lwIP port `cpswif.c` | descriptor rings shared with the Ethernet DMA; pbufs shared with the stack | the engine stops at the tail while software appends, and the stack may keep buffers |
| `mmcsdlib`, `nandlib` | card and flash protocols | error paths; mostly sequential polling |
| `bootloader` | copies an image and jumps | sequential |
| example `usb_dev_serial` | the client of the serial device: USB to UART | runs in the USB and UART interrupts, at one priority |

### What can go wrong, and what would show it

* *Shared indices.*  The interrupt handler fills one end of a ring while the main
  loop empties the other.  Correct if no byte is overwritten, invented or reordered
  at any point of interruption.
* *One packet at a time.*  A packet is loaded, armed, taken and acknowledged in
  steps of three parties.  Correct if two packets never overlap, none is waited for
  that is gone, and a completion counts exactly what was sent.
* *Order between two channels.*  Control requests and data travel separately, and a
  change of line coding must take effect between the right bytes.
* *Deferred work.*  What cannot be done now is remembered in a flag and retried from
  a tick.  Correct if nothing is forgotten, withdrawn or done with stale data.
* *Resets.*  Each handler resets a part of the state.
* *Boundaries.*  End of the workspace, full ring, first unit of the pool, a descriptor
  that fills its last packet.
* *Protocols in several transfers.*  Enumeration and SCSI commands are sequences that the
  other side drives and may break off.  Correct if each ends, the answer is the one to
  the last request, and nothing of an abandoned one is used.
* *Engines.*  The DMA engine goes on while software extends its chain.  Correct if it
  never writes to a buffer that is not its own and never stops for good.

The full list, line by line, is `hazards` in `PROJECT.json`.

## 2. The modules

```
ByteQueue (abstract)      UsbRingBuf (index arithmetic)     CppiDmaBuffers
      ^                    ^          ^          ^
      +---- UsbRingRx -----+          |          |          UsbCdcNotify
      +------------- UsbTx -----------+     UsbCdcRx

UsbDevEnum <- MCUsbDevEnum       UsbMscDevice <- MCUsbMscDevice
CpswRx <- Cpsw                   UsbHostEnum
```

Proofs about `M` are in `M_proofs`: there is one for `UsbRingBuf`, `UsbRingRx`, `UsbTx`,
`UsbCdcRx` (with `UsbCdcNotify`, the rest of the serial device), `UsbDevEnum`,
`UsbMscDevice` (with `CppiDmaBuffers`, the pool under it), `UsbHostEnum` and `Cpsw` (with
`CpswRx`).  `UsbRingBuf_proofs` has the lemmas the other three about rings cite.  Since they
share a proof module with another component, the definitions of `UsbCdcNotify` and
`CppiDmaBuffers` that every specification has are named for them: `NotifySpec`, `PoolSpec`.

**`UsbRingBuf`** is the arithmetic of `usbringbuf.c` as operators over the two
indices.  `WrapIndex` is the second half of `UpdateIndexAtomic`; the first half, the
addition, is a step of its own wherever interruption matters.

**`UsbRingRx`** is a receive ring: the client (main loop) reads byte by byte, skips
with `USBRingBufAdvanceRead`, or flushes, one step per access to a shared index.  The
handler is all of `HandleRxAvailable`: the two transfers (`Receive`, `ReceiveRest`), then
`Callback`, in which the client may take bytes, and the `USBRingBufAdvanceRead` after it,
which runs even if none were taken and wraps an index that the main loop has left at the
end of the workspace.  `Gaps` is the set of client accesses before which the handler may
come in; nothing in the code masks it at any of them, and in a program like
`usb_dev_serial`, whose calls are all made in handlers of one priority, it comes in at
none.  The three accesses of `UpdateIndexAtomic` to the index are steps of their own
(`AddToIndex`, `TestIndex`, `SubtractSize`).  Bytes carry their position in the received
stream, so order and loss are visible.  `head`, `received` and `got` are history, read by
no guard except the bound `MaxBytes`.

**`UsbTx`** is the transmit path from client to host.  `ScheduleNextTransmission` runs
in two contexts, `"main"` and `"isr"`, through the steps `avail`, `contig`, `total`,
`put`, `mark`, `send`; `put` to `send` are `USBDCDCPacketWrite`.  The client enters it
from `USBBufferWrite` and `USBBufferDataWritten`, the handler from `TX_COMPLETE`.  The
constant `Preempt` says where the handler may come in:
`"never"` (all client calls are in handlers of one priority, as in `usb_dev_serial`) or
`"anywhere"`, inside the update of the write index too, where it can find that index at
the end of the workspace.  The client need not be interrupted, so "anywhere" includes every
behaviour of "never".  `TakesInUpdate` says whether the host may take a packet while the
client stands inside that update: with `FALSE` at most one completion falls into it.
Resets, disconnections, configurations and flushes are counted as `upsets`.

**`UsbCdcRx`** is the receive path and the control requests.  All its handlers run at one
priority, so each is one action: a function of the record `dev`, which holds the
ring's indices, the instance data, the OUT endpoint and the client's UART.  One USB
interrupt handles the tick, endpoint zero and the data endpoints in that order
(`USBDeviceIntHandlerInternal`), hence `ep0 \notin Requests` in `ProcessDataFromHost`.
Bytes are counted, not named.

**`UsbCdcNotify`** is serial-state notification, with `USBDCDCSerialStateChange` split
into its statements and `SetDeferredOpFlag` into load and store.  `HWREG` accesses 32
bits and the flags have 16, so the word includes the next member, `usLastTxSize`; what
the data paths do to that word appears as four small actions.

**`CppiDmaBuffers`** is the pool as its users in interrupt handlers see it, each call
atomic; `Modulus` makes the unsigned subtraction of the marking loop wrap round.  `Held`
units are taken at start for reception, as `usb_dev_msc.c` does.

**`UsbDevEnum`** is endpoint zero of the device and the host that talks to it.  The record
`dev` holds `g_psUSBDevice` and, in `csr`, the FIFOs and ready bits of the endpoint; a byte
of an answer is the place it comes from, so that order, omission and repetition are visible.
`EnterHandler` reads and clears the interrupt status, `RunHandler` does the rest
(`USBDeviceIntHandlerInternal` with `USBDeviceEnumHandler`), and the host acts between the
two.  `StateTx`, `StateTxConfig`, `StateRx`, `StateStatus`, `StateStall` are the states of
`eEP0State`; the requests are those that differ in what they do to it: an address, a
configuration, descriptors in one piece and in sections, class requests in both directions,
refused ones, and those for a configuration that does not exist.  `MCUsbDevEnum` gives
sections and requests.

**`UsbMscDevice`** is the SCSI state machine with its DMA transfers.  `HandleEndpoints` is one
action: `InPart` for a completed IN transfer, by `ucSCSIState`, then `OutPart` for a received
packet, with commands as functions of `dev`.  A READ(10) goes out in chunks of at most
`Chunk` blocks, each from a run of the pool allocated for it and freed by `TxCompletion`.
The pool has `Room` units; `dev.alloc` says whether an allocation has returned NULL, and what
came of it: `SEND_BLOCKS` then queues nothing and waits for ever, a command writes its
response to address 0 and sends what is there, and the first such write may end the program
(`DataAbortHandler`).  The host sends a command, takes or sends the data, sees stalls, takes
the status; the medium comes and goes; the cable may be pulled.

**`CpswRx`** is the Ethernet receive ring: descriptors (`bd`), the driver's view of them
(`rxch`), the DMA engine (`dma`), the handler (`cpu`), the stack's buffers (`stack`).  The
handlers are cut where the engine could see the difference: each frame handed over, each
descriptor filled (one turn of the loop), the two stores that link them to the chain, the
look at the end-of-queue mark.  Frames carry numbers.  The stack may keep every pbuf;
`dma.missed` is history and says that a refill has filled part of a ring that was free
altogether (`MarkMissed`).

**`Cpsw`** adds the transmit ring (`txbd`, `txch`, `tdma`, `tx`) and composes the two: one
CPU, two engines, one set of pbufs.  `Transmit` and `CheckTail` are `cpswif_output` with
`cpswif_transmit`, cut where the engine could see the difference; `EnterTx`, `ReapPacket` and
`LeaveTx` are `cpswif_tx_inthandler`, which ends in the receive ring's `cpswif_rxbd_alloc`.
The handler waits for a packet for 65535 looks, a count shared by all packets of one call;
how long they take is not known, so any look may be the last (`LastLook`), after which the
engine is given the packet once more and the handler returns at once (`TryAgain`, which sets
the history variable `tx.late`).  A packet is the run of descriptors from the one with SOP to
the first with EOP along the chain, at most `MaxChain` of them.  The stack sends from the
main loop or from the receive handler, and may send a reply in the pbuf the request came in,
which then counts as kept until it has been sent.

**`UsbHostEnum`** is the enumeration of the host: `USBHCDMain` in the main loop, cut at the
loops in which `USBHCDControlTransfer` waits; the interrupt handler
(`USBHostIntHandlerInternal`, `USBHCDEnumHandler`) between its steps; the controller's
endpoint zero; and devices of three classes that are plugged in, pulled out, stall or
hang.

**`ByteQueue`** is what a ring promises: a FIFO of consecutive bytes that can be put,
taken, and, where the code flushes or skips, dropped.  `UsbRingRx` and `UsbTx` refine it.

Definitions named `Operator_Something` are mutants: plausible slips that the
properties are shown to catch.

## 3. The runs

Passing:

| Run | Shows |
|---|---|
| `ring_read` | the ring is a FIFO queue and the block offered to the handler is free, although nothing masks interrupts, wherever the handler comes in but at two places: between the test of an index past the end and the subtraction, and, after a step of several bytes, between the addition and the test |
| `tx_path` | the handler comes in before every access: until something is reset or flushed, the bytes taken by the host are the bytes written, in order (`QueueSpec`), `TX_COMPLETE` reports and removes exactly what was sent, nothing is left in the ring when all is quiet, everything is delivered; whatever is reset, configured or flushed, a configured device never waits for a packet that is gone |
| `cdc_rx` | every byte is in one place, no packet in the endpoint is forgotten, a pending change is never overtaken by later data, line state and coding always reach the client, a break that has to wait begins unless the host asks for its end first or one is being sent already, every break ends, every packet is read, the client's line settings are the host's last -- with a reset, disconnection or configuration at any time |
| `notify` | notifications never overlap, and the driver's state always reaches the host, while no new configuration intervenes; and if one does the channel is not left busy with nothing on its way |
| `dma_device` | runs of units never overlap, none is leaked, none in use is marked free |
| `enumerate` | device and host agree on the address whenever nothing is left to be handled; the data of each request is exactly what it should be, across sections and packets; every transfer ends, although the next SETUP may come with the status stage of the last |
| `msc_commands` | a status belongs to the command sent last and is a success only if all blocks went over, in order; the units in use are those of the chunk on its way and those failing reads have lost; an allocation fails only when these leave no room for a chunk; every command ends, unless the cable is pulled or an allocation has failed |
| `cpsw_rings` | every frame reaches the stack once and in order; the receive engine is only ever at a descriptor with an empty buffer, is never restarted while it runs, and no pbuf is lost or held twice; it stays stopped with a descriptor it could use only after a refill of part of a free ring.  Until the handler hands a late packet over again, every packet is sent once and in order and freed only after that, and the transmit engine is neither restarted while it runs nor left standing with work to do |
| `host_plug` | the driver is opened only on a device whose descriptors were read in this connection; once the bus is quiet the host has the device that is there, or none if there is none |

Violations (each is a finding, with the line it contradicts, in `PROJECT.json`):

| Run | What the code does |
|---|---|
| `cpsw_mark` | the mark that the engine has stopped is overwritten, and reception stops for good |
| `cdc_rx_break` | a deferred "end the break" starts one |
| `notify_word` | the non-atomic flag update undoes the interrupt's changes to flags and to the neighbouring size |

Other disagreements between code and comments, or behaviour a reader would not expect,
met while modelling.  They explain guards, constants and limits of the properties above.

*Ring buffer, USB buffer, serial device:*

* `UpdateIndexAtomic` adds, tests and subtracts in three accesses to a volatile index, with
  `IntDisable` commented out (`usbringbuf.c:97-128`), against its comment at 55-58, "ensures
  that the read/modify/write sequence is not interrupted".  Two places are exposed on a
  receive ring that a main loop reads while a handler fills it:
  - between test and subtraction: the handler's own `USBRingBufAdvanceRead`
    (`usbbuffer.c:334`) wraps the index, and the client then subtracts `Size` from what is
    left, which is 0 or the bytes the handler skipped.  With `"subtract"` added to `Gaps` TLC
    shows, with reads of one byte only, the index out of every range (`TypeOK`), a block
    offered over unread bytes (`FreeBlockIsFree`) and the contents lost (`ContentsInOrder`);
  - between addition and test, after a step of several bytes: with `"skiptest"` added to
    `Gaps` TLC shows a block that leaves the workspace.  By steps of one byte (`MaxAdvance = 1`)
    this place is safe.  `USBBufferDataRemoved` takes any count.

  `ring_read` and the theorems are about every other place;
* on the transmit ring nobody but the client moves the write index, so one completion inside
  its update does no harm (`tx_path`).  Two do: the first schedules the bytes up to the end of
  the workspace, the second wraps the read index to 0 and finds the write index still at
  `Size`, that is a ring full of stale bytes, which it sends.  With `TakesInUpdate = TRUE` TLC
  shows `CompleteReportsSent` and `QueueSpec` violated.  The update is a few instructions, but
  a handler that takes longer than the host needs for a packet is re-entered before the
  client has made any;
* the client flushes its buffer when a configuration connects it.  If that comes inside the
  main loop's update of the write index, the flush stores `Size` as the read index
  (`usbringbuf.c:239-259`): `ContigUsed` is then 0 and nothing is sent until a completion wraps
  it.  Only with preemption, and an upset in the sense above;
* `usLastTxSize` survives a bus reset with a packet loaded (`usbdcdc.c:1365`), and the next
  completion reports, and removes, the bytes of both packets, against
  `usbbuffer.c:748-750`: the properties about bytes speak of the time before the first
  upset.  After one only `NeverBusyForNothing` is claimed;
* a flush while a packet is on its way makes its completion remove bytes never sent
  (`usbbuffer.c:838`, `399-425`): a flush is an upset too;
* a request overtakes a packet that is still in the endpoint, since one interrupt handles
  endpoint zero first (`usbdenum.c:3079-3101`): `NoLaterDataFirst` has no counterpart for
  earlier data;
* the end of one break withdraws a later one that waits (`usbdcdc.c:2032`, `714-739`):
  `ChangesMade` promises the beginning of a waiting break only if none is being sent, and
  `DeferredBreakAsAsked` fails for this reason too;
* a change that waits blocks reception; if a second request finds the client idle and is
  carried out at once, the flags are gone but `bRxBlocked` is not, until a packet sets one
  and the tick looks (`usbdcdc.c:2010-2103`);
* the example answers that its UART is idle whatever it does
  (`Usb_dev_serial.c:1008-1015`);
* reported serial errors are cleared as they are recorded and line bits are never cleared
  (`usbdcdc.c:2930-2932`): `notify` speaks of the driver's state, not of the client's reports;
* a notification that fails after a new configuration is retried by nobody
  (`usbdcdc.c:1038`, `2946-2948`): `ReportedAtRest` and `EventuallyReported` end with the
  first new configuration;
* after a reset, a left-over `CDC_DO_PACKET_RX` lets a tick read a packet before an earlier
  request: `NoLaterDataFirst` ends with the first reset.

*DMA pool:*

* the unsigned countdown of `cppiDmaAllocnBuffer` (`cppi41dma.c:1562`) goes wrong for a run
  that begins at unit 0, that is for the first run of a pool with nothing held, as on a USB
  host: the caller gets the run one unit too high and none of it is marked.  With
  `Held = 0` TLC shows it in `CppiDmaBuffers`;
* search and marking are two steps (`cppi41dma.c:1493`, `1562`) that a handler can interrupt:
  in `usb_device_host_msc` main loop and handler may be given one unit;
* `USBHCDPipeWrite` frees a buffer its completion has freed (`usbhostenum.c:1118`);
* `dmaTxCompletion` waits at most 65535 polls for the FIFO to drain
  (`cppi41dma.c:1229-1232`); the status block then written is dropped without notice.

*Enumeration (`usbdenum.c`):*

* a bus reset sets `ulConfiguration` and tells the class (1323-1352), but leaves
  `eEP0State` and a pending address as they are.  With `TidyResets = FALSE` the reset may
  come at any time and `AddressAgreed` is violated: the device takes the address it was
  given before the reset;
* the interrupt status is cleared before the endpoint is looked at (`usbdhandler.c:81-93`,
  `usbdenum.c:1101`).  With `Window = TRUE` a SETUP packet may come in between; it is
  handled with the interrupt before, its own finds nothing, and `AddressAgreed` is violated;
* in the stalled state the handler clears the stall and does not look for the SETUP
  packet that may have come with it (1278-1297): the host of the model waits for it;
* an unsupported descriptor stalls, and then the data pointer of the request before is
  sent (1985-2047), although the comment at 1829-1832 says it "will stall the request";
* `USB_DEV_EP0_SETUP_END` is handled nowhere: a host that abandons a data stage is
  outside the model;
* the configuration reported before any SET_CONFIGURATION is 1 (`DEFAULT_CONFIG_ID`): the
  exception in `DataStageExact`;
* a request for an interface that is not the serial device's is neither acknowledged nor
  stalled (`usbdcdc.c:1638-1640`);
* an answer to a class request is sent whole, whatever length the host asked for
  (`usbdcdc.c:1761`, `sizeof(tLineCoding)`): a host that asks for less gets more.  The
  requests of the run leave room, as the third part of `Tame` asks (section 4);
* an answer of exactly the requested length that fills its last packet is followed by an
  empty one the host does not ask for: excluded by `EnumAssumption`.

*Mass storage device (`usbdmsc.c`):*

* a first `BlockRead` that fails leaves its buffer allocated (1905-1917); `lost` in
  `PoolAccounted` counts these.  Enough of them exhaust the pool (512 units less those for
  reception in the code, `Room` of them in the run).  SEND_BLOCKS then tests for NULL, queues
  nothing and never goes on (687-689), which it can only come to after a first NULL elsewhere;
  the commands do not test at all (1504, 1599, 1706, 1815, 1905-1919, 2134) and write to
  address 0, which nothing maps: the program may end in `DataAbortHandler`.  So `StatusTells`
  and `CommandsEnd` speak of the time before, and `PoolAccounted` says what it takes to get
  there;
* results of later `BlockRead`s (695) and of `BlockWrite` (841-846) are not looked at, so
  the status says success.  `MediaStable = TRUE` keeps the medium in place during a
  command; with `FALSE`, `StatusTells` is violated;
* the status is sent from the IN interrupt only, so a command that stalled the OUT
  endpoint (a WRITE without medium, 2069-2090) never gets one.  `StalledOut = FALSE` keeps
  hosts from such commands; with `TRUE`, `CommandsEnd` is violated;
* a failed TEST UNIT READY sets no sense data (2278-2281); REQUEST SENSE writes byte 12
  twice (1798-1799); `USBDMSCTerm` closes the medium only if there is none (1362); a VERIFY
  with data is never answered;
* in the idle state the handler waits in the interrupt for the packet (914), for ever if a
  reset has flushed it: disconnections are modelled when no chunk is queued and no packet
  waits.  A reset in the middle of a command leaves `ucSCSIState`.

*Ethernet (`cpswif.c`):*

* the handler overwrites all flags of a descriptor, the end-of-queue mark of the tail
  among them (2124), and `cpswif_rxbd_alloc` then looks for that mark (1593).  If the stack
  keeps the pbufs of all frames, no descriptor can be given a buffer, the mark is gone by the
  time one can, and if then only part of the ring is filled reception stops for good,
  although the comment at 1588-1592 says the head pointer is written then.  This is the
  finding `cpsw_mark`; `ReceptionGoesOn` holds for as long as that refill has not happened.  Nothing
  bounds the stack: the code has 210 pbufs (`lwipopts.h:102`) for 204 descriptors;
* a pool smaller than the ring leaves the initial chain broken;
* to pad a packet shorter than 60 bytes `cpswif_output` moves `p` to its last pbuf
  (1720-1732), and that is what it sends: a short packet in several pbufs would leave
  without its head.  The packets of `Cpsw` need no padding;
* when no descriptor is free the reference taken for the packet is not given back
  (1736-1739), so its pbuf is never freed (`lost` in `Cpsw`: `BuffersSafe` counts it
  with the stack's);
* `cpswif_tx_inthandler` gives up on a packet after 65535 looks, counted over all the packets
  of a call: it writes the head pointer, whether or not the engine has stopped, and returns
  without the end-of-interrupt and without refilling the receive ring (2190-2198).  The engine
  may be in the middle of that packet, or done with it between the last look and the write:
  then it is sent twice, and a packet may be freed before it is sent.  Without `~tx'.late` TLC shows
  `SentInOrder` violated;
* a packet that took every descriptor would leave the free list empty with its tail
  linked to itself, hence `MaxChain < NumTx`.

*Host (`usbhostenum.c`):*

* a device pulled out and another plugged in between two calls of `USBHCDMain`: the connection
  clears the removal (3032-3033), the device is reset with descriptor and address of the first
  still there, no branch of the connected state applies (3926-3965) and it is never
  enumerated, although the comment at 3911 says it is.  With `SlowHands = FALSE`
  `FollowsThePlug` is violated, and `OpenOnWhole` if a driver was open.  If both interrupts
  come at once the removal wins, whatever was last;
* `ASSERT(eState == EP0_STATE_IDLE)` (4146) fails after any transfer that was aborted or
  timed out, since nothing resets the state (the assertion is empty without `DEBUG`);
* `iUSBHActiveDriver` is 0 until something sets it, so a device removed before the first
  configuration closes a driver that was never opened and the application is not told
  (3682-3715);
* results of SET_ADDRESS and SET_CONFIGURATION are ignored: a driver may be opened on a
  device that was never configured, which `OpenOnWhole` does not exclude;
* after a failed pipe transfer the bus is reset but the device is not addressed again; a
  babble error switches the host off for good.

### Bounds and why they are enough

* Ring of 4 bytes with steps of up to 3 (receive), 5 with packets of 3 (transmit), 3 with
  packets of 3 (serial): the smallest that give every relation of the indices -- a packet that
  fits, one that spans the end of the workspace, a full and an empty ring -- while a packet
  fills more than half of it.  `MaxBytes` of 9 (receive) goes round the ring twice, of 8
  (transmit) once with the handler inside the update of the index; in `UsbCdcRx` 4 goes round
  once with a packet of any size.
* Two requests: one that waits and one that follows.  One restart in `cdc_rx` (a reset or a
  disconnection; the configuration that follows is not counted) and in `notify`; two upsets in
  `UsbTx`, where configurations and flushes count.  Break durations 0 and 2: an end, and a
  break that outlives a tick.  `UartRoom` of 1 keeps data in the ring as long as possible.
* Three serial-state reports, two lines, one error, one data packet: one report
  being sent, one deferred, one arriving in between.
* Six units, runs of up to 3, three transfers: fragmentation that leaves free units on
  both sides of a used one.  Modulus 64 stands for 2^32; the arithmetic needs only
  that it exceeds the pool, which is also all the proofs assume.

* Enumeration: packets of 3 bytes; a descriptor of sections of 2, 3 and 1 bytes, so that
  one ends inside a packet, one spans two and the whole fills its last packet.  Requests
  for less, for all and for more than there is.  The host may go on for ever.
* Mass storage: chunks of 2 blocks, reads of 2 and 3: one chunk, and one and a half.
  A pool of 5 units: failing reads exhaust it, and before that every command fits.
* Ethernet: 2 receive descriptors, 2 pbufs, all of which the stack may keep, and 1 frame
  while a chain is linked; 3 transmit descriptors and packets of 1 or 2.  Both rings run
  empty, fill up and wrap, the receive ring is refilled in part and as a whole, a packet
  wraps round the end of the ring or does not fit, and every packet may be late.  Numbers are
  modulo one more than the ring, which is more than are ever under way.  `cpsw_mark` has the
  receive ring alone, with 3 descriptors, 4 pbufs and 2 frames.
* Host: the full enumeration of two devices, one of them pulled out or both, and one fault
  at any step of either.  A pool of 4 bytes is between the lengths of the two configuration
  descriptors, so that one is cut.  Three plugs and two faults have been checked too (a
  million states).

`CHECK_DEADLOCK FALSE` appears only for `UsbCdcNotify`: once its bounds are used up and
everything has been reported, it has nothing to do.

### Fairness and why the code justifies it

A function that has been called runs on (weak fairness).  A hardware interrupt stays
pending until handled, so its handler is entered if it is again and again allowed to be
(strong fairness, where the client can hold it off; weak, where nothing can).  The host
polls an armed IN endpoint.  The start-of-frame interrupt keeps coming while a host is
connected, so the tick is weakly fair then, and the UART drains.  The liveness properties
of `UsbCdcRx` ask nothing of a device that has been disconnected.  Nothing obliges the client to
write or the host to send; the host must only finish a control transfer it has begun.
In `UsbDevEnum` the handler runs and a host in the middle of a transfer goes on; in
`UsbMscDevice` handler, DMA engine and a host in the middle of a command do.  `UsbHostEnum`
asks that the main loop keeps calling `USBHCDMain`, that the interrupt is taken, that the
bus does what the controller asks of it, and that the timer of a transfer elapses if
nothing else ends it; nobody has to plug or unplug anything.  `Cpsw` states no
fairness: `ReceptionGoesOn` and `TransmissionGoesOn` are invariants, about who will wake a
stopped engine.

## 4. What is proved

`UsbRingRx_proofs`, for every `Size`, `MaxBytes` and count the callback takes, assuming `Safe`:
the handler does not come in between test and subtraction (`"subtract" \notin Gaps`), nor
between addition and test after a step of several bytes (`"skiptest" \in Gaps => MaxAdvance
<= 1`); at every other access it may.  The disagreements above say why both are needed; a
program whose client runs in handlers of one priority has `Gaps = {}`:

* `RxTypeCorrect`, `RxContents`, `RxFreeBlock`: `Spec => []P` for `TypeOK`,
  `ContentsInOrder` and `FreeBlockIsFree`;
* `RxRefinesQueue`: `Spec => QueueSpec`, the ring implements `ByteQueue`.

Their inductive invariant (`RxInvariant`) strengthens the three by what the client's locals
say about the ring at each of its steps: an index past the end exists only between addition
and subtraction, and is exactly `Size` wherever the handler can see it, so that the wrap in
its `USBRingBufAdvanceRead` does the client's work and the client's test then finds nothing to
do; the bytes still to read are in the ring; the saved write index of a flush lies in the part
the handler has since extended.  Without them a step of the client could take an arbitrary
index.  The argument is arithmetic on the cyclic distance `Used`: each step changes it by the
bytes it moves, and the handler's block never closes the gap of one byte that tells full from
empty.  For the refinement the invariant gives the abstract queue as the stream positions from
`head` to `received`; a transfer is a put, the addition to the read index a get or a drop, a
flush and what the callback takes a drop, and every other step leaves the queue alone.

`CppiDmaBuffers` (in `UsbMscDevice_proofs`), for every pool, modulus and set of transfers,
assuming `Held >= 1` (the disagreements above say why this is needed):

* `PoolTypeCorrect`, `PoolOwnersApart`, `PoolUsedIffOwned`.

The inductive invariant (`PoolInvariant`) adds that `nBlocks` of the first unit of a run is
its length, so that freeing gives back the whole run; that a transfer that owns
something has a run of at least one unit; and that no run ends outside the pool.  Since a
run found free cannot contain unit 0, the unsigned subtraction does not wrap round and
`Marked` and `Returned` are the run that was found.

`UsbCdcNotify` (in `UsbCdcRx_proofs`), for every set of signals and any number of calls, packets and
new configurations:

* `NotifyTypeCorrect`, `NotifyOneAtATime`, `NotifyNeverStuck`, `NotifyReported`:
  `NotifySpec => []P` for `NotifyTypeOK`, `BusyWhileNotifying`, `NeverBusyForNothing`,
  `ReportedAtRest`, with or without preemption;
* `NotifyWordKept`: `NotifySpec => []WordKept` assuming `Preempt = FALSE`.  The run
  `notify_word` violates `WordKept` with preemption, so the window between load and store is
  the whole of that defect.  A program whose client reports from handlers of the same
  priority, as the serial example would, is free of it.

`ReportedAtRest` speaks only of rest; the inductive invariant (`NotifyInvariant`) says at
every step why no change is forgotten (`NotForgotten`): the call is about to report it, or
the flag is set and the test or a pending interrupt will see it, or the host has been told
or is about to be.  It needs that a notification is in one place only (`OnePlace`), so that
a send cannot fail, and that errors are in the state only between two statements
(`ErrorsMasked`), so that clearing them after a send changes nothing.  The data paths share
nothing with it but the word of flags, which is one lemma (`OtherTraffic`).  For the word,
what the client has loaded is still the word when it stores (`WordInHand`).

`UsbRingBuf_proofs` has the lemmas about the indices: what is used and free, what advancing
either index does to it, and where the contiguous block lies.

`UsbTx_proofs`, for every ring and packet size, the handler coming in before every access:

* `TxTypeCorrect`, `TxBusyWhileOnItsWay`, `TxNoByteLeftBehind`, `TxCompleteReportsSent`
  and `TxRefinesQueue` (`Spec => QueueSpec`), assuming `OneCompletion`: the client is not
  interrupted, or the host takes no packet while it stands inside the update of the write
  index (the disagreement above about two completions says why).  They speak of the time
  before the first upset, as the properties of `tx_path` do;
* `TxNeverBusyForNothing` without that assumption, for any number of resets,
  disconnections, configurations and flushes.

The inductive invariant (`TxInvariant`) follows one packet: it is being loaded, being armed,
armed, or taken (`OnePacket`); its bytes are the first in the ring and their number is
`usLastTxSize` (`PacketInv`).  `LocalInv` says what the locals of
`ScheduleNextTransmission` still mean: contiguous and total count were read before the packet
was made, and nobody has moved an index since but the client, who may have left the write
index at `Size`: then the part to send ends with the workspace.  `SomebodySends` is the
argument for `NoByteLeftBehind`: a byte in the ring of an idle endpoint will be seen by a call
that is going on in one of the contexts.  The abstract queue is what is in the ring beyond the
packet the host has taken.

`UsbCdcRx_proofs`, for every size, every choice of break durations, any number of bytes,
requests and restarts, with no assumption:

* `RxTypeCorrect`, `RxEveryByteSomewhere`, `RxPacketRemembered`, `RxClientUpToDate`,
  `RxNoLaterDataFirst`.

The inductive invariant (`RxInvariant`) says that a change waits only with reception blocked
(`Sound`), that nothing the driver was told is neither passed on nor flagged (`Current`),
that the bytes are accounted for (`Arrived`), that a packet has its interrupt or its flag
(`PacketRemembered`), and, until the first restart, that no byte sent after a change has left
the endpoint before it (`Ordered`).  The handlers are functions of `dev`, so each has a lemma
that says what it does to these, and what it does not touch: reception and requests are
separate relations (`Receives`, `Tells`, `Retries`) that compose.

`UsbDevEnum_proofs`, for every packet size, every descriptor and any set of requests, assuming
`Tame`:

* `EnumStages`, `EnumAddressAgreed`, `EnumDataStageExact`.

`Tame` has three parts, and each is there for a disagreement listed above: bus resets come
between transfers (`TidyResets`), no SETUP comes in the handler's window (`~Window`), and class
requests leave room for the answer.  The constants of the run satisfy it.  The invariant is
that a transfer is in one of ten stages (`Stage`), from a request lying in the endpoint through
full packets taken and an armed last one to the status stage; each says what the endpoint
holds, which interrupt is due, how many bytes are gone and where the driver's pointer, or
section and offset, goes on.  `Configured` relates the configuration of host and device.  That
`SectionStart` is the running sum of the sections, and that each byte lies in exactly one, takes
induction, which is done without the library's induction theorems: `LeastNat`, the least
element of a nonempty set of numbers, is one of its theorems without a parameter.

`UsbMscDevice_proofs`, for every chunk size and every set of commands, hence reads and writes of
any length:

* `MscPoolAccounted`: `Spec => []PoolAccounted`, with no assumption, for every pool, wherever medium
  and cable are pulled and whichever allocation fails;
* `MscStatusTells`: `Spec => []StatusTells`, assuming `MediaStable` (the disagreement above
  about `BlockRead` and `BlockWrite` says why; `StalledOut` may be anything, since it only
  costs commands their end).

For the books of the pool (`MscInvariant`) it is not enough that they are right: the handler
leaves SEND_BLOCKS and SEND_STATUS on any interrupt of the IN endpoint, and only
`dmaTxCompletion` frees the run.  So `PoolInv` says that units are in use only in those two
states and that no interrupt, stall or status is due on the endpoint then.

`StatusTells` speaks of an idle host.  `CommandInv` (`MscStages`) says at every step in which of
seven stages a command is: `Free`, none under way or its status taken; `Sent`, in the endpoint;
`Reading`, a chunk on its way; `Answering`, a response on its way; `Receiving`, blocks on their
way to the medium; `Failing`, one endpoint stalled and the status of failure to come;
`StatusDue`, the status in the endpoint.  Each says what endpoints and queues hold, which
interrupt is due, and where the data is: in `Reading` the blocks the host has and those in the
chunk are, one after the other, those from `lba` to the end of the chunk; in `Receiving` the
blocks written, those in the DMA's queue and the one in the endpoint are those sent so far.  What
the host thinks the sense is agrees with the device's from one command to the next (`Knows`).
The handlers are functions of the record `dev`: first come lemmas that say of each function,
field by field, what it does (`QueueIs` to `TaggedIs`), then one per stage and handler.

`UsbHostEnum_proofs`, for every size of packets, descriptors and pool and any number of devices,
removals, stalls, hangs and errors of the bus, assuming `SlowHands` (the first disagreement of
the host above):

* `HostInvariant` and `HostOpensOnWhole`: `Spec => []OpenOnWhole`.

What the host knows of a device builds up in order -- the first eight bytes of the descriptor,
the address, the configuration of this connection -- and is forgotten as a whole (`Known`), and a
connection is only noted while nothing is known (`Connecting`).  That a driver's configuration is
whole needs to be known while it is still being read: `Reading` counts what has come, and
`Answered` says that what the host still waits for is exactly what the device has not sent.  The
one exception is a device that did not take the request and never will, being hung, pulled out
or switched off (`Deaf`): then nothing has come and the transfer can only fail (`Unanswered`).  A
transfer that is left with an error or by its timer takes nothing along into the next, because an
interrupt that is still due then is only possible while nobody can answer (`Endpoint`).

`Cpsw_proofs`, for every number of descriptors, pbufs and frames, for the composition of the
two rings:

* `CpswBuffersSafe`, `CpswFramesInOrder`, `CpswHdpOnlyWhenStopped`, `CpswReceptionGoesOn`,
  `CpswSentInOrder`, `CpswTransmissionGoesOn`, with no assumption: however many pbufs the
  stack keeps and however often the transmit handler gives up.  What `dma.missed` and
  `tx.late` except is in the properties, as the disagreements above say;
* `CpswImplementsRx`: `CpswSpec => Spec`, which lifts what is proved of the receive ring alone.

The descriptors are looked at in the order of the chain from the free head (`Off`): first
those the allocation has filled, then the empty ones, then the frames the handler has not
seen, then those that wait (`Layout`).  The engine is at the first that waits, or stands still
at a tail whose mark says so (`Engine`, `Flow`); the handlers' locals are positions in this
order (`Handlers`).  While a chain is being linked two tails exist, and `Engine` says which the
engine can have seen.  For the composition the pbufs being sent, and those a refused
transmission has lost, are among those the stack keeps (`Kept`), so that freeing one after it
was sent is `FreePbuf` of the receive ring.

For the transmit ring (`TxRingInvariant`) the order begins at the send head: there lie `m` whole
packets, packet `k` from place `q[k - 1]` to before `q[k]`, of which `s` have been sent and not
yet freed.  Where the descriptors of all packets begin and end, which belong to the engine and
which number each last one has, follows from these cuts (`TxLayout`); the engine is at place
`q[s]`, or has stopped behind the last packet, or behind the last but one at a tail that says so
and that the driver is about to look at (`TxEngine`, `TxCheck`).  A packet that is queued adds a
cut, one that is sent moves `s`, one that is freed takes the first cut away and moves the origin
(`LayoutMore`, `LayoutSend`, `LayoutReap`).  That the driver and the engine, which both only
follow `next` until they see `EOP`, find exactly the descriptors between two cuts is
`LinkedInOrder` and `PacketSpans`; the tail is never in a new packet because a packet is shorter
than the ring (`NewPacket`, from `MaxChain < NumTx`).

The theorem modules have no assumption beyond those named here and those of the modules they
extend, which TLC evaluates in the passing runs.

With that, every invariant and every property of single steps that a passing run checks is
stated by a theorem, and so are the refinements.  The inductive invariants were checked by TLC on
small instances before they were proved.

Only model-checked: liveness under fairness (`AllDelivered`, `ChangesMade`, `AllReceived`,
`EventuallyReported`, `EveryTransferEnds`, `CommandsEnd`, `FollowsThePlug`), which is beyond
the prover, and what the three violation runs show.

## 5. Abstractions

* Bytes are stream positions or counts; line coding and line state are the number of the
  request that set them.
* Interrupt handlers do not nest (all handlers of these programs have one priority) and
  run to their end; between two steps of the main loop any number may run.  Entering the
  handler, the arming of endpoints and the host's polling are external and modelled from
  the flags the driver uses.
* The endpoint has one FIFO slot (no double buffering is configured by the serial
  device).  A bus reset empties it; the controller itself is not in the repository.
* The UART's transmit interrupt is taken whenever it is enabled and there is room.
* Endpoint zero delivers as many bytes as it was told to expect, so the length check of
  `HandleEP0Data` succeeds; stalled requests and requests that only read are left out.
* The word access of `SetDeferredOpFlag` is one load and one store (the ARM code for
  `HWREG |=`).
* Endpoint zero of `UsbDevEnum`: a packet is a sequence of places of bytes; the patched copy
  of the header of the configuration descriptor counts as the header.  Setting a
  configuration does to the endpoints what the classes' modules assume.
* Blocks, responses and status blocks of `UsbMscDevice` are records; a completed transfer is
  one interrupt, whether the DMA or the endpoint raises it.
* The look of the Ethernet engine for a next descriptor and its mark are one step, and so is
  sending a packet of several descriptors; the acknowledgement of the interrupt (EOI) is left
  out, so that the interrupt may or may not come again after `TryAgain`.  Of the descriptors
  of a packet only the last keeps the packet's address, since only that is used to free it.
* Time-outs of the host (seven seconds) come only for a device that answers nothing until
  the next bus reset.  Descriptors are what is known of them: where from, and how many
  bytes were read.

## 6. Not modelled, and the plan

Next, in this order:

1. `UsbHostPipes`: blocking transfers, time-outs and interrupts of the host's pipes, with
   the host class drivers on top.
2. `CppiDmaQueues`: descriptors, free list and teardown; host and device as users of one
   pool; the second `Cppi41DmaInit` of `usb_device_host_msc`.
3. `UsbBulkDevice` and the HID device: the deferred-flag pattern without a tick handler,
   report queue and idle timers.
4. The composition of `UsbDevEnum` with `UsbCdcRx`, which assumes its outcome; resets in the
   middle of a transfer.
5. `mmcsdlib`, `nandlib` and the boot loader's X-modem, where a protocol is worth a
   model.

Left out for good: register-level drivers without state of their own, pin multiplexing
and board code, host-side tools, examples other than those named, and vendored
libraries (lwIP, FatFs).
