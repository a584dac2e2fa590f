----------------------------- MODULE UsbCdcNotify -----------------------------
(***************************************************************************)
(* Serial-state notifications of the serial device (usblib/device/usbdcdc.c):*)
(* the client reports line states and errors with USBDCDCSerialStateChange,  *)
(* the driver sends them on the interrupt IN endpoint, one at a time, and     *)
(* remembers in usDeferredOpFlags that more is to be sent.                   *)
(*                                                                         *)
(* The client's call takes one step per statement on state it shares with    *)
(* the USB interrupt, and two for SetDeferredOpFlag.  Bit-banding is          *)
(* disabled, so it loads and stores a whole word: HWREG, 32 bits, that is     *)
(* usDeferredOpFlags and the member after it, usLastTxSize.  Of the data      *)
(* paths only what they keep in that word appears here; see UsbCdcRx, UsbTx.  *)
(***************************************************************************)
EXTENDS Naturals, FiniteSets

CONSTANTS
  Lines,        \* the steady signals: TXCARRIER, RXCARRIER, BREAK, RI
  Errors,       \* USB_CDC_SERIAL_ERRORS
  Preempt,      \* whether the USB interrupt may interrupt the client's call
  MaxChanges,   \* bound on the client's calls
  MaxPackets,   \* bound on the data packets, in both directions together
  MaxConfigs   \* bound on new configurations

ASSUME NotifyAssumption ==
  /\ IsFiniteSet(Lines) /\ IsFiniteSet(Errors) /\ Lines \cap Errors = {}
  /\ Preempt \in BOOLEAN
  /\ MaxChanges \in Nat /\ MaxPackets \in Nat /\ MaxConfigs \in Nat

VARIABLES
  usSerialState, eCDCInterruptState,  \* tCDCSerInstance
  deferred, usLastTxSize,  \* ... the two halves of the word: the flags, and
                           \* the bytes of the data packet on its way to the host
  loaded, afterStore,      \* SetDeferredOpFlag: the word loaded, where it returns
  pc, usState,             \* the client's call and its argument
  fifo, txPktRdy, txIrq,   \* the interrupt IN endpoint
  packet, txPacket,        \* a packet waits in the bulk OUT endpoint; one is
                           \* in the bulk IN endpoint
  changes, packets, configs,
  hostState                \* what the host has last been told

word     == <<deferred, usLastTxSize>>
driver   == <<usSerialState, eCDCInterruptState, word>>
call     == <<loaded, afterStore, pc, usState>>
endpoint == <<fifo, txPktRdy, txIrq>>
data     == <<packet, txPacket>>
bounds   == <<changes, packets, configs>>
notifyVars == <<driver, call, endpoint, data, bounds, hostState>>

Bits == Lines \cup Errors
Flags == {"SERIAL_STATE_CHANGE", "PACKET_RX"}
NoWord == [flags |-> {}, size |-> 0]

NotifyInit ==
  /\ usSerialState = {} /\ eCDCInterruptState = "IDLE"
  /\ deferred = {} /\ usLastTxSize = 0
  /\ loaded = NoWord /\ afterStore = "idle" /\ pc = "idle" /\ usState = {}
  /\ fifo = {} /\ txPktRdy = FALSE /\ txIrq = FALSE /\ packet = FALSE /\ txPacket = FALSE
  /\ changes = 0 /\ packets = 0 /\ configs = 0
  /\ hostState = {}

-----------------------------------------------------------------------------
(* USBDCDCSerialStateChange, called by the client.                         *)

CallSerialStateChange ==
  /\ pc = "idle" /\ changes < MaxChanges
  /\ usState' \in SUBSET Bits
  /\ pc' = "or_errors" /\ changes' = changes + 1
  /\ UNCHANGED <<driver, loaded, afterStore, endpoint, data, packets, configs,
                 hostState>>

UNCHANGED_ByCall == UNCHANGED <<usState, endpoint, data, bounds, hostState>>

OrErrors ==
  /\ pc = "or_errors"
  /\ usSerialState' = usSerialState \cup (usState \cap Errors)
  /\ pc' = "mask_errors"
  /\ UNCHANGED <<word, eCDCInterruptState, loaded, afterStore>>
  /\ UNCHANGED_ByCall

MaskErrors ==
  /\ pc = "mask_errors"
  /\ usSerialState' = usSerialState \ Errors
  /\ pc' = "or_lines"
  /\ UNCHANGED <<word, eCDCInterruptState, loaded, afterStore>>
  /\ UNCHANGED_ByCall

OrLines ==
  /\ pc = "or_lines"
  /\ usSerialState' = usSerialState \cup (usState \ Errors)
  /\ pc' = "load" /\ afterStore' = "test"
  /\ UNCHANGED <<word, eCDCInterruptState, loaded>>
  /\ UNCHANGED_ByCall

\* SetDeferredOpFlag: load the word ...
LoadFlags ==
  /\ pc = "load"
  /\ loaded' = [flags |-> deferred, size |-> usLastTxSize]
  /\ pc' = "store"
  /\ UNCHANGED <<driver, afterStore>>
  /\ UNCHANGED_ByCall

\* ... and store it with the flag set, on the way to the test of the state, or
\* cleared, on the way to sending.
StoreFlags ==
  /\ pc = "store"
  /\ deferred' = IF afterStore = "test"
                   THEN loaded.flags \cup {"SERIAL_STATE_CHANGE"}
                   ELSE loaded.flags \ {"SERIAL_STATE_CHANGE"}
  /\ usLastTxSize' = loaded.size
  /\ loaded' = NoWord
  /\ pc' = afterStore
  /\ UNCHANGED <<usSerialState, eCDCInterruptState, afterStore>>
  /\ UNCHANGED_ByCall

\* Mutant: the state is not tested.
TestIdle_Always ==
  /\ pc = "test"
  /\ eCDCInterruptState' = "WAIT_DATA" /\ pc' = "load" /\ afterStore' = "send"
  /\ UNCHANGED <<usSerialState, word, loaded>>
  /\ UNCHANGED_ByCall

TestIdle ==
  /\ pc = "test"
  /\ IF eCDCInterruptState = "IDLE"
       THEN eCDCInterruptState' = "WAIT_DATA" /\ pc' = "load" /\ afterStore' = "send"
       ELSE pc' = "idle" /\ UNCHANGED <<eCDCInterruptState, afterStore>>
  /\ UNCHANGED <<usSerialState, word, loaded>>
  /\ UNCHANGED_ByCall

\* Mutant: the endpoint is not armed.
PutAndSend_NotArmed ==
  /\ eCDCInterruptState' = "WAIT_DATA"
  /\ fifo' = usSerialState
  /\ usSerialState' = usSerialState \ Errors
  /\ UNCHANGED txPktRdy

\* SendSerialState once the flag is cleared: the put and the send fail when
\* the endpoint is still armed.
PutAndSend ==
  IF txPktRdy
    THEN /\ eCDCInterruptState' = "IDLE"
         /\ UNCHANGED <<usSerialState, fifo, txPktRdy>>
    ELSE /\ eCDCInterruptState' = "WAIT_DATA"
         /\ fifo' = usSerialState /\ txPktRdy' = TRUE
         /\ usSerialState' = usSerialState \ Errors

SendFromCall ==
  /\ pc = "send"
  /\ PutAndSend
  /\ pc' = "idle"
  /\ UNCHANGED <<word, loaded, afterStore, usState, txIrq, data, bounds, hostState>>

ClientCall == \/ OrErrors \/ MaskErrors \/ OrLines \/ LoadFlags \/ StoreFlags
              \/ TestIdle \/ SendFromCall

-----------------------------------------------------------------------------
(* The USB interrupt.                                                      *)

Interruptible == Preempt \/ pc = "idle"

\* Mutants of ProcessNotificationToHost: a change made in the meantime is
\* forgotten; the channel is not freed.
ProcessNotificationToHost_Forgets ==
  /\ Interruptible /\ txIrq
  /\ txIrq' = FALSE /\ eCDCInterruptState' = "IDLE"
  /\ UNCHANGED <<usSerialState, word, fifo, txPktRdy, call, data, bounds,
                 hostState>>
ProcessNotificationToHost_StaysBusy ==
  /\ Interruptible /\ txIrq
  /\ txIrq' = FALSE
  /\ IF "SERIAL_STATE_CHANGE" \in deferred
       THEN deferred' = deferred \ {"SERIAL_STATE_CHANGE"} /\ PutAndSend
       ELSE UNCHANGED <<usSerialState, eCDCInterruptState, deferred, fifo, txPktRdy>>
  /\ UNCHANGED <<usLastTxSize, call, data, bounds, hostState>>

ProcessNotificationToHost ==
  /\ Interruptible /\ txIrq
  /\ txIrq' = FALSE
  /\ IF "SERIAL_STATE_CHANGE" \in deferred
       THEN deferred' = deferred \ {"SERIAL_STATE_CHANGE"} /\ PutAndSend
       ELSE /\ eCDCInterruptState' = "IDLE"
            /\ UNCHANGED <<usSerialState, deferred, fifo, txPktRdy>>
  /\ UNCHANGED <<usLastTxSize, call, data, bounds, hostState>>

NotifyConfigChange ==
  /\ Interruptible /\ configs < MaxConfigs
  /\ eCDCInterruptState' = "IDLE"
  /\ configs' = configs + 1
  /\ UNCHANGED <<usSerialState, word, endpoint, call, data, changes, packets,
                 hostState>>

\* ProcessDataFromHost finds the client without room: the packet stays in the
\* endpoint and is remembered ...
RememberPacket ==
  /\ Interruptible /\ ~packet /\ packets < MaxPackets
  /\ packet' = TRUE /\ packets' = packets + 1
  /\ deferred' = deferred \cup {"PACKET_RX"}
  /\ UNCHANGED <<usSerialState, eCDCInterruptState, usLastTxSize, txPacket,
                 endpoint, call, changes, configs, hostState>>

\* ... and CDCTickHandler offers it again until it is read.  The tick does
\* nothing about the serial state.
TickReadsPacket ==
  /\ Interruptible /\ "PACKET_RX" \in deferred
  /\ packet' = FALSE
  /\ deferred' = deferred \ {"PACKET_RX"}
  /\ UNCHANGED <<usSerialState, eCDCInterruptState, usLastTxSize, txPacket,
                 endpoint, call, bounds, hostState>>

\* USBDCDCPacketWrite counts the bytes of a packet (here 1) ...
PacketWrite ==
  /\ Interruptible /\ ~txPacket /\ packets < MaxPackets
  /\ txPacket' = TRUE /\ packets' = packets + 1
  /\ usLastTxSize' = usLastTxSize + 1
  /\ UNCHANGED <<usSerialState, eCDCInterruptState, deferred, packet, endpoint,
                 call, changes, configs, hostState>>

\* ... and ProcessDataToHost takes the count when the host has the packet.
ProcessDataToHost ==
  /\ Interruptible /\ txPacket
  /\ txPacket' = FALSE
  /\ usLastTxSize' = 0
  /\ UNCHANGED <<usSerialState, eCDCInterruptState, deferred, packet, endpoint,
                 call, bounds, hostState>>

NotifyInterrupt == \/ ProcessNotificationToHost \/ NotifyConfigChange
                \/ RememberPacket \/ TickReadsPacket
                \/ PacketWrite \/ ProcessDataToHost

\* The host polls the interrupt endpoint.
HostPolls ==
  /\ txPktRdy
  /\ hostState' = fifo
  /\ fifo' = {} /\ txPktRdy' = FALSE /\ txIrq' = TRUE
  /\ UNCHANGED <<driver, call, data, bounds>>

NotifyNext == CallSerialStateChange \/ ClientCall \/ NotifyInterrupt \/ HostPolls

NotifySpec == NotifyInit /\ [][NotifyNext]_notifyVars

\* A call goes on, the host polls, and a pending interrupt, which stays
\* pending, is taken.
NotifyFairSpec == /\ NotifySpec /\ WF_notifyVars(ClientCall) /\ WF_notifyVars(HostPolls)
               /\ SF_notifyVars(ProcessNotificationToHost)
-----------------------------------------------------------------------------

(***************************************************************************)
(* Properties.                                                             *)
(***************************************************************************)

\* Every variable stays in its range, and what is in the FIFO is on its way.
NotifyTypeOK ==
  /\ usSerialState \subseteq Bits
  /\ deferred \subseteq Flags /\ usLastTxSize \in 0 .. MaxPackets
  /\ loaded \in [flags : SUBSET Flags, size : 0 .. MaxPackets]
  /\ eCDCInterruptState \in {"IDLE", "WAIT_DATA"}
  /\ fifo \subseteq Bits /\ (fifo # {} => txPktRdy)
  /\ txPktRdy \in BOOLEAN /\ txIrq \in BOOLEAN
  /\ packet \in BOOLEAN /\ txPacket \in BOOLEAN
  /\ pc \in {"idle", "or_errors", "mask_errors", "or_lines", "load", "store",
             "test", "send"}

\* Until a new configuration intervenes, the channel is busy from the moment a
\* notification is begun until its interrupt is handled, and then only: two are
\* never on their way at once.
Undisturbed == configs = 0
Sending == afterStore = "send" /\ pc \in {"load", "store", "send"}
BusyWhileNotifying ==
  Undisturbed =>
    (eCDCInterruptState = "WAIT_DATA" <=> (txPktRdy \/ txIrq \/ Sending))

\* With new configurations at any time: the channel is never left busy with
\* nothing on its way to free it.
NeverBusyForNothing ==
  eCDCInterruptState = "WAIT_DATA" => txPktRdy \/ txIrq \/ Sending

\* When everybody has come to rest the host knows the driver's state: between
\* a call that finds the channel busy and an interrupt that finds no flag,
\* neither leaves a change to be sent by nobody.
AtRest == pc = "idle" /\ ~txPktRdy /\ ~txIrq
ReportedAtRest == AtRest /\ Undisturbed => hostState = usSerialState

\* The host always comes to know the driver's state.
EventuallyReported == []<>(Undisturbed => hostState = usSerialState)

\* What the interrupt has written to the word stays: a packet that waits in the
\* endpoint is remembered for the tick, and the bytes of the packet that is on
\* its way to the host, and no others, are counted.
WordKept ==
  /\ packet => "PACKET_RX" \in deferred
  /\ usLastTxSize = IF txPacket THEN 1 ELSE 0
=============================================================================
