---------------------------- MODULE UsbCdcRx_proofs ----------------------------
(***************************************************************************)
(* The serial device.  First its notifications, for every set of signals and *)
(* any number of calls, packets and new configurations: the channel is never *)
(* left busy with nothing on its way, and, until the first new configuration, *)
(* two notifications never overlap and the host is never left with an old     *)
(* state.  Then its receive path and the deferred requests, for every size of *)
(* ring, packet and UART, every choice of break durations and any number of   *)
(* bytes, requests and restarts.                                            *)
(***************************************************************************)
EXTENDS UsbCdcRx, UsbCdcNotify, UsbRingBuf_proofs

-----------------------------------------------------------------------------
(* Notifications.                                                           *)

\* What the bounds say of the counters and of the word, and the call's argument.
Ranges ==
  /\ packets \in 0 .. MaxPackets /\ configs \in Nat
  /\ usLastTxSize <= packets /\ loaded.size <= packets
  /\ usState \subseteq Bits

\* SetDeferredOpFlag returns to the test or to the sending.
Returns ==
  /\ pc \in {"load", "store"} => afterStore \in {"test", "send"}
  /\ pc = "send" => afterStore = "send"

\* A notification is in the call, in the FIFO or in the pending interrupt: in
\* one place.
OnePlace ==
  Undisturbed => /\ ~(txPktRdy /\ txIrq)
                 /\ Sending => ~txPktRdy /\ ~txIrq

\* Errors are in the state only between two statements of the call.
ErrorsMasked == pc # "mask_errors" => usSerialState \cap Errors = {}

\* What the host has been told, or is about to be told, is the state.
Informed == IF txPktRdy THEN fifo = usSerialState ELSE hostState = usSerialState

\* Why no change is forgotten: the call is about to report it, or the flag is
\* set and somebody will look at it, or the state has been told.
CallWillReport == pc \in {"or_errors", "mask_errors", "or_lines", "load", "store", "send"}
FlagWillReport ==
  "SERIAL_STATE_CHANGE" \in deferred /\ (pc = "test" \/ txPktRdy \/ txIrq)
NotForgotten == Undisturbed => CallWillReport \/ FlagWillReport \/ Informed

\* The inductive invariant of serial-state notification.
NotifyInv == /\ NotifyTypeOK /\ Ranges /\ Returns
        /\ NeverBusyForNothing /\ BusyWhileNotifying /\ OnePlace
        /\ ErrorsMasked /\ NotForgotten

-----------------------------------------------------------------------------

\* The initial state satisfies the invariant.
LEMMA NotifyInitInvariant == NotifyInit => NotifyInv
<1> SUFFICES ASSUME NotifyInit PROVE NotifyInv
  OBVIOUS
<1> USE DEF NotifyInit
<1>1. NotifyTypeOK
  <2>1. loaded \in [flags : SUBSET Flags, size : 0 .. MaxPackets]
    BY NotifyAssumption DEF NoWord
  <2>2. txPktRdy \in BOOLEAN /\ txIrq \in BOOLEAN /\ packet \in BOOLEAN /\ txPacket \in BOOLEAN
    OBVIOUS
  <2> QED BY <2>1, <2>2, NotifyAssumption DEF NotifyTypeOK
<1>2. Ranges /\ Returns
  BY NotifyAssumption DEF Ranges, Returns, NoWord
<1>3. NeverBusyForNothing /\ BusyWhileNotifying /\ OnePlace
  BY DEF NeverBusyForNothing, BusyWhileNotifying, OnePlace, Sending
<1>4. ErrorsMasked /\ NotForgotten
  BY DEF ErrorsMasked, NotForgotten, Informed
<1> QED BY <1>1, <1>2, <1>3, <1>4 DEF NotifyInv

\* A step that leaves the call, the channel and the flag of the serial state
\* alone keeps all that is said of them: the data paths share only the word.
LEMMA OtherTraffic ==
  ASSUME NotifyInv, NotifyTypeOK', Ranges',
         UNCHANGED <<usSerialState, eCDCInterruptState, afterStore, pc, endpoint,
                     configs, hostState>>,
         "SERIAL_STATE_CHANGE" \in deferred => "SERIAL_STATE_CHANGE" \in deferred'
  PROVE  NotifyInv'
<1>1. Returns' /\ ErrorsMasked'
  BY DEF NotifyInv, Returns, ErrorsMasked
<1>2. NeverBusyForNothing' /\ BusyWhileNotifying' /\ OnePlace'
  BY DEF NotifyInv, NeverBusyForNothing, BusyWhileNotifying, OnePlace, Sending,
     Undisturbed,
         endpoint
<1>3. NotForgotten'
  BY DEF NotifyInv, NotForgotten, CallWillReport, FlagWillReport, Informed, Undisturbed,
     endpoint
<1> QED BY <1>1, <1>2, <1>3 DEF NotifyInv

\* Every step keeps the invariant.
LEMMA NotifyNextInvariant == NotifyInv /\ [NotifyNext]_notifyVars => NotifyInv'
<1> SUFFICES ASSUME NotifyInv, [NotifyNext]_notifyVars PROVE NotifyInv'
  OBVIOUS
<1> USE NotifyAssumption DEF UNCHANGED_ByCall, driver, word, call, endpoint, data,
   bounds
<1>0. /\ NotifyTypeOK /\ Ranges /\ Returns /\ NeverBusyForNothing
      /\ BusyWhileNotifying /\ OnePlace /\ ErrorsMasked /\ NotForgotten
  BY DEF NotifyInv
<1>1. CASE CallSerialStateChange
  <2>1. NotifyTypeOK' /\ Ranges'
    BY <1>0, <1>1 DEF CallSerialStateChange, NotifyTypeOK, Ranges
  <2>2. Returns' /\ ErrorsMasked'
    BY <1>0, <1>1 DEF CallSerialStateChange, Returns, ErrorsMasked
  <2>3. NeverBusyForNothing' /\ BusyWhileNotifying' /\ OnePlace'
    BY <1>0, <1>1 DEF CallSerialStateChange, NeverBusyForNothing,
       BusyWhileNotifying, OnePlace, Sending, Undisturbed
  <2>4. NotForgotten'
    BY <1>0, <1>1 DEF CallSerialStateChange, NotForgotten, CallWillReport
  <2> QED BY <2>1, <2>2, <2>3, <2>4 DEF NotifyInv
<1>2. CASE OrErrors
  <2>1. NotifyTypeOK' /\ Ranges'
    BY <1>0, <1>2 DEF OrErrors, NotifyTypeOK, Ranges
  <2>2. Returns' /\ ErrorsMasked'
    BY <1>0, <1>2 DEF OrErrors, Returns, ErrorsMasked
  <2>3. NeverBusyForNothing' /\ BusyWhileNotifying' /\ OnePlace'
    BY <1>0, <1>2 DEF OrErrors, NeverBusyForNothing, BusyWhileNotifying, OnePlace,
       Sending, Undisturbed
  <2>4. NotForgotten'
    BY <1>0, <1>2 DEF OrErrors, NotForgotten, CallWillReport
  <2> QED BY <2>1, <2>2, <2>3, <2>4 DEF NotifyInv
<1>3. CASE MaskErrors
  <2>1. NotifyTypeOK' /\ Ranges'
    BY <1>0, <1>3 DEF MaskErrors, NotifyTypeOK, Ranges
  <2>2. Returns' /\ ErrorsMasked'
    BY <1>0, <1>3 DEF MaskErrors, Returns, ErrorsMasked
  <2>3. NeverBusyForNothing' /\ BusyWhileNotifying' /\ OnePlace'
    BY <1>0, <1>3 DEF MaskErrors, NeverBusyForNothing, BusyWhileNotifying, OnePlace,
       Sending, Undisturbed
  <2>4. NotForgotten'
    BY <1>0, <1>3 DEF MaskErrors, NotForgotten, CallWillReport
  <2> QED BY <2>1, <2>2, <2>3, <2>4 DEF NotifyInv
<1>4. CASE OrLines
  <2>1. NotifyTypeOK' /\ Ranges'
    BY <1>0, <1>4 DEF OrLines, NotifyTypeOK, Ranges
  <2>2. Returns' /\ ErrorsMasked'
    BY <1>0, <1>4 DEF OrLines, Returns, ErrorsMasked
  <2>3. NeverBusyForNothing' /\ BusyWhileNotifying' /\ OnePlace'
    BY <1>0, <1>4 DEF OrLines, NeverBusyForNothing, BusyWhileNotifying, OnePlace,
       Sending, Undisturbed
  <2>4. NotForgotten'
    BY <1>0, <1>4 DEF OrLines, NotForgotten, CallWillReport
  <2> QED BY <2>1, <2>2, <2>3, <2>4 DEF NotifyInv
<1>5. CASE LoadFlags
  <2>1. NotifyTypeOK' /\ Ranges'
    BY <1>0, <1>5 DEF LoadFlags, NotifyTypeOK, Ranges
  <2>2. Returns' /\ ErrorsMasked'
    BY <1>0, <1>5 DEF LoadFlags, Returns, ErrorsMasked
  <2>3. NeverBusyForNothing' /\ BusyWhileNotifying' /\ OnePlace'
    BY <1>0, <1>5 DEF LoadFlags, NeverBusyForNothing, BusyWhileNotifying, OnePlace,
       Sending, Undisturbed
  <2>4. NotForgotten'
    BY <1>0, <1>5 DEF LoadFlags, NotForgotten, CallWillReport
  <2> QED BY <2>1, <2>2, <2>3, <2>4 DEF NotifyInv
<1>6. CASE StoreFlags
  <2>1. NotifyTypeOK' /\ Ranges'
    <3>1. loaded.flags \subseteq Flags /\ loaded.size \in 0 .. MaxPackets
      BY <1>0 DEF NotifyTypeOK
    <3>2. loaded' \in [flags : SUBSET Flags, size : 0 .. MaxPackets] /\ loaded'.size = 0
      BY <1>6 DEF StoreFlags, NoWord
    <3> QED BY <1>0, <1>6, <3>1, <3>2 DEF StoreFlags, NotifyTypeOK, Ranges, Returns, Flags
  <2>2. Returns' /\ ErrorsMasked'
    BY <1>0, <1>6 DEF StoreFlags, Returns, ErrorsMasked
  <2>3. NeverBusyForNothing' /\ BusyWhileNotifying' /\ OnePlace'
    BY <1>0, <1>6 DEF StoreFlags, NeverBusyForNothing, BusyWhileNotifying, OnePlace,
       Sending, Undisturbed
  <2>4. NotForgotten'
    BY <1>0, <1>6 DEF StoreFlags, NotForgotten, CallWillReport, FlagWillReport,
       Returns
  <2> QED BY <2>1, <2>2, <2>3, <2>4 DEF NotifyInv
<1>7. CASE TestIdle
  <2>1. NotifyTypeOK' /\ Ranges'
    BY <1>0, <1>7 DEF TestIdle, NotifyTypeOK, Ranges
  <2>2. Returns' /\ ErrorsMasked'
    BY <1>0, <1>7 DEF TestIdle, Returns, ErrorsMasked
  <2>3. NeverBusyForNothing' /\ BusyWhileNotifying' /\ OnePlace'
    BY <1>0, <1>7 DEF TestIdle, NeverBusyForNothing, BusyWhileNotifying, OnePlace,
       Sending, Undisturbed
  <2>4. NotForgotten'
    BY <1>0, <1>7 DEF TestIdle, NotifyTypeOK, NotForgotten, CallWillReport,
       FlagWillReport, Informed, Undisturbed, BusyWhileNotifying, Sending
  <2> QED BY <2>1, <2>2, <2>3, <2>4 DEF NotifyInv
<1>8. CASE SendFromCall
  <2>1. NotifyTypeOK' /\ Ranges'
    BY <1>0, <1>8 DEF SendFromCall, PutAndSend, NotifyTypeOK, Ranges
  <2>2. Returns' /\ ErrorsMasked'
    BY <1>0, <1>8 DEF SendFromCall, PutAndSend, Returns, ErrorsMasked
  <2>3. NeverBusyForNothing' /\ BusyWhileNotifying' /\ OnePlace'
    BY <1>0, <1>8 DEF SendFromCall, PutAndSend, Returns, NeverBusyForNothing,
       BusyWhileNotifying, OnePlace, Sending, Undisturbed
  <2>4. NotForgotten'
    BY <1>0, <1>8 DEF SendFromCall, PutAndSend, NotForgotten, Informed, Undisturbed,
       Returns, ErrorsMasked, OnePlace, Sending
  <2> QED BY <2>1, <2>2, <2>3, <2>4 DEF NotifyInv
<1>9. CASE ProcessNotificationToHost
  <2>1. NotifyTypeOK' /\ Ranges'
    BY <1>0, <1>9 DEF ProcessNotificationToHost, PutAndSend, NotifyTypeOK, Ranges
  <2>2. Returns' /\ ErrorsMasked'
    BY <1>0, <1>9 DEF ProcessNotificationToHost, PutAndSend, Returns, ErrorsMasked
  <2>3. NeverBusyForNothing' /\ BusyWhileNotifying' /\ OnePlace'
    BY <1>0, <1>9 DEF ProcessNotificationToHost, PutAndSend, NeverBusyForNothing,
       BusyWhileNotifying, OnePlace, Sending, Undisturbed
  <2>4. NotForgotten'
    BY <1>0, <1>9 DEF ProcessNotificationToHost, PutAndSend, NotForgotten,
       CallWillReport, FlagWillReport, Informed, Undisturbed, ErrorsMasked, OnePlace
  <2> QED BY <2>1, <2>2, <2>3, <2>4 DEF NotifyInv
<1>10. CASE NotifyConfigChange
  <2>1. NotifyTypeOK' /\ Ranges'
    BY <1>0, <1>10 DEF NotifyConfigChange, NotifyTypeOK, Ranges
  <2>2. Returns' /\ ErrorsMasked'
    BY <1>0, <1>10 DEF NotifyConfigChange, Returns, ErrorsMasked
  <2>3. NeverBusyForNothing' /\ BusyWhileNotifying' /\ OnePlace'
    BY <1>0, <1>10 DEF NotifyConfigChange, Ranges, NeverBusyForNothing,
       BusyWhileNotifying, OnePlace, Undisturbed
  <2>4. NotForgotten'
    BY <1>0, <1>10 DEF NotifyConfigChange, Ranges, NotForgotten, Undisturbed
  <2> QED BY <2>1, <2>2, <2>3, <2>4 DEF NotifyInv
<1>11. CASE RememberPacket
  <2>1. NotifyTypeOK' /\ Ranges'
    BY <1>0, <1>11 DEF RememberPacket, NotifyTypeOK, Ranges, Flags
  <2> QED BY <1>11, <2>1, OtherTraffic DEF RememberPacket
<1>12. CASE TickReadsPacket
  <2>1. NotifyTypeOK' /\ Ranges'
    BY <1>0, <1>12 DEF TickReadsPacket, NotifyTypeOK, Ranges
  <2> QED BY <1>12, <2>1, OtherTraffic DEF TickReadsPacket
<1>13. CASE PacketWrite
  <2>1. NotifyTypeOK' /\ Ranges'
    BY <1>0, <1>13 DEF PacketWrite, NotifyTypeOK, Ranges
  <2> QED BY <1>13, <2>1, OtherTraffic DEF PacketWrite
<1>14. CASE ProcessDataToHost
  <2>1. NotifyTypeOK' /\ Ranges'
    <3>1. txPacket' \in BOOLEAN
      BY <1>14 DEF ProcessDataToHost
    <3> QED BY <1>0, <1>14, <3>1 DEF ProcessDataToHost, NotifyTypeOK, Ranges
  <2> QED BY <1>14, <2>1, OtherTraffic DEF ProcessDataToHost
<1>15. CASE HostPolls
  <2>1. NotifyTypeOK' /\ Ranges'
    BY <1>0, <1>15 DEF HostPolls, NotifyTypeOK, Ranges
  <2>2. Returns' /\ ErrorsMasked'
    BY <1>0, <1>15 DEF HostPolls, Returns, ErrorsMasked
  <2>3. NeverBusyForNothing' /\ BusyWhileNotifying' /\ OnePlace'
    BY <1>0, <1>15 DEF HostPolls, NeverBusyForNothing, BusyWhileNotifying, OnePlace,
       Sending, Undisturbed
  <2>4. NotForgotten'
    BY <1>0, <1>15 DEF HostPolls, NotForgotten, CallWillReport, FlagWillReport,
       Informed, Undisturbed
  <2> QED BY <2>1, <2>2, <2>3, <2>4 DEF NotifyInv
<1>16. CASE UNCHANGED notifyVars
  <2>1. NotifyTypeOK' /\ Ranges'
    BY <1>0, <1>16 DEF notifyVars, NotifyTypeOK, Ranges
  <2> QED BY <1>16, <2>1, OtherTraffic DEF notifyVars
<1> QED
  BY <1>1, <1>2, <1>3, <1>4, <1>5, <1>6, <1>7, <1>8,
     <1>9, <1>10, <1>11, <1>12, <1>13, <1>14, <1>15, <1>16 DEF NotifyNext, ClientCall,
        NotifyInterrupt

-----------------------------------------------------------------------------

\* The invariant of serial-state notification (usbdcdc.c:2915-2949, 1004-1067).
THEOREM NotifyInvariant == NotifySpec => []NotifyInv
  BY NotifyInitInvariant, NotifyNextInvariant, PTL DEF NotifySpec

\* The driver's state, the endpoint and the shared word stay in their ranges even
\* when SetDeferredOpFlag (usbdcdc.c) stores an old word over a new one.
THEOREM NotifyTypeCorrect == NotifySpec => []NotifyTypeOK
<1>1. NotifyInv => NotifyTypeOK
  BY DEF NotifyInv
<1> QED BY <1>1, NotifyInvariant, PTL

\* Until the first new configuration USBDCDCSerialStateChange and
\* ProcessNotificationToHost never have two notifications on their way.
THEOREM NotifyOneAtATime == NotifySpec => []BusyWhileNotifying
<1>1. NotifyInv => BusyWhileNotifying
  BY DEF NotifyInv
<1> QED BY <1>1, NotifyInvariant, PTL

\* Whatever configurations intervene, the channel is busy only when the call
\* or an interrupt to come will free it.
THEOREM NotifyNeverStuck == NotifySpec => []NeverBusyForNothing
<1>1. NotifyInv => NeverBusyForNothing
  BY DEF NotifyInv
<1> QED BY <1>1, NotifyInvariant, PTL

\* Until the first new configuration a change that USBDCDCSerialStateChange records
\* while the channel is busy is never left to nobody, wherever the interrupt falls
\* between the statements of the call.
THEOREM NotifyReported == NotifySpec => []ReportedAtRest
<1>1. NotifyInv => ReportedAtRest
  BY DEF NotifyInv, NotForgotten, CallWillReport, FlagWillReport, Informed, ReportedAtRest,
         AtRest
<1> QED BY <1>1, NotifyInvariant, PTL
-----------------------------------------------------------------------------

\* Between load and store the client holds the word as it is.
WordInHand == pc = "store" => loaded = [flags |-> deferred, size |-> usLastTxSize]

\* A step of the client's call that does not store changes nothing of the word.
LEMMA CallLeavesWord ==
  ASSUME WordKept, WordInHand, UNCHANGED <<word, data>>,
         pc' # "store" \/ loaded' = [flags |-> deferred, size |-> usLastTxSize]
  PROVE  (WordKept /\ WordInHand)'
  BY DEF WordKept, WordInHand, word, data

\* Every step keeps the word if no interrupt comes between load and store.
LEMMA WordStep ==
  ASSUME Preempt = FALSE, NotifyInv, WordKept, WordInHand, [NotifyNext]_notifyVars
  PROVE  (WordKept /\ WordInHand)'
<1> USE DEF UNCHANGED_ByCall, driver, word, call, data
<1>1. CASE CallSerialStateChange \/ OrErrors \/ MaskErrors \/ OrLines \/ LoadFlags
  BY <1>1, CallLeavesWord
  DEF CallSerialStateChange, OrErrors, MaskErrors, OrLines, LoadFlags
<1>2. CASE StoreFlags
  <2>1. deferred' \ {"SERIAL_STATE_CHANGE"} = deferred \ {"SERIAL_STATE_CHANGE"}
    BY <1>2 DEF StoreFlags, WordInHand
  <2>2. "PACKET_RX" \in deferred <=> "PACKET_RX" \in deferred'
    BY <2>1
  <2>3. usLastTxSize' = usLastTxSize /\ packet' = packet /\ txPacket' = txPacket
    BY <1>2 DEF StoreFlags, WordInHand
  <2>4. WordInHand'
    BY <1>2 DEF StoreFlags, WordInHand, NotifyInv, Returns
  <2>5. packet => "PACKET_RX" \in deferred
    BY DEF WordKept
  <2>6. usLastTxSize = IF txPacket THEN 1 ELSE 0
    BY DEF WordKept
  <2>7. packet' => "PACKET_RX" \in deferred'
    BY <2>2, <2>3, <2>5
  <2>8. usLastTxSize' = IF txPacket' THEN 1 ELSE 0
    BY <2>3, <2>6
  <2> QED BY <2>4, <2>7, <2>8 DEF WordKept
<1>3. CASE TestIdle \/ SendFromCall
  BY <1>3, CallLeavesWord DEF TestIdle, SendFromCall
<1>4. CASE NotifyInterrupt
  <2>1. pc = "idle" /\ pc' = "idle"
    BY <1>4 DEF NotifyInterrupt, Interruptible, ProcessNotificationToHost,
       NotifyConfigChange, RememberPacket, TickReadsPacket, PacketWrite,
       ProcessDataToHost
  <2>2. CASE ProcessNotificationToHost
    BY <2>2, <2>1 DEF ProcessNotificationToHost, WordKept, WordInHand
  <2>3. CASE NotifyConfigChange
    BY <2>3, <2>1 DEF NotifyConfigChange, WordKept, WordInHand
  <2>4. CASE RememberPacket
    BY <2>4, <2>1 DEF RememberPacket, WordKept, WordInHand
  <2>5. CASE TickReadsPacket
    BY <2>5, <2>1 DEF TickReadsPacket, WordKept, WordInHand
  <2>6. CASE PacketWrite
    BY <2>6, <2>1 DEF PacketWrite, WordKept, WordInHand
  <2>7. CASE ProcessDataToHost
    BY <2>7, <2>1 DEF ProcessDataToHost, WordKept, WordInHand
  <2> QED BY <1>4, <2>2, <2>3, <2>4, <2>5, <2>6, <2>7 DEF NotifyInterrupt
<1>5. CASE HostPolls \/ UNCHANGED notifyVars
  BY <1>5 DEF HostPolls, notifyVars, WordKept, WordInHand
<1> QED
  BY <1>1, <1>2, <1>3, <1>4, <1>5 DEF NotifyNext, ClientCall

\* The word of usDeferredOpFlags and usLastTxSize would be kept if the interrupt
\* could not come between the load and the store of SetDeferredOpFlag: nothing else
\* in the driver undoes what it has written (usbdcdc.c:638-660).
THEOREM NotifyWordKept ==
  ASSUME Preempt = FALSE
  PROVE  NotifySpec => []WordKept
<1>1. NotifyInit => WordKept /\ WordInHand
  BY DEF NotifyInit, WordKept, WordInHand
<1>2. NotifyInv /\ WordKept /\ WordInHand /\ [NotifyNext]_notifyVars =>
       (WordKept /\ WordInHand)'
  BY WordStep
<1> QED BY <1>1, <1>2, NotifyInvariant, PTL DEF NotifySpec

-----------------------------------------------------------------------------
(* Reception.                                                               *)

\* The device's record, with the counts left open.
DeviceStates ==
  [ulReadIndex : Index, ulWriteIndex : Index,
   deferred : SUBSET DeferredOps, bRxBlocked : BOOLEAN, usBreakDuration : Nat,
   eCDCRequestState : {"IDLE", "WAIT_DATA"}, bConnected : BOOLEAN,
   usControlLineState : 0 .. MaxRequests, sLineCoding : 0 .. MaxRequests,
   fifo : 0 .. Packet, rxPktRdy : BOOLEAN,
   uart : 0 .. UartRoom, txInt : BOOLEAN, g_bSendingBreak : BOOLEAN,
   lineState : 0 .. MaxRequests, lineCoding : 0 .. MaxRequests, taken : Nat]

\* A break lasts no longer than some request said.
Timed(d) == \E n \in Durations \cup {0} : d.usBreakDuration \in 0 .. n

\* The bytes of the endpoint are those of a packet; no change waits without
\* reception being blocked.
Sound(d) == /\ d \in DeviceStates /\ Timed(d)
            /\ d.fifo > 0 => d.rxPktRdy
            /\ d.deferred \cap RX_BLOCK_OPS # {} => d.bRxBlocked

\* Nothing the driver has taken from the host is forgotten.
Current(d) ==
  /\ "LINE_STATE_CHANGE" \notin d.deferred => d.lineState = d.usControlLineState
  /\ "LINE_CODING_CHANGE" \notin d.deferred => d.lineCoding = d.sLineCoding

\* Every byte that has left the endpoint, and every byte that has reached it.
Passed(d) == d.taken + InRing(d)
Arrived(d) == d.fifo + Passed(d)

\* The other variables.
OtherTypes ==
  /\ rxIrq \in BOOLEAN /\ configured \in BOOLEAN /\ ep0 \in Ep0States
  /\ sent \in Counts /\ lost \in Nat /\ asked \in [RX_BLOCK_OPS -> Counts]
  /\ breakAsked \in Durations \cup {0}
  /\ requests \in 0 .. MaxRequests /\ restarts \in Nat

\* The request on endpoint zero that asks for a change.
RequestOf(op) == IF op = "LINE_CODING_CHANGE" THEN "CODING" ELSE op

\* As long as nothing is reset, a packet is flagged for the tick or waits for
\* its interrupt, not both; and no byte sent after a change was asked for has
\* left the endpoint, nor can before the request is handled: it waits for an
\* interrupt that comes after endpoint zero's, or reception is blocked.
Ordered ==
  /\ lost = 0 /\ configured /\ dev.bConnected /\ ep0 # "SET_CONFIGURATION"
  /\ rxIrq => dev.rxPktRdy
  /\ "PACKET_RX" \in dev.deferred => dev.rxPktRdy /\ ~rxIrq
  /\ \A op \in RX_BLOCK_OPS :
       /\ op \in dev.deferred => Passed(dev) <= asked[op]
       /\ ep0 = RequestOf(op) => /\ Passed(dev) <= asked[op]
                                 /\ ~rxIrq => sent <= asked[op]

\* The data of a line coding reaches a driver that waits for it.
CodingExpected ==
  ep0 \in {"expect_coding", "CODING"} => dev.eCDCRequestState = "WAIT_DATA"

\* The inductive invariant.
IInv == /\ Sound(dev) /\ Current(dev) /\ OtherTypes /\ CodingExpected
        /\ sent = lost + Arrived(dev)
        /\ PacketRemembered
        /\ restarts = 0 => Ordered
-----------------------------------------------------------------------------
(* Reception.                                                               *)

\* What reception leaves alone: the requests, and what the client was told.
Requested(d) ==
  <<d.deferred \ {"PACKET_RX"}, d.bRxBlocked, d.usBreakDuration, d.eCDCRequestState,
    d.bConnected, d.usControlLineState, d.sLineCoding, d.g_bSendingBreak,
    d.lineState, d.lineCoding>>

\* What receiving does: bytes move towards the client, and the flag of a packet
\* is cleared with the packet.
Receives(d, e) ==
  /\ Requested(e) = Requested(d) /\ Arrived(e) = Arrived(d)
  /\ e.rxPktRdy => d.rxPktRdy
  /\ e.rxPktRdy /\ "PACKET_RX" \in d.deferred => "PACKET_RX" \in e.deferred
  /\ "PACKET_RX" \in e.deferred =>
       "PACKET_RX" \in d.deferred /\ (d.rxPktRdy => e.rxPktRdy)

LEMMA InRingType ==
  ASSUME NEW d \in DeviceStates
  PROVE  InRing(d) \in 0 .. Size - 1 /\ InRing(d) \in Nat /\ Passed(d) \in Nat
         /\ Arrived(d) \in Nat
<1>1. /\ d.ulReadIndex \in Index /\ d.ulWriteIndex \in Index /\ d.taken \in Nat
      /\ d.fifo \in Nat
  BY RxAssumption DEF DeviceStates
<1>2. InRing(d) \in 0 .. Size - 1
  BY <1>1, UsedInRange DEF InRing
<1>3. InRing(d) \in Nat
  BY <1>2, SizeAssumption
<1> QED BY <1>1, <1>2, <1>3 DEF Passed, Arrived

\* Receiving, done twice, is receiving.
LEMMA ReceivesTwice ==
  ASSUME NEW d, NEW e, NEW f, Receives(d, e), Receives(e, f)
  PROVE  Receives(d, f)
  BY DEF Receives

\* USBUARTPrimeTransmit moves bytes from the ring to the UART.
LEMMA PrimeTransmitMoves ==
  ASSUME NEW d, Sound(d)
  PROVE  LET e == USBUARTPrimeTransmit(d) IN
         /\ Sound(e) /\ Receives(d, e) /\ Passed(e) = Passed(d)
         /\ e.rxPktRdy = d.rxPktRdy /\ e.deferred = d.deferred
<1> DEFINE n == IF d.g_bSendingBreak THEN 0 ELSE AtMost(UartRoom - d.uart, InRing(d))
           e == USBUARTPrimeTransmit(d)
           index == WrapIndex(d.ulReadIndex + n)
<1>1. /\ d \in DeviceStates /\ d.uart \in 0 .. UartRoom /\ UartRoom \in Nat
      /\ d.ulReadIndex \in Index /\ d.ulWriteIndex \in Index /\ d.taken \in Nat
      /\ d.fifo \in Nat
  BY RxAssumption DEF Sound, DeviceStates
<1>2. InRing(d) \in Nat
  BY <1>1, InRingType
<1>3. n \in 0 .. InRing(d) /\ n \in Nat /\ d.uart + n \in 0 .. UartRoom
  BY <1>1, <1>2 DEF AtMost
<1>4. e = [d EXCEPT !.ulReadIndex = index, !.uart = d.uart + n, !.taken = d.taken + n]
  BY DEF USBUARTPrimeTransmit
<1>5. index \in Index /\ Used(index, d.ulWriteIndex) = InRing(d) - n
  BY <1>1, <1>3, AdvanceReadRemoves DEF InRing
<1>0. d.uart + n \in 0 .. UartRoom /\ d.taken + n \in Nat /\ index \in Index
  BY <1>1, <1>3, <1>5
<1> HIDE DEF n, index, e
<1>6. e \in DeviceStates
  BY <1>1, <1>0, <1>4 DEF DeviceStates
<1>7. /\ e.ulReadIndex = index /\ e.taken = d.taken + n
      /\ e.ulWriteIndex = d.ulWriteIndex /\ e.fifo = d.fifo /\ e.rxPktRdy = d.rxPktRdy
      /\ e.deferred = d.deferred /\ Requested(e) = Requested(d)
      /\ e.usBreakDuration = d.usBreakDuration /\ e.bRxBlocked = d.bRxBlocked
  BY <1>1, <1>4 DEF DeviceStates, Requested
<1>8. Passed(e) = Passed(d) /\ Arrived(e) = Arrived(d)
  BY <1>1, <1>2, <1>3, <1>5, <1>7 DEF Passed, Arrived, InRing
<1>9. Sound(e)
  BY <1>6, <1>7 DEF Sound, Timed
<1> QED BY <1>7, <1>8, <1>9 DEF Receives, e

\* So does the client's callback.
LEMMA RxHandlerMoves ==
  ASSUME NEW d, Sound(d)
  PROVE  Sound(RxHandler(d)) /\ Receives(d, RxHandler(d))
<1> DEFINE e == USBUARTPrimeTransmit(d)
           f == RxHandler(d)
<1>1. Sound(e) /\ Receives(d, e)
  BY PrimeTransmitMoves
<1>2. f = [e EXCEPT !.txInt = TRUE]
  BY DEF RxHandler
<1> HIDE DEF e, f
<1>3. Sound(f)
  BY <1>1, <1>2 DEF Sound, DeviceStates, Timed
<1>4. e \in DeviceStates
  BY <1>1 DEF Sound
<1>5. Receives(e, f)
  BY <1>2, <1>4 DEF Receives, DeviceStates, Requested, Arrived, Passed, InRing
<1>6. Receives(d, f)
  BY <1>1, <1>5, ReceivesTwice
<1> QED BY <1>3, <1>6 DEF f

\* USBDCDCPacketRead takes what it is asked for or all there is.
LEMMA PacketReadTakes ==
  ASSUME NEW d, Sound(d), ~d.bRxBlocked, NEW length \in Nat
  PROVE  LET e == USBDCDCPacketRead(d, length) IN
         /\ Sound(e) /\ Requested(e) = Requested(d)
         /\ e.fifo = d.fifo - AtMost(length, d.fifo)
         /\ e.ulReadIndex = d.ulReadIndex /\ e.ulWriteIndex = d.ulWriteIndex
         /\ e.taken = d.taken
         /\ e.rxPktRdy => d.rxPktRdy
         /\ e.rxPktRdy /\ "PACKET_RX" \in d.deferred => "PACKET_RX" \in e.deferred
         /\ "PACKET_RX" \in e.deferred =>
              "PACKET_RX" \in d.deferred /\ (d.rxPktRdy => e.rxPktRdy)
<1> DEFINE n == AtMost(length, d.fifo)
           e == USBDCDCPacketRead(d, length)
<1>1. /\ d \in DeviceStates /\ d.fifo \in Nat /\ d.fifo \in 0 .. Packet /\ Packet \in Nat
      /\ d.rxPktRdy \in BOOLEAN /\ d.bRxBlocked \in BOOLEAN /\ n \in 0 .. d.fifo
  BY RxAssumption DEF Sound, DeviceStates, AtMost
<1>2. CASE ~d.rxPktRdy
  <2>1. e = d /\ d.fifo = 0
    BY <1>1, <1>2 DEF USBDCDCPacketRead, Sound
  <2>2. n = 0
    BY <1>1, <2>1
  <2> QED BY <1>1, <2>1, <2>2
<1>3. CASE d.rxPktRdy /\ n = d.fifo
  <2>1. e = [d EXCEPT !.fifo = 0, !.rxPktRdy = FALSE,
                      !.deferred = d.deferred \ {"PACKET_RX"}]
    BY <1>1, <1>3 DEF USBDCDCPacketRead
  <2>0. 0 \in 0 .. Packet /\ d.deferred \ {"PACKET_RX"} \in SUBSET DeferredOps
    BY <1>1 DEF DeviceStates
  <2> HIDE DEF e, n
  <2>2. e \in DeviceStates
    BY <1>1, <2>1, <2>0 DEF DeviceStates
  <2>3. /\ e.fifo = 0 /\ ~e.rxPktRdy /\ e.deferred = d.deferred \ {"PACKET_RX"}
        /\ e.ulReadIndex = d.ulReadIndex /\ e.ulWriteIndex = d.ulWriteIndex
        /\ e.taken = d.taken /\ e.bRxBlocked = d.bRxBlocked
        /\ e.usBreakDuration = d.usBreakDuration
        /\ Requested(e) = Requested(d)
    BY <1>1, <2>1 DEF DeviceStates, Requested
  <2>4. Sound(e)
    BY <2>2, <2>3 DEF Sound, Timed
  <2> QED BY <1>1, <1>3, <2>3, <2>4 DEF e, n
<1>4. CASE d.rxPktRdy /\ n # d.fifo
  <2>1. e = [d EXCEPT !.fifo = d.fifo - n]
    BY <1>1, <1>4 DEF USBDCDCPacketRead
  <2> HIDE DEF e, n
  <2>2. e \in DeviceStates
    BY <1>1, <2>1 DEF DeviceStates
  <2>3. /\ e.fifo = d.fifo - n /\ e.rxPktRdy /\ e.deferred = d.deferred
        /\ e.ulReadIndex = d.ulReadIndex /\ e.ulWriteIndex = d.ulWriteIndex
        /\ e.taken = d.taken /\ e.bRxBlocked = d.bRxBlocked
        /\ e.usBreakDuration = d.usBreakDuration
        /\ Requested(e) = Requested(d)
    BY <1>1, <1>4, <2>1 DEF DeviceStates, Requested
  <2>4. Sound(e)
    BY <2>2, <2>3 DEF Sound, Timed
  <2> QED BY <1>4, <2>3, <2>4 DEF e, n
<1> QED BY <1>2, <1>3, <1>4

\* ReadPart puts what it takes into the ring.
LEMMA ReadPartMoves ==
  ASSUME NEW d, Sound(d), ~d.bRxBlocked
  PROVE  Sound(ReadPart(d)) /\ Receives(d, ReadPart(d))
<1> DEFINE room == ContigFree(d.ulReadIndex, d.ulWriteIndex)
           after == USBDCDCPacketRead(d, room)
           n == AtMost(room, d.fifo)
           index == AdvanceWrite(d.ulReadIndex, d.ulWriteIndex, n)
           e == ReadPart(d)
<1>1. /\ d \in DeviceStates /\ d.fifo \in Nat /\ d.ulReadIndex \in Index
      /\ d.ulWriteIndex \in Index /\ d.taken \in Nat
      /\ d.ulReadIndex \in 0 .. Size
  BY RxAssumption, SizeAssumption DEF Sound, DeviceStates, Index
<1>2. room \in 0 .. Size - 1 /\ room \in Nat
  BY <1>1, ContigFreeIsFree, SizeAssumption
<1>3. n \in 0 .. room /\ n \in Nat /\ n <= d.fifo
  BY <1>1, <1>2 DEF AtMost
<1>4. /\ Sound(after) /\ Requested(after) = Requested(d)
      /\ after.fifo = d.fifo - n
      /\ after.ulReadIndex = d.ulReadIndex /\ after.ulWriteIndex = d.ulWriteIndex
      /\ after.taken = d.taken
      /\ after.rxPktRdy => d.rxPktRdy
      /\ after.rxPktRdy /\ "PACKET_RX" \in d.deferred => "PACKET_RX" \in after.deferred
      /\ "PACKET_RX" \in after.deferred =>
           "PACKET_RX" \in d.deferred /\ (d.rxPktRdy => after.rxPktRdy)
  BY <1>2, PacketReadTakes
<1>5. d.fifo - after.fifo = n
  BY <1>1, <1>3, <1>4
<1>6. e = [after EXCEPT !.ulWriteIndex = index.write, !.ulReadIndex = index.read]
  BY <1>5 DEF ReadPart
<1>7. /\ index.read = d.ulReadIndex /\ index.write \in Index
      /\ Used(d.ulReadIndex, index.write) = InRing(d) + n
  <2>1. CASE n = 0
    BY <1>1, <2>1, UsedInRange, SizeAssumption
    DEF AdvanceWrite, WrapIndex, Index, InRing, Used, Free
  <2>2. CASE n >= 1
    BY <1>1, <1>2, <1>3, <2>2, AdvanceWriteAdds DEF InRing
  <2> QED BY <1>3, <2>1, <2>2
<1> HIDE DEF room, after, n, index, e
<1>8. after \in DeviceStates
  BY <1>4 DEF Sound
<1>9. e \in DeviceStates
  BY <1>1, <1>6, <1>7, <1>8 DEF DeviceStates
<1>10. /\ e.ulReadIndex = d.ulReadIndex /\ e.ulWriteIndex = index.write
       /\ e.fifo = d.fifo - n /\ e.taken = d.taken /\ e.rxPktRdy = after.rxPktRdy
       /\ e.deferred = after.deferred /\ e.bRxBlocked = after.bRxBlocked
       /\ e.usBreakDuration = after.usBreakDuration
       /\ Requested(e) = Requested(after)
  BY <1>4, <1>6, <1>7, <1>8 DEF DeviceStates, Requested
<1>11. Sound(e)
  BY <1>4, <1>9, <1>10 DEF Sound, Timed
<1>12. Arrived(e) = Arrived(d)
  <2>1. InRing(d) \in Nat
    BY <1>1, InRingType
  <2> QED BY <1>1, <1>3, <1>7, <1>10, <2>1 DEF Arrived, Passed, InRing
<1>13. Receives(d, e)
  BY <1>4, <1>10, <1>12 DEF Receives
<1> QED BY <1>11, <1>13 DEF e

\* HandleRxAvailable of the buffer, both parts and the client's callback.
LEMMA HandleRxAvailableMoves ==
  ASSUME NEW d, Sound(d), ~d.bRxBlocked, HandleRxAvailable(d)
  PROVE  Sound(dev') /\ Receives(d, dev')
<1> PICK first \in {ReadPart(d)} :
           \E second \in {IF d.fifo - first.fifo < USBDCDCRxPacketAvailable(d)
                            THEN ReadPart(first) ELSE first} :
             dev' = RxHandler(second)
  BY DEF HandleRxAvailable
<1>1. Sound(first) /\ Receives(d, first)
  BY ReadPartMoves
<1>2. ~first.bRxBlocked
  BY <1>1 DEF Receives, Requested
<1>3. PICK second \in {ReadPart(first), first} : dev' = RxHandler(second)
  OBVIOUS
<1>4. Sound(second) /\ Receives(d, second)
  BY <1>1, <1>2, <1>3, ReadPartMoves, ReceivesTwice
<1>5. Sound(dev') /\ Receives(second, dev')
  BY <1>3, <1>4, RxHandlerMoves
<1> QED BY <1>4, <1>5, ReceivesTwice

-----------------------------------------------------------------------------
(* Deferred operations.                                                     *)

\* What telling the client of a change leaves alone.
Reception(d) ==
  <<d.ulReadIndex, d.ulWriteIndex, d.taken, d.fifo, d.rxPktRdy, d.bConnected,
    "PACKET_RX" \in d.deferred>>

\* The client learns of a change, as Told says of a step.
Learns(op, d, e) ==
  \/ op = "LINE_STATE_CHANGE" /\ e.lineState # d.lineState
  \/ op = "LINE_CODING_CHANGE" /\ e.lineCoding # d.lineCoding
  \/ op = "SEND_BREAK" /\ e.g_bSendingBreak /\ ~d.g_bSendingBreak

\* Only changes that wait are told, and none is put off.
Retries(d, e) ==
  /\ Reception(e) = Reception(d) /\ e.eCDCRequestState = d.eCDCRequestState
  /\ \A op \in RX_BLOCK_OPS : op \in e.deferred \/ Learns(op, d, e) => op \in d.deferred

LEMMA RetriesTwice ==
  ASSUME NEW d \in DeviceStates, NEW e \in DeviceStates, NEW f \in DeviceStates,
         Retries(d, e), Retries(e, f)
  PROVE  Retries(d, f)
  BY DEF Retries, Learns, DeviceStates

\* What follows from an unchanged reception.
LEMMA ReceptionKept ==
  ASSUME NEW d, NEW e, Reception(e) = Reception(d)
  PROVE  /\ InRing(e) = InRing(d) /\ Passed(e) = Passed(d) /\ Arrived(e) = Arrived(d)
         /\ e.rxPktRdy = d.rxPktRdy /\ e.bConnected = d.bConnected
         /\ "PACKET_RX" \in e.deferred <=> "PACKET_RX" \in d.deferred
  BY DEF Reception, InRing, Passed, Arrived

\* Everything Sound says but that waiting changes block reception.
Ranged(d) == d \in DeviceStates /\ Timed(d) /\ (d.fifo > 0 => d.rxPktRdy)

\* One change is told and no longer waits; the others are left alone.
Tells(op, d, e) ==
  /\ Ranged(e) /\ Reception(e) = Reception(d) /\ e.bRxBlocked = d.bRxBlocked
  /\ e.eCDCRequestState = d.eCDCRequestState
  /\ \A other \in RX_BLOCK_OPS :
       /\ other \in e.deferred <=> other \in d.deferred /\ other # op
       /\ other # op => ~Learns(other, d, e)
  /\ e.usControlLineState = d.usControlLineState /\ e.sLineCoding = d.sLineCoding
  /\ op = "LINE_STATE_CHANGE" => e.lineState = d.usControlLineState
  /\ op = "LINE_CODING_CHANGE" => e.lineCoding = d.sLineCoding

LEMMA SendBreakTells ==
  ASSUME NEW d, Ranged(d), NEW bSend \in BOOLEAN
  PROVE  Tells("SEND_BREAK", d, SendBreak(d, bSend))
<1> DEFINE flags == (d.deferred \ {"SEND_BREAK", "CLEAR_BREAK"})
                      \cup (IF bSend THEN {"CLEAR_BREAK"} ELSE {})
           e == SendBreak(d, bSend)
<1>1. e = [d EXCEPT !.deferred = flags, !.g_bSendingBreak = bSend]
  BY DEF SendBreak
<1>2. d \in DeviceStates /\ flags \in SUBSET DeferredOps
  BY DEF Ranged, DeviceStates, DeferredOps
<1>3. /\ "PACKET_RX" \in flags <=> "PACKET_RX" \in d.deferred
      /\ \A other \in RX_BLOCK_OPS :
           other \in flags <=> other \in d.deferred /\ other # "SEND_BREAK"
  BY DEF RX_BLOCK_OPS
<1> HIDE DEF flags, e
<1>4. e \in DeviceStates
  BY <1>1, <1>2 DEF DeviceStates
<1>5. /\ e.deferred = flags /\ Reception(e) = Reception(d)
      /\ e.usBreakDuration = d.usBreakDuration /\ e.bRxBlocked = d.bRxBlocked
      /\ e.fifo = d.fifo /\ e.rxPktRdy = d.rxPktRdy
      /\ e.lineState = d.lineState /\ e.lineCoding = d.lineCoding
      /\ e.usControlLineState = d.usControlLineState /\ e.sLineCoding = d.sLineCoding
      /\ e.eCDCRequestState = d.eCDCRequestState
  BY <1>1, <1>2, <1>3 DEF DeviceStates, Reception
<1>6. Ranged(e)
  BY <1>4, <1>5 DEF Ranged, Timed
<1> QED BY <1>3, <1>5, <1>6 DEF Tells, Learns, e

LEMMA SendLineStateChangeTells ==
  ASSUME NEW d, Ranged(d)
  PROVE  Tells("LINE_STATE_CHANGE", d, SendLineStateChange(d))
<1> DEFINE flags == d.deferred \ {"LINE_STATE_CHANGE"}
           e == SendLineStateChange(d)
<1>1. e = [d EXCEPT !.deferred = flags, !.lineState = d.usControlLineState]
  BY DEF SendLineStateChange
<1>2. d \in DeviceStates /\ flags \in SUBSET DeferredOps
      /\ d.usControlLineState \in 0 .. MaxRequests
  BY DEF Ranged, DeviceStates
<1>3. "PACKET_RX" \in flags <=> "PACKET_RX" \in d.deferred
  OBVIOUS
<1>4. /\ e \in DeviceStates
      /\ e.deferred = flags /\ Reception(e) = Reception(d)
      /\ e.usBreakDuration = d.usBreakDuration /\ e.bRxBlocked = d.bRxBlocked
      /\ e.fifo = d.fifo /\ e.rxPktRdy = d.rxPktRdy
      /\ e.lineState = d.usControlLineState /\ e.lineCoding = d.lineCoding
      /\ e.g_bSendingBreak = d.g_bSendingBreak
      /\ e.usControlLineState = d.usControlLineState /\ e.sLineCoding = d.sLineCoding
      /\ e.eCDCRequestState = d.eCDCRequestState
  <2> HIDE DEF flags, e
  <2>1. e \in DeviceStates
    BY <1>1, <1>2 DEF DeviceStates
  <2> QED BY <1>1, <1>2, <1>3, <2>1 DEF DeviceStates, Reception
<1> HIDE DEF e
<1>5. Ranged(e)
  BY <1>4 DEF Ranged, Timed
<1> QED BY <1>4, <1>5 DEF Tells, Learns, e

LEMMA SendLineCodingChangeTells ==
  ASSUME NEW d, Ranged(d)
  PROVE  Tells("LINE_CODING_CHANGE", d, SendLineCodingChange(d))
<1> DEFINE flags == d.deferred \ {"LINE_CODING_CHANGE"}
           e == SendLineCodingChange(d)
<1>1. e = [d EXCEPT !.deferred = flags, !.lineCoding = d.sLineCoding]
  BY DEF SendLineCodingChange
<1>2. d \in DeviceStates /\ flags \in SUBSET DeferredOps
      /\ d.sLineCoding \in 0 .. MaxRequests
  BY DEF Ranged, DeviceStates
<1>3. "PACKET_RX" \in flags <=> "PACKET_RX" \in d.deferred
  OBVIOUS
<1>4. /\ e \in DeviceStates
      /\ e.deferred = flags /\ Reception(e) = Reception(d)
      /\ e.usBreakDuration = d.usBreakDuration /\ e.bRxBlocked = d.bRxBlocked
      /\ e.fifo = d.fifo /\ e.rxPktRdy = d.rxPktRdy
      /\ e.lineCoding = d.sLineCoding /\ e.lineState = d.lineState
      /\ e.g_bSendingBreak = d.g_bSendingBreak
      /\ e.usControlLineState = d.usControlLineState /\ e.sLineCoding = d.sLineCoding
      /\ e.eCDCRequestState = d.eCDCRequestState
  <2> HIDE DEF flags, e
  <2>1. e \in DeviceStates
    BY <1>1, <1>2 DEF DeviceStates
  <2> QED BY <1>1, <1>2, <1>3, <2>1 DEF DeviceStates, Reception
<1> HIDE DEF e
<1>5. Ranged(e)
  BY <1>4 DEF Ranged, Timed
<1> QED BY <1>4, <1>5 DEF Tells, Learns, e

\* A change that waits and is told leaves a device as sound as before.
LEMMA TellingRetries ==
  ASSUME NEW op \in RX_BLOCK_OPS, NEW d, NEW e, Sound(d), Current(d),
         \/ e = d
         \/ op \in d.deferred /\ Tells(op, d, e)
  PROVE  Sound(e) /\ Current(e) /\ Retries(d, e)
<1>1. CASE e = d
  BY <1>1 DEF Retries, Learns
<1>2. CASE op \in d.deferred /\ Tells(op, d, e)
  <2>1. Sound(e)
    BY <1>2 DEF Sound, Ranged, Tells
  <2>2. Current(e)
    BY <1>2 DEF Current, Tells, Learns, RX_BLOCK_OPS
  <2>3. Retries(d, e)
    BY <1>2 DEF Retries, Tells
  <2> QED BY <2>1, <2>2, <2>3
<1> QED BY <1>1, <1>2

\* The tick's break timer and its retry of the deferred changes.
LEMMA BreakTimerRetries ==
  ASSUME NEW d, Sound(d), Current(d)
  PROVE  LET e == BreakTimer(d) IN Sound(e) /\ Current(e) /\ Retries(d, e)
<1> DEFINE e == BreakTimer(d)
<1>0. Ranged(d) /\ d \in DeviceStates /\ d.usBreakDuration \in Nat
  BY DEF Sound, Ranged, DeviceStates
<1>1. CASE "CLEAR_BREAK" \notin d.deferred
  BY <1>1 DEF BreakTimer, When, Retries, Learns
<1>2. CASE "CLEAR_BREAK" \in d.deferred /\ d.usBreakDuration <= 1
  <2>1. e = SendBreak(d, FALSE)
    BY <1>2 DEF BreakTimer, When
  <2>2. Tells("SEND_BREAK", d, e)
    BY <1>0, <2>1, SendBreakTells
  <2>3. ~e.g_bSendingBreak
    BY <1>0, <2>1 DEF SendBreak, DeviceStates
  <2> HIDE DEF e
  <2>4. Sound(e)
    BY <2>2 DEF Sound, Ranged, Tells
  <2>5. Current(e)
    BY <2>2 DEF Current, Tells, Learns, RX_BLOCK_OPS
  <2>6. Retries(d, e)
    BY <2>2, <2>3 DEF Retries, Tells, Learns
  <2> QED BY <2>4, <2>5, <2>6 DEF e
<1>3. CASE "CLEAR_BREAK" \in d.deferred /\ ~(d.usBreakDuration <= 1)
  <2>1. e = [d EXCEPT !.usBreakDuration = d.usBreakDuration - 1]
    BY <1>3 DEF BreakTimer, When
  <2>2. d.usBreakDuration - 1 \in Nat
    BY <1>0, <1>3
  <2> HIDE DEF e
  <2>3. e \in DeviceStates
    BY <1>0, <2>1, <2>2 DEF DeviceStates
  <2>4. /\ e.usBreakDuration = d.usBreakDuration - 1
        /\ e.deferred = d.deferred /\ Reception(e) = Reception(d)
        /\ e.bRxBlocked = d.bRxBlocked /\ e.fifo = d.fifo /\ e.rxPktRdy = d.rxPktRdy
        /\ e.lineCoding = d.lineCoding /\ e.lineState = d.lineState
        /\ e.g_bSendingBreak = d.g_bSendingBreak
        /\ e.usControlLineState = d.usControlLineState /\ e.sLineCoding = d.sLineCoding
        /\ e.eCDCRequestState = d.eCDCRequestState
    BY <1>0, <2>1 DEF DeviceStates, Reception
  <2>5. Timed(e)
    <3>1. PICK n \in Durations \cup {0} : d.usBreakDuration \in 0 .. n
      BY DEF Sound, Timed
    <3>2. n \in Nat
      BY RxAssumption
    <3>3. e.usBreakDuration \in 0 .. n
      BY <1>0, <2>2, <2>4, <3>1, <3>2
    <3> QED BY <3>3 DEF Timed
  <2>6. Sound(e) /\ Current(e) /\ Retries(d, e)
    BY <2>3, <2>4, <2>5 DEF Sound, Current, Retries, Learns
  <2> QED BY <2>6 DEF e
<1> QED BY <1>0, <1>1, <1>2, <1>3

LEMMA RetryDeferredRetries ==
  ASSUME NEW d, Sound(d), Current(d)
  PROVE  LET e == RetryDeferred(d) IN Sound(e) /\ Current(e) /\ Retries(d, e)
<1> DEFINE b == When("SEND_BREAK", d, SendBreak(d, TRUE))
           s == When("LINE_STATE_CHANGE", b, SendLineStateChange(b))
           c == When("LINE_CODING_CHANGE", s, SendLineCodingChange(s))
           e == [c EXCEPT !.bRxBlocked = @ /\ c.deferred \cap RX_BLOCK_OPS # {}]
<1>1. CASE ~DeviceConsumedAllData(d)
  BY <1>1 DEF RetryDeferred, Retries, Learns
<1>2. CASE DeviceConsumedAllData(d)
  <2>1. Sound(b) /\ Current(b) /\ Retries(d, b)
    <3>1. \/ b = d
          \/ "SEND_BREAK" \in d.deferred /\ Tells("SEND_BREAK", d, b)
      BY SendBreakTells DEF When, Sound, Ranged
    <3> HIDE DEF b
    <3> QED BY <3>1, TellingRetries DEF RX_BLOCK_OPS
  <2>2. Sound(s) /\ Current(s) /\ Retries(b, s)
    <3>1. \/ s = b
          \/ "LINE_STATE_CHANGE" \in b.deferred /\ Tells("LINE_STATE_CHANGE", b, s)
      <4> HIDE DEF b
      <4> QED BY <2>1, SendLineStateChangeTells DEF When, Sound, Ranged
    <3> HIDE DEF b, s
    <3> QED BY <2>1, <3>1, TellingRetries DEF RX_BLOCK_OPS
  <2>3. Sound(c) /\ Current(c) /\ Retries(s, c)
    <3>1. \/ c = s
          \/ "LINE_CODING_CHANGE" \in s.deferred /\ Tells("LINE_CODING_CHANGE", s, c)
      <4> HIDE DEF s
      <4> QED BY <2>2, SendLineCodingChangeTells DEF When, Sound, Ranged
    <3> HIDE DEF s, c
    <3> QED BY <2>2, <3>1, TellingRetries DEF RX_BLOCK_OPS
  <2>4. RetryDeferred(d) = e
    BY <1>2 DEF RetryDeferred
  <2> HIDE DEF b, s, c
  <2>5. c \in DeviceStates
    BY <2>3 DEF Sound
  <2>6. /\ e \in DeviceStates
        /\ e.bRxBlocked <=> c.bRxBlocked /\ c.deferred \cap RX_BLOCK_OPS # {}
        /\ e.deferred = c.deferred /\ Reception(e) = Reception(c)
        /\ e.usBreakDuration = c.usBreakDuration
        /\ e.fifo = c.fifo /\ e.rxPktRdy = c.rxPktRdy
        /\ e.lineCoding = c.lineCoding /\ e.lineState = c.lineState
        /\ e.g_bSendingBreak = c.g_bSendingBreak
        /\ e.usControlLineState = c.usControlLineState /\ e.sLineCoding = c.sLineCoding
        /\ e.eCDCRequestState = c.eCDCRequestState
    BY <2>5 DEF DeviceStates, Reception
  <2> HIDE DEF e
  <2>7. Sound(e) /\ Current(e) /\ Retries(c, e)
    BY <2>3, <2>6 DEF Sound, Timed, Current, Retries, Learns
  <2>8. Retries(d, e)
    BY <2>1, <2>2, <2>3, <2>7, RetriesTwice DEF Sound
  <2> QED BY <2>4, <2>7, <2>8
<1> QED BY <1>1, <1>2

\* The end of a request handler: the change it was asked for is told, or waits
\* with reception blocked.
LEMMA OrBlockTellsOrWaits ==
  ASSUME NEW op \in RX_BLOCK_OPS, NEW old, Sound(old), Current(old),
         NEW d, NEW told, Ranged(d), op \in d.deferred, Tells(op, d, told),
         Reception(d) = Reception(old), d.bRxBlocked = old.bRxBlocked,
         \A other \in RX_BLOCK_OPS \ {op} : other \in d.deferred <=> other \in old.deferred,
         /\ d.lineState = old.lineState /\ d.lineCoding = old.lineCoding
         /\ d.g_bSendingBreak = old.g_bSendingBreak,
         op # "LINE_STATE_CHANGE" => d.usControlLineState = old.usControlLineState,
         op # "LINE_CODING_CHANGE" => d.sLineCoding = old.sLineCoding
  PROVE  LET e == OrBlock(d, told) IN
         /\ Sound(e) /\ Current(e) /\ Reception(e) = Reception(old)
         /\ \A other \in RX_BLOCK_OPS :
              other \in e.deferred \/ Learns(other, old, e) =>
                other = op \/ other \in old.deferred
<1>1. CASE DeviceConsumedAllData(d)
  <2>1. OrBlock(d, told) = told
    BY <1>1 DEF OrBlock
  <2>2. Sound(told)
    BY DEF Sound, Ranged, Tells
  <2>3. Current(told)
    BY DEF Current, Tells, Learns, RX_BLOCK_OPS
  <2>4. Reception(told) = Reception(old)
    BY DEF Tells
  <2>5. \A other \in RX_BLOCK_OPS :
          other \in told.deferred \/ Learns(other, old, told) =>
            other = op \/ other \in old.deferred
    BY DEF Tells, Learns
  <2> QED BY <2>1, <2>2, <2>3, <2>4, <2>5
<1>2. CASE ~DeviceConsumedAllData(d)
  <2> DEFINE e == OrBlock(d, told)
  <2>1. e = [d EXCEPT !.bRxBlocked = TRUE]
    BY <1>2 DEF OrBlock
  <2>2. d \in DeviceStates
    BY DEF Ranged
  <2> HIDE DEF e
  <2>3. /\ e \in DeviceStates
        /\ e.bRxBlocked
        /\ e.deferred = d.deferred /\ Reception(e) = Reception(d)
        /\ e.usBreakDuration = d.usBreakDuration
        /\ e.fifo = d.fifo /\ e.rxPktRdy = d.rxPktRdy
        /\ e.lineCoding = d.lineCoding /\ e.lineState = d.lineState
        /\ e.g_bSendingBreak = d.g_bSendingBreak
        /\ e.usControlLineState = d.usControlLineState /\ e.sLineCoding = d.sLineCoding
    BY <2>1, <2>2 DEF DeviceStates, Reception
  <2>4. Sound(e)
    BY <2>3 DEF Sound, Ranged, Timed
  <2>5. Current(e)
    BY <2>3 DEF Current, RX_BLOCK_OPS
  <2>6. \A other \in RX_BLOCK_OPS :
          other \in e.deferred \/ Learns(other, old, e) =>
            other = op \/ other \in old.deferred
    BY <2>3 DEF Learns
  <2> QED BY <2>3, <2>4, <2>5, <2>6 DEF e
<1> QED BY <1>1, <1>2

-----------------------------------------------------------------------------
(* The steps.                                                               *)

LEMMA InitIInv == Init => IInv
<1> SUFFICES ASSUME Init PROVE IInv
  OBVIOUS
<1> USE DEF Init
<1>1. /\ 0 \in Index /\ 0 \in 0 .. Packet /\ 0 \in 0 .. UartRoom /\ 0 \in 0 .. MaxRequests
      /\ 0 \in Counts
  BY SizeAssumption, RxAssumption DEF Index, Counts
<1>2. dev \in DeviceStates
  BY <1>1 DEF DeviceStates
<1>3. Sound(dev) /\ Current(dev)
  BY <1>2 DEF Sound, Timed, Current
<1>4. InRing(dev) = 0 /\ Passed(dev) = 0 /\ Arrived(dev) = 0
  BY DEF InRing, Passed, Arrived, Used
<1>5. OtherTypes
  BY <1>1, RxAssumption DEF OtherTypes, Ep0States
<1>6. PacketRemembered /\ Ordered
  BY DEF PacketRemembered, Ordered, RequestOf, RX_BLOCK_OPS
<1> QED BY <1>3, <1>4, <1>5, <1>6 DEF IInv, CodingExpected

\* The parts of the invariant that a step of the device alone can disturb.
LEMMA DeviceStep ==
  ASSUME IInv, Sound(dev'), Current(dev'), Arrived(dev') = Arrived(dev),
         OtherTypes', CodingExpected', UNCHANGED <<hostVars, lost, restarts>>,
         PacketRemembered', restarts = 0 => Ordered'
  PROVE  IInv'
  BY DEF IInv, hostVars

\* Between two requests' arrivals a step on endpoint zero asks for nothing new.
LEMMA CDCTickHandlerKeepsIInv ==
  ASSUME IInv, CDCTickHandler
  PROVE  /\ IInv'
         /\ \A op \in RX_BLOCK_OPS : Learns(op, dev, dev') => op \in dev.deferred
<1>1. CASE dev' = dev
  <2>1. UNCHANGED vars
    BY <1>1 DEF CDCTickHandler, vars
  <2>2. IInv'
    BY <2>1 DEF IInv, Sound, Timed, Current, OtherTypes, Counts, Arrived, Passed,
       InRing, CodingExpected, PacketRemembered, Ordered, vars, hostVars, busVars
  <2> QED BY <1>1, <2>2 DEF Learns
<1>2. CASE dev.deferred # {}
  <2> DEFINE timed == BreakTimer(dev)
             retried == RetryDeferred(timed)
  <2>1. Sound(timed) /\ Current(timed) /\ Retries(dev, timed)
    BY BreakTimerRetries DEF IInv
  <2>2. Sound(retried) /\ Current(retried) /\ Retries(timed, retried)
    <3> HIDE DEF timed
    <3> QED BY <2>1, RetryDeferredRetries
  <2>3. RetryReceive(retried)
    BY <1>2 DEF CDCTickHandler
  <2> HIDE DEF timed, retried
  <2>4. Retries(dev, retried) /\ dev \in DeviceStates /\ retried \in DeviceStates
    BY <2>1, <2>2, RetriesTwice DEF IInv, Sound, Ranged
  <2>5. /\ Arrived(retried) = Arrived(dev) /\ Passed(retried) = Passed(dev)
        /\ retried.rxPktRdy = dev.rxPktRdy /\ retried.bConnected = dev.bConnected
        /\ "PACKET_RX" \in retried.deferred <=> "PACKET_RX" \in dev.deferred
    BY <2>4, ReceptionKept DEF Retries
  <2>6. \/ dev' = retried
        \/ /\ ~retried.bRxBlocked /\ "PACKET_RX" \in retried.deferred
           /\ Receives(retried, dev')
    BY <2>2, <2>3, HandleRxAvailableMoves DEF RetryReceive
  <2>7. Sound(dev') /\ dev' \in DeviceStates
    BY <2>2, <2>3, HandleRxAvailableMoves DEF RetryReceive, Sound, Ranged
  <2>8. /\ dev'.deferred \cap RX_BLOCK_OPS = retried.deferred \cap RX_BLOCK_OPS
        /\ dev'.lineState = retried.lineState /\ dev'.lineCoding = retried.lineCoding
        /\ dev'.usControlLineState = retried.usControlLineState
        /\ dev'.sLineCoding = retried.sLineCoding
        /\ dev'.g_bSendingBreak = retried.g_bSendingBreak
        /\ dev'.bConnected = retried.bConnected
        /\ dev'.eCDCRequestState = retried.eCDCRequestState
    BY <2>6 DEF Receives, Requested, RX_BLOCK_OPS
  <2>9. Current(dev')
    BY <2>2, <2>8 DEF Current, RX_BLOCK_OPS
  <2>10. Arrived(dev') = Arrived(dev)
    BY <2>5, <2>6 DEF Receives
  <2>11. /\ dev'.rxPktRdy => dev.rxPktRdy
         /\ dev'.rxPktRdy /\ "PACKET_RX" \in dev.deferred => "PACKET_RX" \in dev'.deferred
         /\ "PACKET_RX" \in dev'.deferred => /\ "PACKET_RX" \in dev.deferred
                                             /\ dev.rxPktRdy => dev'.rxPktRdy
    BY <2>5, <2>6 DEF Receives
  <2>12. UNCHANGED <<rxIrq, ep0, sent, asked, breakAsked, requests, configured, lost, restarts>>
    BY DEF CDCTickHandler, hostVars, busVars
  <2>13. OtherTypes' /\ PacketRemembered' /\ CodingExpected'
    BY <2>4, <2>8, <2>11, <2>12
    DEF IInv, OtherTypes, Counts, PacketRemembered, CodingExpected, Retries
  <2>14. \A op \in RX_BLOCK_OPS : op \in dev'.deferred \/ Learns(op, dev, dev')
                                    => op \in dev.deferred
    BY <2>4, <2>8 DEF Retries, Learns
  <2>15. ASSUME restarts = 0 PROVE Ordered'
    <3>1. Ordered /\ sent = Arrived(dev) /\ sent \in Nat
      BY <2>15, InRingType, <2>4 DEF IInv, Ordered
    <3>2. /\ lost' = 0 /\ configured' /\ dev'.bConnected /\ ep0' # "SET_CONFIGURATION"
          /\ rxIrq' => dev'.rxPktRdy
          /\ "PACKET_RX" \in dev'.deferred => dev'.rxPktRdy /\ ~rxIrq'
      BY <2>5, <2>6, <2>8, <2>11, <2>12, <3>1 DEF Ordered
    <3>3. ASSUME NEW op \in RX_BLOCK_OPS, op \in dev'.deferred
          PROVE  Passed(dev') <= asked'[op]
      <4>1. op \in dev.deferred /\ op \in retried.deferred
        BY <2>8, <2>14, <3>3
      <4>2. retried.bRxBlocked
        BY <2>2, <4>1 DEF Sound
      <4>3. dev' = retried
        BY <2>6, <4>2
      <4> QED BY <2>5, <2>12, <3>1, <4>1, <4>3 DEF Ordered
    <3>4. ASSUME NEW op \in RX_BLOCK_OPS, ep0' = RequestOf(op)
          PROVE  Passed(dev') <= asked'[op] /\ (~rxIrq' => sent' <= asked'[op])
      <4>1. Passed(dev) <= asked[op] /\ (~rxIrq => sent <= asked[op])
        BY <2>12, <3>1, <3>4 DEF Ordered
      <4>2. CASE dev' = retried
        BY <2>5, <2>12, <4>1, <4>2
      <4>3. CASE "PACKET_RX" \in retried.deferred
        <5>1. sent <= asked[op]
          BY <2>5, <3>1, <4>1, <4>3 DEF Ordered
        <5>2. dev'.fifo \in Nat /\ Passed(dev') \in Nat
          BY <2>7, InRingType, RxAssumption DEF DeviceStates
        <5>3. Passed(dev') <= sent
          BY <2>10, <3>1, <5>2 DEF Arrived
        <5>4. asked[op] \in Nat
          BY RxAssumption DEF IInv, OtherTypes, Counts
        <5> QED BY <2>12, <3>1, <5>1, <5>2, <5>3, <5>4
      <4> QED BY <2>6, <4>2, <4>3
    <3> QED BY <3>2, <3>3, <3>4 DEF Ordered
  <2>16. IInv'
    BY <2>7, <2>9, <2>10, <2>12, <2>13, <2>15, DeviceStep DEF hostVars
  <2> QED BY <2>14, <2>16
<1> QED BY <1>1, <1>2 DEF CDCTickHandler

LEMMA ProcessDataFromHostKeepsIInv ==
  ASSUME IInv, ProcessDataFromHost
  PROVE  IInv' /\ (\A op \in RX_BLOCK_OPS : ~Learns(op, dev, dev'))
<1> DEFINE d == Defer(dev, "PACKET_RX")
<1>1. /\ rxIrq /\ ep0 \notin Requests /\ ~rxIrq'
      /\ UNCHANGED <<ep0, sent, asked, breakAsked, requests, configured, lost, restarts>>
      /\ Sound(dev) /\ Current(dev) /\ dev \in DeviceStates
  BY DEF ProcessDataFromHost, hostVars, busVars, IInv, Sound, Ranged
<1>2. OtherTypes'
  BY <1>1 DEF ProcessDataFromHost, IInv, OtherTypes, Counts
<1>3. \A op \in RX_BLOCK_OPS : RequestOf(op) \in Requests
  BY DEF RX_BLOCK_OPS, RequestOf, Requests
<1>4. CASE ~dev.rxPktRdy
  <2>1. dev' = dev
    BY <1>4 DEF ProcessDataFromHost
  <2>2. PacketRemembered'
    BY <1>4, <2>1 DEF PacketRemembered
  <2>3. restarts = 0 => Ordered'
    BY <1>1, <1>4 DEF IInv, Ordered
  <2>4. /\ Sound(dev') /\ Current(dev') /\ Arrived(dev') = Arrived(dev)
        /\ CodingExpected'
    BY <1>1, <2>1 DEF IInv, CodingExpected
  <2>5. IInv'
    BY <1>1, <1>2, <2>2, <2>3, <2>4, DeviceStep DEF hostVars
  <2> QED BY <2>1, <2>5 DEF Learns
<1>5. CASE dev.rxPktRdy
  <2>1. d = [dev EXCEPT !.deferred = dev.deferred \cup {"PACKET_RX"}]
    BY DEF Defer
  <2>2. dev.deferred \cup {"PACKET_RX"} \in SUBSET DeferredOps
    BY <1>1 DEF DeviceStates, DeferredOps
  <2>3. \/ d.bRxBlocked /\ dev' = d
        \/ ~d.bRxBlocked /\ HandleRxAvailable(d)
    BY <1>5 DEF ProcessDataFromHost
  <2> HIDE DEF d
  <2>4. /\ d \in DeviceStates
        /\ d.deferred = dev.deferred \cup {"PACKET_RX"}
        /\ Requested(d) = Requested(dev) /\ d.bRxBlocked = dev.bRxBlocked
        /\ d.usBreakDuration = dev.usBreakDuration
        /\ d.ulReadIndex = dev.ulReadIndex /\ d.ulWriteIndex = dev.ulWriteIndex
        /\ d.taken = dev.taken /\ d.fifo = dev.fifo /\ d.rxPktRdy
    BY <1>1, <1>5, <2>1, <2>2 DEF DeviceStates, Requested
  <2>5. Sound(d)
    BY <1>1, <2>4 DEF Sound, Timed, RX_BLOCK_OPS
  <2>6. Arrived(d) = Arrived(dev) /\ Passed(d) = Passed(dev)
    BY <2>4 DEF Arrived, Passed, InRing
  <2>7. \/ dev' = d
        \/ ~d.bRxBlocked /\ Receives(d, dev')
    BY <2>3, <2>5, HandleRxAvailableMoves
  <2>8. Sound(dev')
    BY <2>3, <2>5, HandleRxAvailableMoves
  <2>9. /\ Requested(dev') = Requested(dev) /\ Arrived(dev') = Arrived(dev)
        /\ "PACKET_RX" \in dev'.deferred <=> dev'.rxPktRdy
    BY <2>4, <2>6, <2>7 DEF Receives
  <2>10. Current(dev') /\ \A op \in RX_BLOCK_OPS : ~Learns(op, dev, dev')
    BY <1>1, <2>9 DEF Requested, Current, Learns
  <2>11. PacketRemembered' /\ CodingExpected'
    BY <1>1, <2>9 DEF IInv, PacketRemembered, CodingExpected, Requested
  <2>12. ASSUME restarts = 0 PROVE Ordered'
    <3>1. Ordered
      BY <2>12 DEF IInv
    <3>2. /\ lost' = 0 /\ configured' /\ dev'.bConnected /\ ep0' # "SET_CONFIGURATION"
          /\ ~rxIrq' /\ ("PACKET_RX" \in dev'.deferred => dev'.rxPktRdy)
          /\ \A op \in RX_BLOCK_OPS : ep0' # RequestOf(op)
      BY <1>1, <1>3, <2>9, <3>1 DEF Ordered, Requested
    <3>3. ASSUME NEW op \in RX_BLOCK_OPS, op \in dev'.deferred
          PROVE  Passed(dev') <= asked'[op]
      <4>1. op \in dev.deferred
        BY <2>9, <3>3 DEF Requested, RX_BLOCK_OPS
      <4>2. d.bRxBlocked
        BY <1>1, <2>4, <4>1 DEF Sound
      <4> QED BY <1>1, <2>6, <2>7, <3>1, <4>1, <4>2 DEF Ordered
    <3> QED BY <3>2, <3>3 DEF Ordered
  <2>13. IInv'
    BY <1>1, <1>2, <2>8, <2>9, <2>10, <2>11, <2>12, DeviceStep DEF hostVars
  <2> QED BY <2>10, <2>13
<1> QED BY <1>1, <1>4, <1>5 DEF DeviceStates

\* A handler that ends a request: the changes told are the one asked for now and
\* those that wait.
LEMMA RequestKeepsIInv ==
  ASSUME IInv, NEW op \in RX_BLOCK_OPS, ep0 = RequestOf(op), ep0' = "none",
         UNCHANGED <<rxIrq, hostVars, busVars>>,
         Sound(dev'), Current(dev'), Reception(dev') = Reception(dev),
         \A other \in RX_BLOCK_OPS : other \in dev'.deferred =>
           other = op \/ other \in dev.deferred
  PROVE  IInv'
<1>1. /\ Arrived(dev') = Arrived(dev) /\ Passed(dev') = Passed(dev)
      /\ dev'.rxPktRdy = dev.rxPktRdy /\ dev'.bConnected = dev.bConnected
      /\ "PACKET_RX" \in dev'.deferred <=> "PACKET_RX" \in dev.deferred
  BY ReceptionKept
<1>2. UNCHANGED <<rxIrq, sent, asked, breakAsked, requests, configured, lost, restarts>>
  BY DEF hostVars, busVars
<1>3. OtherTypes' /\ PacketRemembered' /\ CodingExpected'
  BY <1>1, <1>2
  DEF IInv, OtherTypes, Counts, Ep0States, PacketRemembered, CodingExpected
<1>4. ASSUME restarts = 0 PROVE Ordered'
  <2>1. Ordered
    BY <1>4 DEF IInv
  <2>2. \A other \in RX_BLOCK_OPS : ep0' # RequestOf(other)
    BY DEF RX_BLOCK_OPS, RequestOf
  <2> QED BY <1>1, <1>2, <2>1, <2>2 DEF Ordered
<1> QED BY <1>1, <1>2, <1>3, <1>4, DeviceStep DEF hostVars

\* What a request handler and its step have in common.
AsksFor(op) ==
  /\ IInv'
  /\ \A other \in RX_BLOCK_OPS : Learns(other, dev, dev') =>
       ep0 = RequestOf(other) \/ other \in dev.deferred

LEMMA HandleSetControlLineStateKeepsIInv ==
  ASSUME IInv, HandleSetControlLineState
  PROVE  AsksFor("LINE_STATE_CHANGE")
<1> DEFINE base == [dev EXCEPT !.usControlLineState = requests]
           d == Defer(base, "LINE_STATE_CHANGE")
           told == SendLineStateChange(d)
<1>1. /\ Sound(dev) /\ Current(dev) /\ dev \in DeviceStates
      /\ requests \in 0 .. MaxRequests
      /\ dev.deferred \cup {"LINE_STATE_CHANGE"} \in SUBSET DeferredOps
  BY DEF IInv, Sound, OtherTypes, DeviceStates, DeferredOps, RX_BLOCK_OPS
<1>2. base \in DeviceStates
  BY <1>1 DEF DeviceStates
<1>3. d = [base EXCEPT !.deferred = base.deferred \cup {"LINE_STATE_CHANGE"}]
  BY DEF Defer
<1>4. dev' = OrBlock(d, told)
  BY DEF HandleSetControlLineState
<1>5. /\ d \in DeviceStates
      /\ d.deferred = dev.deferred \cup {"LINE_STATE_CHANGE"}
      /\ Reception(d) = Reception(dev) /\ d.bRxBlocked = dev.bRxBlocked
      /\ d.usBreakDuration = dev.usBreakDuration
      /\ d.fifo = dev.fifo /\ d.rxPktRdy = dev.rxPktRdy
      /\ d.lineState = dev.lineState /\ d.lineCoding = dev.lineCoding
      /\ d.g_bSendingBreak = dev.g_bSendingBreak /\ d.sLineCoding = dev.sLineCoding
  <2>1. base.deferred = dev.deferred
    BY <1>1 DEF DeviceStates
  <2> HIDE DEF d
  <2>2. d \in DeviceStates
    BY <1>1, <1>2, <1>3, <2>1 DEF DeviceStates
  <2> QED BY <1>1, <1>3, <2>1, <2>2 DEF DeviceStates, Reception
<1> HIDE DEF d
<1>6. Ranged(d)
  BY <1>1, <1>5 DEF Ranged, Sound, Timed
<1>7. Tells("LINE_STATE_CHANGE", d, told)
  BY <1>6, SendLineStateChangeTells
<1> HIDE DEF told
<1>8. /\ Sound(dev') /\ Current(dev') /\ Reception(dev') = Reception(dev)
      /\ \A other \in RX_BLOCK_OPS :
           other \in dev'.deferred \/ Learns(other, dev, dev') =>
             other = "LINE_STATE_CHANGE" \/ other \in dev.deferred
  BY <1>1, <1>4, <1>5, <1>6, <1>7, OrBlockTellsOrWaits DEF RX_BLOCK_OPS
<1>9. ep0 = RequestOf("LINE_STATE_CHANGE") /\ "LINE_STATE_CHANGE" \in RX_BLOCK_OPS
  BY DEF HandleSetControlLineState, RequestOf, RX_BLOCK_OPS
<1>10. IInv'
  BY <1>8, <1>9, RequestKeepsIInv DEF HandleSetControlLineState
<1> QED BY <1>8, <1>9, <1>10 DEF AsksFor

LEMMA HandleSendBreakKeepsIInv ==
  ASSUME IInv, HandleSendBreak
  PROVE  AsksFor("SEND_BREAK")
<1> DEFINE base == [dev EXCEPT !.usBreakDuration = breakAsked]
           d == Defer(base, "SEND_BREAK")
           told == SendBreak(d, breakAsked # 0)
<1>1. /\ Sound(dev) /\ Current(dev) /\ dev \in DeviceStates
      /\ breakAsked \in Durations \cup {0} /\ breakAsked \in Nat
      /\ dev.deferred \cup {"SEND_BREAK"} \in SUBSET DeferredOps
  BY RxAssumption DEF IInv, Sound, OtherTypes, DeviceStates, DeferredOps, RX_BLOCK_OPS
<1>2. base \in DeviceStates
  BY <1>1 DEF DeviceStates
<1>3. d = [base EXCEPT !.deferred = base.deferred \cup {"SEND_BREAK"}]
  BY DEF Defer
<1>4. dev' = OrBlock(d, told)
  BY DEF HandleSendBreak
<1>5. /\ d \in DeviceStates
      /\ d.deferred = dev.deferred \cup {"SEND_BREAK"}
      /\ Reception(d) = Reception(dev) /\ d.bRxBlocked = dev.bRxBlocked
      /\ d.usBreakDuration = breakAsked
      /\ d.fifo = dev.fifo /\ d.rxPktRdy = dev.rxPktRdy
      /\ d.lineState = dev.lineState /\ d.lineCoding = dev.lineCoding
      /\ d.g_bSendingBreak = dev.g_bSendingBreak /\ d.sLineCoding = dev.sLineCoding
      /\ d.usControlLineState = dev.usControlLineState
  <2>1. base.deferred = dev.deferred
    BY <1>1 DEF DeviceStates
  <2> HIDE DEF d
  <2>2. d \in DeviceStates
    BY <1>1, <1>2, <1>3, <2>1 DEF DeviceStates
  <2> QED BY <1>1, <1>3, <2>1, <2>2 DEF DeviceStates, Reception
<1> HIDE DEF d
<1>6. Ranged(d)
  <2>1. d.usBreakDuration \in 0 .. breakAsked
    BY <1>1, <1>5
  <2> QED BY <1>1, <1>5, <2>1 DEF Ranged, Sound, Timed
<1>7. Tells("SEND_BREAK", d, told)
  BY <1>6, SendBreakTells
<1> HIDE DEF told
<1>8. /\ Sound(dev') /\ Current(dev') /\ Reception(dev') = Reception(dev)
      /\ \A other \in RX_BLOCK_OPS :
           other \in dev'.deferred \/ Learns(other, dev, dev') =>
             other = "SEND_BREAK" \/ other \in dev.deferred
  BY <1>1, <1>4, <1>5, <1>6, <1>7, OrBlockTellsOrWaits DEF RX_BLOCK_OPS
<1>9. ep0 = RequestOf("SEND_BREAK") /\ "SEND_BREAK" \in RX_BLOCK_OPS
  BY DEF HandleSendBreak, RequestOf, RX_BLOCK_OPS
<1>10. IInv'
  BY <1>8, <1>9, RequestKeepsIInv DEF HandleSendBreak
<1> QED BY <1>8, <1>9, <1>10 DEF AsksFor

LEMMA HandleEP0DataKeepsIInv ==
  ASSUME IInv, HandleEP0Data
  PROVE  AsksFor("LINE_CODING_CHANGE")
<1> DEFINE base == [dev EXCEPT !.sLineCoding = requests]
           idle == [base EXCEPT !.eCDCRequestState = "IDLE"]
           d == Defer(idle, "LINE_CODING_CHANGE")
           told == SendLineCodingChange(d)
<1>1. /\ Sound(dev) /\ Current(dev) /\ dev \in DeviceStates
      /\ requests \in 0 .. MaxRequests
      /\ dev.deferred \cup {"LINE_CODING_CHANGE"} \in SUBSET DeferredOps
  BY DEF IInv, Sound, OtherTypes, DeviceStates, DeferredOps, RX_BLOCK_OPS
<1>2. base \in DeviceStates
  BY <1>1 DEF DeviceStates
<1>3. d = [idle EXCEPT !.deferred = idle.deferred \cup {"LINE_CODING_CHANGE"}]
  BY DEF Defer
<1>4. dev.eCDCRequestState = "WAIT_DATA"
  BY DEF HandleEP0Data, IInv, CodingExpected
<1>5. dev' = OrBlock(d, told)
  BY <1>4 DEF HandleEP0Data
<1>6. /\ d \in DeviceStates
      /\ d.deferred = dev.deferred \cup {"LINE_CODING_CHANGE"}
      /\ Reception(d) = Reception(dev) /\ d.bRxBlocked = dev.bRxBlocked
      /\ d.usBreakDuration = dev.usBreakDuration
      /\ d.fifo = dev.fifo /\ d.rxPktRdy = dev.rxPktRdy
      /\ d.lineState = dev.lineState /\ d.lineCoding = dev.lineCoding
      /\ d.g_bSendingBreak = dev.g_bSendingBreak
      /\ d.usControlLineState = dev.usControlLineState
  <2> HIDE DEF base
  <2>1. base.deferred = dev.deferred /\ Reception(base) = Reception(dev)
        /\ base.bRxBlocked = dev.bRxBlocked
        /\ base.usBreakDuration = dev.usBreakDuration
        /\ base.fifo = dev.fifo /\ base.rxPktRdy = dev.rxPktRdy
        /\ base.lineState = dev.lineState /\ base.lineCoding = dev.lineCoding
        /\ base.g_bSendingBreak = dev.g_bSendingBreak
        /\ base.usControlLineState = dev.usControlLineState
    BY <1>1 DEF DeviceStates, Reception, base
  <2>2. idle \in DeviceStates
    BY <1>2 DEF DeviceStates
  <2>3. idle.deferred = base.deferred
    BY <1>2 DEF DeviceStates
  <2> HIDE DEF d
  <2>4. d \in DeviceStates
    <3> HIDE DEF idle
    <3> QED BY <1>1, <1>3, <2>1, <2>2, <2>3 DEF DeviceStates
  <2> QED BY <1>2, <1>3, <2>1, <2>3, <2>4 DEF DeviceStates, Reception
<1> HIDE DEF d
<1>7. Ranged(d)
  BY <1>1, <1>6 DEF Ranged, Sound, Timed
<1>8. Tells("LINE_CODING_CHANGE", d, told)
  BY <1>7, SendLineCodingChangeTells
<1> HIDE DEF told
<1>9. /\ Sound(dev') /\ Current(dev') /\ Reception(dev') = Reception(dev)
      /\ \A other \in RX_BLOCK_OPS :
           other \in dev'.deferred \/ Learns(other, dev, dev') =>
             other = "LINE_CODING_CHANGE" \/ other \in dev.deferred
  BY <1>1, <1>5, <1>6, <1>7, <1>8, OrBlockTellsOrWaits DEF RX_BLOCK_OPS
<1>10. ep0 = RequestOf("LINE_CODING_CHANGE") /\ "LINE_CODING_CHANGE" \in RX_BLOCK_OPS
  BY DEF HandleEP0Data, RequestOf, RX_BLOCK_OPS
<1>11. IInv'
  BY <1>9, <1>10, RequestKeepsIInv DEF HandleEP0Data
<1> QED BY <1>9, <1>10, <1>11 DEF AsksFor

LEMMA HandleSetLineCodingKeepsIInv ==
  ASSUME IInv, HandleSetLineCoding
  PROVE  IInv' /\ (\A op \in RX_BLOCK_OPS : ~Learns(op, dev, dev'))
<1>1. /\ dev' = [dev EXCEPT !.eCDCRequestState = "WAIT_DATA"]
      /\ ep0 = "SET_LINE_CODING" /\ ep0' = "expect_coding"
      /\ UNCHANGED <<rxIrq, sent, asked, breakAsked, requests, configured, lost, restarts>>
      /\ Sound(dev) /\ Current(dev) /\ dev \in DeviceStates
  BY DEF HandleSetLineCoding, hostVars, busVars, IInv, Sound, Ranged
<1>2. /\ dev' \in DeviceStates /\ dev'.eCDCRequestState = "WAIT_DATA"
      /\ Reception(dev') = Reception(dev) /\ dev'.deferred = dev.deferred
      /\ dev'.bRxBlocked = dev.bRxBlocked /\ dev'.usBreakDuration = dev.usBreakDuration
      /\ dev'.fifo = dev.fifo /\ dev'.rxPktRdy = dev.rxPktRdy
      /\ dev'.lineState = dev.lineState /\ dev'.lineCoding = dev.lineCoding
      /\ dev'.g_bSendingBreak = dev.g_bSendingBreak
      /\ dev'.usControlLineState = dev.usControlLineState
      /\ dev'.sLineCoding = dev.sLineCoding
  BY <1>1 DEF DeviceStates, Reception
<1>3. Sound(dev') /\ Current(dev') /\ \A op \in RX_BLOCK_OPS : ~Learns(op, dev, dev')
  BY <1>1, <1>2 DEF Sound, Timed, Current, Learns
<1>4. /\ Arrived(dev') = Arrived(dev) /\ Passed(dev') = Passed(dev)
      /\ dev'.bConnected = dev.bConnected
  BY <1>2, ReceptionKept
<1>5. OtherTypes' /\ CodingExpected' /\ PacketRemembered'
  BY <1>1, <1>2
  DEF IInv, OtherTypes, Counts, Ep0States, CodingExpected, PacketRemembered
<1>6. restarts = 0 => Ordered'
  BY <1>1, <1>2, <1>4 DEF IInv, Ordered, RequestOf, RX_BLOCK_OPS
<1>7. IInv'
  BY <1>1, <1>3, <1>4, <1>5, <1>6, DeviceStep DEF hostVars
<1> QED BY <1>3, <1>7

\* A configuration follows a reset or a disconnection; what it flushes is lost.
LEMMA HandleConfigChangeKeepsIInv ==
  ASSUME IInv, HandleConfigChange
  PROVE  IInv' /\ (\A op \in RX_BLOCK_OPS : ~Learns(op, dev, dev'))
<1> DEFINE index == IF dev.bConnected THEN dev.ulReadIndex ELSE dev.ulWriteIndex
<1>1. /\ dev' = [dev EXCEPT !.eCDCRequestState = "IDLE", !.bConnected = TRUE,
                            !.ulReadIndex = index]
      /\ lost' = (IF dev.bConnected THEN lost ELSE lost + InRing(dev))
      /\ ep0 = "SET_CONFIGURATION" /\ ep0' = "none" /\ configured' = TRUE
      /\ UNCHANGED <<rxIrq, sent, asked, breakAsked, requests, restarts>>
  BY DEF HandleConfigChange, hostVars
<1>2. /\ Sound(dev) /\ Current(dev) /\ dev \in DeviceStates
      /\ dev.ulReadIndex \in Index /\ dev.ulWriteIndex \in Index /\ lost \in Nat
      /\ dev.fifo \in Nat /\ dev.taken \in Nat
  BY RxAssumption DEF IInv, Sound, Ranged, OtherTypes, DeviceStates
<1>3. index \in Index
  BY <1>2
<1> HIDE DEF index
<1>4. /\ dev' \in DeviceStates /\ dev'.ulReadIndex = index
      /\ dev'.ulWriteIndex = dev.ulWriteIndex /\ dev'.taken = dev.taken
      /\ dev'.deferred = dev.deferred
      /\ dev'.bRxBlocked = dev.bRxBlocked /\ dev'.usBreakDuration = dev.usBreakDuration
      /\ dev'.fifo = dev.fifo /\ dev'.rxPktRdy = dev.rxPktRdy
      /\ dev'.lineState = dev.lineState /\ dev'.lineCoding = dev.lineCoding
      /\ dev'.g_bSendingBreak = dev.g_bSendingBreak
      /\ dev'.usControlLineState = dev.usControlLineState
      /\ dev'.sLineCoding = dev.sLineCoding
  BY <1>1, <1>2, <1>3 DEF DeviceStates
<1>5. Sound(dev') /\ Current(dev') /\ \A op \in RX_BLOCK_OPS : ~Learns(op, dev, dev')
  BY <1>2, <1>4 DEF Sound, Timed, Current, Learns
<1>6. InRing(dev) \in Nat
  BY <1>2, InRingType
<1>7. sent' = lost' + Arrived(dev')
  <2>1. sent = lost + Arrived(dev)
    BY DEF IInv
  <2>2. CASE dev.bConnected
    BY <1>1, <1>4, <2>1, <2>2 DEF index, Arrived, Passed, InRing
  <2>3. CASE ~dev.bConnected
    <3>1. InRing(dev') = 0
      BY <1>2, <1>4, <2>3 DEF index, InRing, Used, Index
    <3> QED BY <1>1, <1>2, <1>4, <1>6, <2>1, <2>3, <3>1 DEF Arrived, Passed
  <2> QED BY <1>2, <2>2, <2>3 DEF DeviceStates
<1>8. OtherTypes' /\ CodingExpected' /\ PacketRemembered'
  BY <1>1, <1>4, <1>6
  DEF IInv, OtherTypes, Counts, Ep0States, CodingExpected, PacketRemembered
<1>9. restarts # 0
  BY <1>1 DEF IInv, Ordered
<1> QED BY <1>1, <1>5, <1>7, <1>8, <1>9 DEF IInv

\* A reset or a disconnection: the endpoint may be emptied, and the driver is
\* told of no more than the disconnection.
LEMMA RestartKeepsIInv ==
  ASSUME IInv, HandleDisconnect \/ BusReset
  PROVE  IInv' /\ (\A op \in RX_BLOCK_OPS : ~Learns(op, dev, dev'))
<1>1. /\ ep0' = "none" /\ configured' = FALSE /\ restarts' = restarts + 1
      /\ UNCHANGED <<rxIrq, sent, asked, breakAsked, requests>>
      /\ Sound(dev) /\ Current(dev) /\ dev \in DeviceStates
      /\ lost \in Nat /\ restarts \in Nat /\ dev.fifo \in Nat
      /\ 0 \in 0 .. Packet
  BY RxAssumption
  DEF HandleDisconnect, BusReset, hostVars, IInv, Sound, Ranged, OtherTypes, DeviceStates
<1>2. /\ dev' \in DeviceStates
      /\ dev'.ulReadIndex = dev.ulReadIndex
      /\ dev'.ulWriteIndex = dev.ulWriteIndex /\ dev'.taken = dev.taken
      /\ dev'.deferred = dev.deferred
      /\ dev'.bRxBlocked = dev.bRxBlocked /\ dev'.usBreakDuration = dev.usBreakDuration
      /\ dev'.lineState = dev.lineState /\ dev'.lineCoding = dev.lineCoding
      /\ dev'.g_bSendingBreak = dev.g_bSendingBreak
      /\ dev'.usControlLineState = dev.usControlLineState
      /\ dev'.sLineCoding = dev.sLineCoding
      /\ \/ dev'.fifo = dev.fifo /\ dev'.rxPktRdy = dev.rxPktRdy /\ lost' = lost
         \/ dev'.fifo = 0 /\ ~dev'.rxPktRdy /\ lost' = lost + dev.fifo
  <2>1. CASE HandleDisconnect
    BY <1>1, <2>1 DEF HandleDisconnect, DeviceStates
  <2>2. CASE BusReset
    BY <1>1, <2>2 DEF BusReset, DeviceStates
  <2> QED BY <2>1, <2>2
<1>3. Sound(dev') /\ Current(dev') /\ \A op \in RX_BLOCK_OPS : ~Learns(op, dev, dev')
  BY <1>1, <1>2 DEF Sound, Timed, Current, Learns
<1>4. sent' = lost' + Arrived(dev')
  <2>1. sent = lost + Arrived(dev) /\ Passed(dev) \in Nat /\ Passed(dev') = Passed(dev)
    BY <1>1, <1>2, InRingType DEF IInv, Passed, InRing
  <2> QED BY <1>1, <1>2, <2>1 DEF Arrived
<1>5. OtherTypes' /\ CodingExpected' /\ PacketRemembered'
  <2>1. lost' \in Nat /\ restarts' \in Nat
    BY <1>1, <1>2
  <2>2. OtherTypes'
    BY <1>1, <2>1 DEF IInv, OtherTypes, Counts, Ep0States
  <2> QED BY <1>1, <1>2, <2>2 DEF IInv, CodingExpected, PacketRemembered
<1>6. restarts' # 0
  BY <1>1
<1> QED BY <1>3, <1>4, <1>5, <1>6 DEF IInv

LEMMA UartKeepsIInv ==
  ASSUME IInv, UartInterrupt \/ UartSends
  PROVE  IInv' /\ (\A op \in RX_BLOCK_OPS : ~Learns(op, dev, dev'))
<1>1. /\ UNCHANGED <<rxIrq, ep0, sent, asked, breakAsked, requests, configured, lost, restarts>>
      /\ Sound(dev) /\ Current(dev) /\ dev \in DeviceStates
  BY DEF UartInterrupt, UartSends, hostVars, busVars, IInv, Sound, Ranged
<1>2. /\ Sound(dev') /\ Requested(dev') = Requested(dev) /\ Arrived(dev') = Arrived(dev)
      /\ Passed(dev') = Passed(dev)
      /\ dev'.rxPktRdy = dev.rxPktRdy /\ dev'.deferred = dev.deferred
  <2>1. CASE UartInterrupt
    <3> DEFINE d == USBUARTPrimeTransmit(dev)
    <3>1. /\ Sound(d) /\ Receives(dev, d) /\ Passed(d) = Passed(dev)
          /\ d.rxPktRdy = dev.rxPktRdy /\ d.deferred = dev.deferred
      BY <1>1, PrimeTransmitMoves
    <3>2. dev' = [d EXCEPT !.txInt = InRing(d) # 0]
      BY <2>1 DEF UartInterrupt
    <3> HIDE DEF d
    <3>3. d \in DeviceStates /\ (InRing(d) # 0) \in BOOLEAN
      BY <3>1 DEF Sound, Ranged
    <3>4. /\ dev' \in DeviceStates /\ Requested(dev') = Requested(d)
          /\ Passed(dev') = Passed(d) /\ Arrived(dev') = Arrived(d)
          /\ dev'.fifo = d.fifo /\ dev'.rxPktRdy = d.rxPktRdy
          /\ dev'.deferred = d.deferred /\ dev'.bRxBlocked = d.bRxBlocked
          /\ dev'.usBreakDuration = d.usBreakDuration
      BY <3>2, <3>3 DEF DeviceStates, Requested, Passed, Arrived, InRing
    <3> QED BY <3>1, <3>4 DEF Receives, Sound, Timed
  <2>2. CASE UartSends
    <3>1. dev' = [dev EXCEPT !.uart = dev.uart - 1] /\ dev.uart - 1 \in 0 .. UartRoom
      BY <1>1, <2>2, RxAssumption DEF UartSends, DeviceStates
    <3>2. /\ dev' \in DeviceStates /\ Requested(dev') = Requested(dev)
          /\ Passed(dev') = Passed(dev) /\ Arrived(dev') = Arrived(dev)
          /\ dev'.fifo = dev.fifo /\ dev'.rxPktRdy = dev.rxPktRdy
          /\ dev'.deferred = dev.deferred /\ dev'.bRxBlocked = dev.bRxBlocked
          /\ dev'.usBreakDuration = dev.usBreakDuration
      BY <1>1, <3>1 DEF DeviceStates, Requested, Passed, Arrived, InRing
    <3> QED BY <1>1, <3>2 DEF Sound, Timed
  <2> QED BY <2>1, <2>2
<1>3. Current(dev') /\ \A op \in RX_BLOCK_OPS : ~Learns(op, dev, dev')
  BY <1>1, <1>2 DEF Requested, Current, Learns
<1>4. OtherTypes' /\ CodingExpected' /\ PacketRemembered'
  BY <1>1, <1>2
  DEF IInv, OtherTypes, Counts, CodingExpected, PacketRemembered, Requested
<1>5. restarts = 0 => Ordered'
  BY <1>1, <1>2 DEF IInv, Ordered, Requested
<1>6. IInv'
  BY <1>1, <1>2, <1>3, <1>4, <1>5, DeviceStep DEF hostVars
<1> QED BY <1>3, <1>6

LEMMA HostSendsPacketKeepsIInv ==
  ASSUME IInv, HostSendsPacket
  PROVE  IInv' /\ (\A op \in RX_BLOCK_OPS : ~Learns(op, dev, dev'))
<1>1. PICK n \in 0 .. Packet : /\ sent + n <= MaxBytes /\ sent' = sent + n
                               /\ dev' = [dev EXCEPT !.fifo = n, !.rxPktRdy = TRUE]
  BY DEF HostSendsPacket
<1>2. /\ ~dev.rxPktRdy /\ rxIrq' = TRUE
      /\ UNCHANGED <<ep0, asked, breakAsked, requests, configured, lost, restarts>>
      /\ Sound(dev) /\ Current(dev) /\ dev \in DeviceStates
      /\ n \in Nat /\ sent \in Nat /\ lost \in Nat /\ dev.fifo \in Nat
  BY RxAssumption
  DEF HostSendsPacket, busVars, IInv, Sound, Ranged, OtherTypes, Counts, DeviceStates
<1>3. dev.fifo = 0
  BY <1>2 DEF Sound
<1>4. /\ dev' \in DeviceStates /\ dev'.fifo = n /\ dev'.rxPktRdy
      /\ Requested(dev') = Requested(dev) /\ Passed(dev') = Passed(dev)
      /\ dev'.deferred = dev.deferred /\ dev'.bRxBlocked = dev.bRxBlocked
      /\ dev'.usBreakDuration = dev.usBreakDuration
  BY <1>1, <1>2 DEF DeviceStates, Requested, Passed, InRing
<1>5. Sound(dev') /\ Current(dev') /\ \A op \in RX_BLOCK_OPS : ~Learns(op, dev, dev')
  BY <1>2, <1>4 DEF Sound, Timed, Requested, Current, Learns
<1>6. sent' = lost' + Arrived(dev')
  <2>1. sent = lost + Arrived(dev) /\ Passed(dev) \in Nat
    BY <1>2, InRingType DEF IInv
  <2> QED BY <1>1, <1>2, <1>3, <1>4, <2>1 DEF Arrived
<1>7. OtherTypes' /\ CodingExpected' /\ PacketRemembered'
  <2>1. sent' \in Counts
    BY <1>1, <1>2, RxAssumption DEF Counts
  <2> QED BY <1>2, <1>4, <2>1
          DEF IInv, OtherTypes, Counts, CodingExpected, PacketRemembered, Requested
<1>8. restarts = 0 => Ordered'
  BY <1>2, <1>4 DEF IInv, Ordered, Requested
<1> QED BY <1>2, <1>5, <1>6, <1>7, <1>8 DEF IInv

\* A request arrives: every byte sent so far may come before it.
LEMMA HostRequestKeepsIInv ==
  ASSUME IInv, HostRequests \/ HostSendsCoding \/ HostConfigures
  PROVE  IInv' /\ dev' = dev
<1>1. /\ UNCHANGED <<dev, rxIrq, sent, configured, lost, restarts>>
      /\ Sound(dev) /\ Current(dev) /\ dev \in DeviceStates
      /\ sent \in Counts /\ sent \in Nat /\ lost \in Nat /\ requests \in 0 .. MaxRequests
      /\ asked \in [RX_BLOCK_OPS -> Counts] /\ MaxRequests \in Nat
      /\ Passed(dev) \in Nat /\ dev.fifo \in Nat
  BY RxAssumption, InRingType
  DEF HostRequests, HostSendsCoding, HostConfigures, hostVars, busVars, IInv, Sound,
      OtherTypes, Counts, DeviceStates
<1>2. /\ Sound(dev') /\ Current(dev') /\ sent' = lost' + Arrived(dev')
      /\ PacketRemembered' /\ Passed(dev') = Passed(dev)
  BY <1>1 DEF IInv, PacketRemembered
<1>3. Passed(dev) <= sent
  BY <1>1 DEF IInv, Arrived
<1>4. \A op \in RX_BLOCK_OPS :
        \/ asked'[op] = sent
        \/ asked'[op] = asked[op] /\ (ep0' = RequestOf(op) => ep0 = RequestOf(op))
  <2>1. CASE HostRequests
    BY <1>1, <2>1 DEF HostRequests, RequestOf, RX_BLOCK_OPS
  <2>2. CASE HostSendsCoding
    BY <1>1, <2>2 DEF HostSendsCoding, RequestOf, RX_BLOCK_OPS
  <2>3. CASE HostConfigures
    BY <1>1, <2>3 DEF HostConfigures, hostVars, RequestOf, RX_BLOCK_OPS
  <2> QED BY <2>1, <2>2, <2>3
<1>5. OtherTypes'
  <2>1. CASE HostRequests
    <3>1. asked' \in [RX_BLOCK_OPS -> Counts]
      BY <1>1, <2>1 DEF HostRequests
    <3>2. requests' \in 0 .. MaxRequests
      BY <1>1, <2>1 DEF HostRequests
    <3>3. ep0' \in Ep0States /\ breakAsked' \in Durations \cup {0}
      BY <2>1 DEF HostRequests, IInv, OtherTypes, Ep0States, Requests
    <3> QED BY <1>1, <3>1, <3>2, <3>3 DEF IInv, OtherTypes, Counts
  <2>2. CASE HostSendsCoding
    <3>1. asked' \in [RX_BLOCK_OPS -> Counts]
      BY <1>1, <2>2 DEF HostSendsCoding
    <3> QED BY <1>1, <2>2, <3>1
            DEF HostSendsCoding, IInv, OtherTypes, Counts, Ep0States, Requests
  <2>3. CASE HostConfigures
    BY <1>1, <2>3
    DEF HostConfigures, hostVars, IInv, OtherTypes, Counts, Ep0States, Requests
  <2> QED BY <2>1, <2>2, <2>3
<1>6. CodingExpected'
  BY <1>1 DEF HostRequests, HostSendsCoding, HostConfigures, IInv, CodingExpected
<1>7. ASSUME restarts = 0 PROVE Ordered'
  <2>1. Ordered
    BY <1>7 DEF IInv
  <2>2. ep0' # "SET_CONFIGURATION"
    BY <2>1 DEF HostRequests, HostSendsCoding, HostConfigures, Ordered
  <2>3. \A op \in RX_BLOCK_OPS :
          /\ op \in dev'.deferred => Passed(dev') <= asked'[op]
          /\ ep0' = RequestOf(op) => /\ Passed(dev') <= asked'[op]
                                     /\ ~rxIrq' => sent' <= asked'[op]
    BY <1>1, <1>2, <1>3, <1>4, <2>1 DEF Ordered
  <2> QED BY <1>1, <2>1, <2>2, <2>3 DEF Ordered
<1> QED BY <1>1, <1>2, <1>5, <1>6, <1>7 DEF IInv

-----------------------------------------------------------------------------
(* The theorems.                                                            *)

\* Every step keeps the invariant, and tells the client only of changes that
\* wait or are being asked for.
LEMMA NextKeepsIInv ==
  ASSUME IInv, [Next]_vars
  PROVE  /\ IInv'
         /\ \A op \in RX_BLOCK_OPS : Learns(op, dev, dev') =>
              ep0 = RequestOf(op) \/ op \in dev.deferred
<1>1. CASE UNCHANGED vars
  <2>1. IInv'
    BY <1>1 DEF IInv, Sound, Timed, Current, OtherTypes, Counts, CodingExpected,
       Arrived, Passed, InRing, PacketRemembered, Ordered, vars, hostVars, busVars
  <2> QED BY <1>1, <2>1 DEF Learns, vars
<1>2. CASE UsbInterrupt
  BY <1>2, CDCTickHandlerKeepsIInv, ProcessDataFromHostKeepsIInv,
     HandleSetControlLineStateKeepsIInv, HandleSendBreakKeepsIInv,
     HandleSetLineCodingKeepsIInv, HandleEP0DataKeepsIInv, HandleConfigChangeKeepsIInv
  DEF UsbInterrupt, EndpointZero, AsksFor
<1>3. CASE HandleDisconnect \/ BusReset
  BY <1>3, RestartKeepsIInv
<1>4. CASE Client
  BY <1>4, UartKeepsIInv DEF Client
<1>5. CASE HostSendsPacket
  BY <1>5, HostSendsPacketKeepsIInv
<1>6. CASE HostRequests \/ HostSendsCoding \/ HostConfigures
  BY <1>6, HostRequestKeepsIInv DEF Learns
<1> QED BY <1>1, <1>2, <1>3, <1>4, <1>5, <1>6 DEF Next, Host

\* The inductive invariant holds of every behaviour.
THEOREM RxInvariant == Spec => []IInv
<1>1. Init => IInv
  BY InitIInv
<1>2. IInv /\ [Next]_vars => IInv'
  BY NextKeepsIInv
<1> QED BY <1>1, <1>2, PTL DEF Spec

\* The indices stay in the ring, the endpoint holds no more than a packet, the
\* UART is never given more than it takes, and no counter outgrows what the host
\* has sent.
THEOREM RxTypeCorrect == Spec => []TypeOK
<1>1. IInv => TypeOK
  <2> SUFFICES ASSUME IInv PROVE TypeOK
    OBVIOUS
  <2>1. Sound(dev) /\ dev \in DeviceStates /\ OtherTypes
    BY DEF IInv, Sound
  <2>2. dev.taken \in Nat /\ InRing(dev) \in Nat /\ dev.fifo \in Nat
    BY <2>1, InRingType, RxAssumption DEF DeviceStates
  <2>3. sent = lost + (dev.fifo + (dev.taken + InRing(dev))) /\ sent \in Counts
    BY DEF IInv, Arrived, Passed, OtherTypes
  <2>4. lost \in Counts /\ dev.taken \in Counts
    BY <2>1, <2>2, <2>3, RxAssumption DEF OtherTypes, Counts
  <2>5. /\ dev.ulReadIndex \in Index /\ dev.ulWriteIndex \in Index
        /\ dev.deferred \subseteq DeferredOps
        /\ \E n \in Durations \cup {0} : dev.usBreakDuration \in 0 .. n
        /\ dev.eCDCRequestState \in {"IDLE", "WAIT_DATA"}
    BY <2>1 DEF Sound, Timed, DeviceStates
  <2>6. {dev.bRxBlocked, dev.bConnected, dev.rxPktRdy, dev.txInt,
         dev.g_bSendingBreak, rxIrq, configured} \subseteq BOOLEAN
    BY <2>1 DEF DeviceStates, OtherTypes
  <2>7. /\ dev.fifo \in 0 .. Packet /\ (dev.fifo > 0 => dev.rxPktRdy)
        /\ dev.uart \in 0 .. UartRoom
        /\ {dev.usControlLineState, dev.sLineCoding, dev.lineState, dev.lineCoding}
             \subseteq 0 .. MaxRequests
    BY <2>1 DEF Sound, DeviceStates
  <2>8. asked \in [RX_BLOCK_OPS -> Counts] /\ ep0 \in Ep0States
    BY <2>1 DEF OtherTypes
  <2> QED BY <2>3, <2>4, <2>5, <2>6, <2>7, <2>8 DEF TypeOK
<1> QED BY <1>1, RxInvariant, PTL

\* No byte is lost or duplicated between the endpoint, the ring and the client,
\* whatever is put off, blocked, retried, reset or flushed in between.
THEOREM RxEveryByteSomewhere == Spec => []EveryByteSomewhere
<1>1. IInv => EveryByteSomewhere
  <2> SUFFICES ASSUME IInv PROVE EveryByteSomewhere
    OBVIOUS
  <2>1. dev \in DeviceStates /\ lost \in Nat
    BY DEF IInv, Sound, OtherTypes
  <2>2. dev.taken \in Nat /\ InRing(dev) \in Nat /\ dev.fifo \in Nat
    BY <2>1, InRingType, RxAssumption DEF DeviceStates
  <2>3. sent = lost + (dev.fifo + (dev.taken + InRing(dev)))
    BY DEF IInv, Arrived, Passed
  <2> QED BY <2>1, <2>2, <2>3 DEF EveryByteSomewhere
<1> QED BY <1>1, RxInvariant, PTL

\* A packet in the endpoint has an interrupt or a flag that will bring somebody
\* to read it.
THEOREM RxPacketRemembered == Spec => []PacketRemembered
<1>1. IInv => PacketRemembered
  BY DEF IInv
<1> QED BY <1>1, RxInvariant, PTL

\* With no change waiting, the client works with the settings last received.
THEOREM RxClientUpToDate == Spec => []ClientUpToDate
<1>1. IInv => ClientUpToDate
  BY DEF IInv, Current, ClientUpToDate
<1> QED BY <1>1, RxInvariant, PTL

\* A change is never overtaken by a byte the host sent after it: the retry of
\* the tick, the blocked endpoint and the order in which one interrupt serves
\* its sources keep such a byte in the endpoint.
THEOREM RxNoLaterDataFirst == Spec => NoLaterDataFirst
<1>1. IInv /\ [Next]_vars =>
        [restarts = 0 =>
           \A op \in RX_BLOCK_OPS :
             Told(op) => dev.taken + InRing(dev) <= asked[op]]_vars
  <2> SUFFICES ASSUME IInv, Next, restarts = 0,
                      NEW op \in RX_BLOCK_OPS, Told(op)
               PROVE  dev.taken + InRing(dev) <= asked[op]
    OBVIOUS
  <2>1. Learns(op, dev, dev')
    BY DEF Told, Learns
  <2>2. ep0 = RequestOf(op) \/ op \in dev.deferred
    BY <2>1, NextKeepsIInv
  <2> QED BY <2>2 DEF IInv, Ordered, Passed
<1> QED BY <1>1, RxInvariant, PTL DEF NoLaterDataFirst, Spec
=============================================================================
