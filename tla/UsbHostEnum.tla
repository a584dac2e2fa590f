------------------------------ MODULE UsbHostEnum ------------------------------
(***************************************************************************)
(* The USB host's view of what is plugged in (usblib/host/usbhostenum.c):    *)
(* the main routine that resets, reads, addresses and configures a device    *)
(* and opens its driver, the control transfers it waits for, and the         *)
(* interrupt that advances them and notes connections and disconnections.    *)
(*                                                                         *)
(* USBHCDMain takes over the noted events with interrupts disabled in one    *)
(* step and acts on the device state in another.  A control transfer is a    *)
(* step that sends the SETUP packet, then interrupts, then a step that       *)
(* leaves the waiting loop.  Sizes are in units of four bytes.              *)
(***************************************************************************)
EXTENDS Integers

CONSTANTS
  Packet,         \* bMaxPacketSize0 of the devices
  DefaultPacket,  \* MAX_PACKET_SIZE_EP0
  Head,           \* wLength of the first request for the device descriptor
  DevSize,        \* sizeof(tDeviceDescriptor)
  CfgHead,        \* sizeof(tConfigDescriptor)
  CfgTotals,      \* what wTotalLength may be
  PoolSize,       \* ulPoolSize
  MaxPlugs,       \* bound: devices plugged in
  MaxFaults,      \* bound: hangs, stalls, VBUS errors and babble
  SlowHands       \* nothing is plugged in while a removal is unhandled

Min2(a, b) == IF a < b THEN a ELSE b

ASSUME HostAssumption ==
  /\ Packet \in Nat \ {0} /\ DefaultPacket \in Nat /\ DefaultPacket >= Packet
  /\ Head \in 1..Packet /\ Head < DefaultPacket
  /\ DevSize \in Nat /\ DevSize > Head
  /\ CfgHead \in Nat \ {0} /\ CfgTotals \subseteq Nat \ 0..CfgHead
  /\ PoolSize \in Nat /\ PoolSize > CfgHead
  /\ MaxPlugs \in Nat /\ MaxFaults \in Nat /\ SlowHands \in BOOLEAN

VARIABLES
  hcd,    \* g_sUSBHCD: device state, events, what is known of the device
  ep0,    \* g_sUSBHEP0State
  ctl,    \* endpoint zero of the controller: what it does on the bus, status
  irq,    \* interrupts due
  main,   \* where USBHCDMain is, for which transfer, and eOldState
  power,  \* the PHY is on
  open,   \* the mass storage driver has a device (pDevice # 0)
  dev,    \* the device
  plugs, faults

vars == <<hcd, ep0, ctl, irq, main, power, open, dev, plugs, faults>>

Quiet == [wire |-> "none", err |-> FALSE, stall |-> FALSE, rx |-> 0]
NoConfig == [from |-> 0, size |-> 0]     \* pConfigDescriptor = 0
Nobody == [plugged |-> FALSE, class |-> "none", total |-> 0, address |-> 0,
           hung |-> FALSE, req |-> "none", left |-> 0]

\* iUSBHActiveDriver is zero before anything sets it to -1: the first of the
\* registered drivers, mass storage.
Init ==
  /\ hcd = [state |-> "IDLE", events |-> {}, bLength |-> FALSE,
            config |-> NoConfig, ulAddress |-> 0, active |-> 0]
  /\ ep0 = [eState |-> "IDLE", remaining |-> 0, size |-> 0, max |-> 0,
            address |-> 0]
  /\ ctl = Quiet /\ irq = {}
  /\ main = [at |-> "main", transfer |-> "none", old |-> "IDLE"]
  /\ power = TRUE /\ open = FALSE
  /\ dev = Nobody /\ plugs = 0 /\ faults = 0

-----------------------------------------------------------------------------
(* Control transfers: the waiting side.                                     *)

\* Mutant: the descriptor is asked for as long as it says it is.
Whole_NoLimit == dev.total
Whole == Min2(dev.total, PoolSize)

\* Of each transfer: wLength, ulSize and ulMaxPacketSize, the address it goes
\* to and the direction of its data.
Asked(t) ==
  CASE t = "device8" -> Head
    [] t = "device" -> DevSize
    [] t = "config9" -> CfgHead
    [] t = "config" -> Whole
    [] OTHER -> 0
Room(t) == IF t = "device8" THEN DevSize ELSE Asked(t)
Target(t) == IF t = "setAddress" THEN 0 ELSE hcd.ulAddress
Inward == {"device8", "device", "config9", "config"}

\* USBHCDControlTransfer up to its loop.
Start(t, c) ==
  /\ ep0' = [eState |-> IF t \in Inward THEN "SETUP_IN" ELSE "STATUS_IN",
             remaining |-> Room(t), size |-> Room(t),
             max |-> IF t \in {"device", "config9", "config"} THEN Packet
                                                              ELSE DefaultPacket,
             address |-> Target(t)]
  /\ ctl' = [c EXCEPT !.wire = "setup"]
  /\ main' = [main EXCEPT !.at = "wait", !.transfer = t]

Back == [main EXCEPT !.at = "main", !.transfer = "none"]

\* What the callers do with the number of bytes a transfer returns, c being
\* endpoint zero by then: USBHCDGetDeviceDescriptor and
\* USBHCDGetConfigDescriptor ask again for the whole; no answer makes the
\* device faulty, except to those that set an address or a configuration.
AskWhole(n, c) ==
  \/ main.transfer = "device8" /\ n # 0 /\ Start("device", c)
  \/ main.transfer = "config9" /\ n = CfgHead /\ Start("config", c)

\* Mutant: any descriptor will do.
Answer_Unchecked(n) == UNCHANGED hcd
Answer(n) == hcd' = IF n = 0 THEN [hcd EXCEPT !.state = "DEV_ERROR"] ELSE hcd

DescriptorRead(n) ==
  /\ main.transfer \in Inward
  /\ ~(main.transfer = "device8" /\ n # 0)
  /\ ~(main.transfer = "config9" /\ n = CfgHead)
  /\ Answer(n)
  /\ UNCHANGED open

AddressSet ==
  /\ main.transfer = "setAddress"
  /\ hcd' = [hcd EXCEPT !.ulAddress = 1, !.state = "ADDRESSED"]
  /\ UNCHANGED open

\* With USBHCDOpenDriver: a driver that has a device refuses another.
ConfigSet ==
  /\ main.transfer = "setConfig"
  /\ LET opens == dev.class = "storage" /\ ~open
     IN  /\ hcd' = [hcd EXCEPT !.state = "CONFIGURED",
                               !.active = IF opens THEN 0 ELSE -1]
         /\ open' = (open \/ opens)

Return(n, c) ==
  \/ AskWhole(n, c) /\ UNCHANGED <<hcd, open>>
  \/ /\ DescriptorRead(n) \/ AddressSet \/ ConfigSet
     /\ main' = Back /\ ctl' = c /\ UNCHANGED ep0

\* The loop is left: the interrupt has finished the transfer; it has failed or
\* the device has gone, and the endpoint is flushed; nothing has happened for
\* seven seconds.
TransferDone ==
  /\ main.at = "wait" /\ ep0.eState = "IDLE"
  /\ Return(ep0.size - ep0.remaining, ctl)
  /\ UNCHANGED <<irq, power, dev, plugs, faults>>

TransferFails ==
  /\ main.at = "wait" /\ ep0.eState # "IDLE"
  /\ ep0.eState = "ERROR" \/ hcd.events \cap {"vbus", "disconnect", "babble"} # {}
  /\ Return(0, [ctl EXCEPT !.wire = "none"])
  /\ UNCHANGED <<irq, power, dev, plugs, faults>>

TimerElapses ==
  /\ main.at = "wait" /\ ep0.eState # "IDLE"
  /\ (dev.plugged /\ dev.hung) \/ ~power
  /\ Return(0, ctl)
  /\ UNCHANGED <<irq, power, dev, plugs, faults>>

-----------------------------------------------------------------------------
(* USBHCDMain.                                                              *)

\* The events are looked at in this order, and all forgotten.
Noticed(events, state) ==
  IF "vbus" \in events THEN "VBUS_ERROR"
  ELSE IF "babble" \in events THEN "BABBLE_ERROR"
  ELSE IF "connect" \in events THEN "DEV_RESET"
  ELSE IF "disconnect" \in events THEN "DEV_DISCONNECTED"
  ELSE state

Enter ==
  /\ main.at = "main"
  /\ hcd' = [hcd EXCEPT !.state = Noticed(hcd.events, hcd.state), !.events = {}]
  /\ main' = [main EXCEPT !.at = "case", !.old = hcd.state]
  /\ UNCHANGED <<ep0, ctl, irq, power, open, dev, plugs, faults>>

In(state) == main.at = "case" /\ hcd.state = state

\* USBHCDReset.
BusReset ==
  /\ In("DEV_RESET")
  /\ hcd' = [hcd EXCEPT !.state = "DEV_CONNECTED"]
  /\ dev' = [dev EXCEPT !.address = 0, !.hung = FALSE,
                        !.req = "none", !.left = 0]
  /\ main' = Back
  /\ UNCHANGED <<ep0, ctl, irq, power, open, plugs, faults>>

Connected ==
  /\ In("DEV_CONNECTED")
  /\ IF ~hcd.bLength THEN Start("device8", ctl)
     ELSE IF hcd.ulAddress = 0 THEN Start("setAddress", ctl)
     ELSE main' = Back /\ UNCHANGED <<ep0, ctl>>
  /\ UNCHANGED <<hcd, irq, power, open, dev, plugs, faults>>

Addressed ==
  /\ In("ADDRESSED")
  /\ IF hcd.config = NoConfig
       THEN /\ hcd' = [hcd EXCEPT !.config = [from |-> plugs, size |-> 0]]
            /\ Start("config9", ctl)
       ELSE Start("setConfig", ctl) /\ UNCHANGED hcd
  /\ UNCHANGED <<irq, power, open, dev, plugs, faults>>

\* USBHCDDeviceDisconnected, and what the initialisation clears again.
Forgotten(h) ==
  [h EXCEPT !.config = NoConfig, !.bLength = FALSE, !.ulAddress = 0]
\* Mutant: what is known of the device outlives it.
DeviceDisconnected_KeepsDevice(h) == [h EXCEPT !.config = NoConfig, !.active = -1]
DeviceDisconnected(h) == [Forgotten(h) EXCEPT !.active = -1]
Closes == open' = (open /\ hcd.active < 0)

Disconnected ==
  /\ In("DEV_DISCONNECTED")
  /\ hcd' = [DeviceDisconnected(hcd) EXCEPT !.state = "IDLE"]
  /\ Closes
  /\ main' = Back
  /\ UNCHANGED <<ep0, ctl, irq, power, dev, plugs, faults>>

\* USBReset and USBHCDInitInternal: the session starts again, and a device
\* that is there connects again.
Recover ==
  /\ main.at = "case" /\ hcd.state \in {"VBUS_ERROR", "DEV_ERROR"}
  /\ IF main.old # "IDLE"
       THEN hcd' = [DeviceDisconnected(hcd) EXCEPT !.state = "IDLE"] /\ Closes
       ELSE hcd' = [Forgotten(hcd) EXCEPT !.state = "IDLE"] /\ UNCHANGED open
  /\ ctl' = Quiet
  /\ irq' = IF dev.plugged /\ power THEN {"connect"} ELSE {}
  /\ main' = Back
  /\ UNCHANGED <<ep0, power, dev, plugs, faults>>

\* USBHCDTerm and the rest: the host is off for good.
Babble ==
  /\ In("BABBLE_ERROR")
  /\ hcd' = [DeviceDisconnected(hcd) EXCEPT !.state = "IDLE"]
  /\ Closes
  /\ power' = FALSE /\ irq' = {} /\ ctl' = Quiet
  /\ main' = Back
  /\ UNCHANGED <<ep0, dev, plugs, faults>>

NothingToDo ==
  /\ main.at = "case" /\ hcd.state \in {"IDLE", "CONFIGURED"}
  /\ main' = Back
  /\ UNCHANGED <<hcd, ep0, ctl, irq, power, open, dev, plugs, faults>>

-----------------------------------------------------------------------------
(* The interrupt: USBHostIntHandlerInternal and USBHCDEnumHandler.  What     *)
(* they leave behind is a record of hcd, ep0 and ctl.                       *)

\* A packet of the data stage: it is the last if it is short or fills what the
\* caller has room for.  What it holds of a descriptor counts from now on.
TakePacket(h) ==
  LET n == Min2(ctl.rx, ep0.remaining)
      last == n < ep0.max \/ n = ep0.remaining
  IN  [ep0 |-> [ep0 EXCEPT !.remaining = @ - n,
                           !.eState = IF last THEN "STATUS" ELSE "RX"],
       ctl |-> [ctl EXCEPT !.rx = 0, !.wire = IF last THEN "status" ELSE "in"],
       hcd |-> IF main.at # "wait" \/ n = 0 THEN h
               ELSE IF main.transfer \in {"device8", "device"}
                 THEN [h EXCEPT !.bLength = TRUE]
                 ELSE [h EXCEPT !.config.size = ep0.size - ep0.remaining + n]]

Moved(h, eState, wire) ==
  [hcd |-> h, ep0 |-> [ep0 EXCEPT !.eState = eState],
   ctl |-> [ctl EXCEPT !.wire = wire]]

EnumHandler(h) ==
  CASE ctl.err ->
         [hcd |-> h, ep0 |-> [ep0 EXCEPT !.eState = "ERROR"], ctl |-> Quiet]
    [] ~ctl.err /\ ep0.eState = "STATUS" -> Moved(h, "IDLE", ctl.wire)
    [] ~ctl.err /\ ep0.eState = "STATUS_IN" -> Moved(h, "STATUS", "status")
    [] ~ctl.err /\ ep0.eState = "SETUP_IN" -> Moved(h, "RX", "in")
    [] ~ctl.err /\ ep0.eState = "RX" /\ ctl.stall ->
         [Moved(h, "IDLE", ctl.wire) EXCEPT !.ctl.stall = FALSE]
    [] ~ctl.err /\ ep0.eState = "RX" /\ ~ctl.stall -> TakePacket(h)
    [] OTHER -> [hcd |-> h, ep0 |-> ep0, ctl |-> ctl]

\* A connection takes back a disconnection noted before, and the reverse.
NoteConnection(events) ==
  LET c == IF "connect" \in irq THEN (events \cup {"connect"}) \ {"disconnect"}
                                ELSE events
  IN  IF "disconnect" \in irq THEN (c \cup {"disconnect"}) \ {"connect"} ELSE c

\* A VBUS error or babble ends the handler, whatever else was signalled.
Interrupt ==
  /\ power /\ irq # {}
  /\ IF "vbus" \in irq
       THEN hcd' = [hcd EXCEPT !.events = {"vbus"}] /\ UNCHANGED <<ep0, ctl>>
     ELSE IF "babble" \in irq
       THEN hcd' = [hcd EXCEPT !.events = @ \cup {"babble"}]
            /\ UNCHANGED <<ep0, ctl>>
     ELSE LET h == [hcd EXCEPT !.events = NoteConnection(@)]
              r == IF "ep0" \in irq THEN EnumHandler(h)
                                    ELSE [hcd |-> h, ep0 |-> ep0, ctl |-> ctl]
          IN  hcd' = r.hcd /\ ep0' = r.ep0 /\ ctl' = r.ctl
  /\ irq' = {}
  /\ UNCHANGED <<main, power, open, dev, plugs, faults>>

-----------------------------------------------------------------------------
(* The device, and the hand that plugs it in.                               *)

Hears == power /\ dev.plugged /\ dev.address = ep0.address

Signal == irq' = irq \cup {"ep0"}

TakeSetup ==
  /\ ctl.wire = "setup" /\ Hears /\ ~dev.hung /\ main.at = "wait"
  /\ dev' = [dev EXCEPT !.req = main.transfer, !.left = Asked(main.transfer)]
  /\ ctl' = [ctl EXCEPT !.wire = "none"] /\ Signal
  /\ UNCHANGED <<hcd, ep0, main, power, open, plugs, faults>>

SendPacket ==
  /\ ctl.wire = "in" /\ Hears /\ ~dev.hung
  /\ LET n == Min2(Packet, dev.left)
     IN  /\ dev' = [dev EXCEPT !.left = @ - n]
         /\ ctl' = [ctl EXCEPT !.wire = "none", !.rx = n]
  /\ Signal
  /\ UNCHANGED <<hcd, ep0, main, power, open, plugs, faults>>

\* A device that does not know the request.
Stall ==
  /\ ctl.wire = "in" /\ Hears /\ ~dev.hung /\ faults < MaxFaults
  /\ dev.left = Asked(dev.req)
  /\ ctl' = [ctl EXCEPT !.wire = "none", !.stall = TRUE] /\ Signal
  /\ faults' = faults + 1
  /\ UNCHANGED <<hcd, ep0, main, power, open, dev, plugs>>

EndTransfer ==
  /\ ctl.wire = "status" /\ Hears /\ ~dev.hung
  /\ dev' = [dev EXCEPT !.address = IF dev.req = "setAddress" THEN 1 ELSE @]
  /\ ctl' = [ctl EXCEPT !.wire = "none"] /\ Signal
  /\ UNCHANGED <<hcd, ep0, main, power, open, plugs, faults>>

\* Three attempts without an answer: USB_HOST_EP0_ERROR.
NobodyAnswers ==
  /\ power /\ ctl.wire # "none" /\ ~Hears
  /\ ctl' = [ctl EXCEPT !.wire = "none", !.err = TRUE] /\ Signal
  /\ UNCHANGED <<hcd, ep0, main, power, open, dev, plugs, faults>>

\* From now on the device acknowledges nothing until the bus is reset.
Hang ==
  /\ dev.plugged /\ ~dev.hung /\ faults < MaxFaults
  /\ main.at = "wait"
  /\ dev' = [dev EXCEPT !.hung = TRUE]
  /\ faults' = faults + 1
  /\ UNCHANGED <<hcd, ep0, ctl, irq, main, power, open, plugs>>

ControllerError ==
  /\ power /\ faults < MaxFaults
  /\ \E e \in {"vbus", "babble"} : irq' = irq \cup {e}
  /\ faults' = faults + 1
  /\ UNCHANGED <<hcd, ep0, ctl, main, power, open, dev, plugs>>

RemovalHandled ==
  /\ "disconnect" \notin irq \cup hcd.events
  /\ main.at = "main" /\ hcd.state = "IDLE"

Plug ==
  /\ ~dev.plugged /\ plugs < MaxPlugs
  /\ SlowHands => RemovalHandled
  /\ \E class \in {"storage", "other"}, total \in CfgTotals :
       dev' = [Nobody EXCEPT !.plugged = TRUE, !.class = class, !.total = total]
  /\ plugs' = plugs + 1
  /\ irq' = IF power THEN irq \cup {"connect"} ELSE irq
  /\ UNCHANGED <<hcd, ep0, ctl, main, power, open, faults>>

Unplug ==
  /\ dev.plugged
  /\ dev' = [dev EXCEPT !.plugged = FALSE, !.hung = FALSE]
  /\ irq' = IF power THEN irq \cup {"disconnect"} ELSE irq
  /\ UNCHANGED <<hcd, ep0, ctl, main, power, open, plugs, faults>>

USBHCDMain ==
  \/ Enter \/ BusReset \/ Connected \/ Addressed \/ Disconnected \/ Recover
  \/ Babble \/ NothingToDo \/ TransferDone \/ TransferFails \/ TimerElapses

Bus == TakeSetup \/ SendPacket \/ EndTransfer \/ NobodyAnswers

Next == USBHCDMain \/ Interrupt \/ Bus
        \/ Stall \/ Hang \/ ControllerError \/ Plug \/ Unplug

\* The program calls USBHCDMain over and over, interrupts are taken, and the
\* bus comes to a result with every transaction.
Spec == /\ Init /\ [][Next]_vars
        /\ WF_vars(USBHCDMain) /\ WF_vars(Interrupt) /\ WF_vars(Bus)
-----------------------------------------------------------------------------

(***************************************************************************)
(* Properties.                                                             *)
(***************************************************************************)

\* The driver has a device only on the strength of the whole configuration
\* descriptor of the device that was plugged in last: never of a part that
\* came before a failure, never of what another device left in the pool.
\* Between two calls of USBHCDMain it has one only in the configured state.
\* And no descriptor is read past the end of the pool.
OpenOnWhole ==
  /\ main.transfer \in {"config9", "config"} =>
       0 <= ep0.remaining /\ ep0.size <= PoolSize
  /\ open => /\ hcd.config.from = plugs
             /\ hcd.config.size = Min2(dev.total, PoolSize)
             /\ main.at = "main" => hcd.state = "CONFIGURED"

\* A device that stays, after whatever failed before, ends up configured and
\* with its driver open if there is one; once it stays away no driver is open.
\* Unless babble has switched the host off.
FollowsThePlug ==
  /\ <>[]dev.plugged =>
       <>[](power => hcd.state = "CONFIGURED" /\ (open <=> dev.class = "storage"))
  /\ <>[]~dev.plugged => <>[]~open
=============================================================================
