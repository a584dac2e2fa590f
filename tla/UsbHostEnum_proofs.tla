------------------------- MODULE UsbHostEnum_proofs -------------------------
(***************************************************************************)
(* Enumeration by the host, for every size of packets and descriptors and     *)
(* any number of devices, removals, stalls, hangs and bus errors, provided   *)
(* nothing is plugged in while a removal is unhandled.                       *)
(***************************************************************************)
EXTENDS UsbHostEnum, TLAPS

Transfers == {"device8", "device", "setAddress", "config9", "config", "setConfig"}
ConfigReads == {"config9", "config"}

HostStates == {"IDLE", "DEV_RESET", "DEV_CONNECTED", "ADDRESSED", "CONFIGURED",
               "DEV_ERROR", "VBUS_ERROR", "BABBLE_ERROR", "DEV_DISCONNECTED"}
HostEvents == {"vbus", "babble", "connect", "disconnect"}

\* The values the variables range over.
HcdType ==
  [state : HostStates, events : SUBSET HostEvents, bLength : BOOLEAN,
   config : [from : Nat, size : Int], ulAddress : {0, 1}, active : {0, -1}]
Ep0Type ==
  [eState : {"IDLE", "SETUP_IN", "STATUS_IN", "RX", "STATUS", "ERROR"},
   remaining : Nat, size : Nat, max : Nat, address : {0, 1}]
CtlType ==
  [wire : {"none", "setup", "in", "status"}, err : BOOLEAN, stall : BOOLEAN,
   rx : Nat]
MainType ==
  [at : {"main", "case", "wait"}, transfer : Transfers \cup {"none"},
   old : HostStates]
DevType ==
  [plugged : BOOLEAN, class : {"none", "storage", "other"}, total : Nat,
   address : {0, 1}, hung : BOOLEAN, req : Transfers \cup {"none"}, left : Nat]

HostTypeOK ==
  /\ hcd \in HcdType /\ ep0 \in Ep0Type /\ ctl \in CtlType
  /\ irq \subseteq HostEvents \cup {"ep0"}
  /\ main \in MainType /\ dev \in DevType
  /\ power \in BOOLEAN /\ open \in BOOLEAN
  /\ plugs \in Nat /\ faults \in Nat

\* Which transfer is waited for in which state.
Waiting ==
  /\ main.at = "wait" <=> main.transfer # "none"
  /\ main.transfer \in {"device8", "device", "setAddress"}
       => hcd.state = "DEV_CONNECTED"
  /\ main.transfer \in {"config9", "config", "setConfig"}
       => hcd.state = "ADDRESSED"

\* What is known of the device builds up in order and is forgotten as a whole.
Known ==
  /\ hcd.state = "IDLE" => ~hcd.bLength
  /\ hcd.ulAddress # 0 => hcd.bLength
  /\ hcd.config # NoConfig => hcd.ulAddress = 1 /\ hcd.config.from = plugs
  /\ hcd.state = "ADDRESSED" => hcd.ulAddress = 1
  /\ main.transfer = "setAddress" => hcd.bLength /\ hcd.ulAddress = 0
  /\ main.transfer \in {"config9", "config", "setConfig"}
       => hcd.config.from = plugs

\* A connection is noted only for a device of which nothing was known when it
\* was signalled.
Connecting ==
  /\ "connect" \in irq => ~hcd.bLength
  /\ "connect" \in hcd.events =>
       /\ hcd.ulAddress = 0
       /\ main.at = "case" => ~hcd.bLength
       /\ main.transfer # "setAddress"

\* Whose driver is open.
Opened ==
  open =>
    /\ hcd.active = 0 /\ hcd.ulAddress = 1
    /\ hcd.config.from = plugs /\ hcd.config.size = Whole
    /\ main.at # "wait"
    /\ main.at = "main" => hcd.state = "CONFIGURED"
    /\ main.at = "case" =>
         /\ main.old = "CONFIGURED"
         /\ hcd.state \in {"CONFIGURED", "VBUS_ERROR", "BABBLE_ERROR",
                           "DEV_DISCONNECTED"}

\* Nothing is under way on endpoint zero; nobody can answer it.
Calm == ctl.wire = "none" /\ "ep0" \notin irq /\ ~ctl.err
Deaf == ~dev.plugged \/ dev.hung \/ ~power

Endpoint ==
  /\ ep0.eState \in {"IDLE", "ERROR"} => Calm
  /\ ctl.wire # "none" /\ "ep0" \in irq =>
       ctl.wire = "setup" /\ ep0.eState \in {"SETUP_IN", "STATUS_IN"}
  /\ main.transfer \in {"setAddress", "setConfig"} =>
       ep0.eState \notin {"SETUP_IN", "RX"}
  /\ hcd.state = "ADDRESSED" /\ main.at = "main" =>
       Calm \/ Deaf \/ hcd.events # {}
  /\ hcd.state = "ADDRESSED" /\ main.at = "case" => Calm \/ Deaf

\* A configuration descriptor is being read: it is what the device has not
\* sent yet that the host still waits for, or the device is deaf and the host
\* has nothing.
Answered(t) ==
  /\ ep0.eState = "SETUP_IN" =>
       /\ ctl.wire \in {"none", "setup"}
       /\ ctl.wire = "setup" => "ep0" \notin irq
       /\ "ep0" \in irq => ctl.err \/ (dev.req = t /\ dev.left = ep0.size)
  /\ ep0.eState = "RX" =>
       /\ ctl.wire \in {"none", "in"}
       /\ ctl.wire = "in" =>
            /\ "ep0" \notin irq
            /\ dev.req = t /\ dev.left = ep0.remaining
       /\ "ep0" \in irq =>
            \/ ctl.err \/ ctl.stall
            \/ /\ dev.req = t
               /\ ctl.rx = Min2(Packet, ep0.remaining)
               /\ dev.left = ep0.remaining - ctl.rx

Unanswered ==
  /\ Deaf /\ ep0.remaining = ep0.size
  /\ ep0.eState # "STATUS"
  /\ ep0.eState = "RX" /\ "ep0" \in irq => ctl.err \/ ctl.stall

Reading ==
  /\ main.transfer \in ConfigReads =>
       /\ ep0.size = Asked(main.transfer) /\ ep0.max = Packet
       /\ ep0.remaining <= ep0.size
       /\ ep0.eState \in {"SETUP_IN", "RX", "STATUS", "IDLE", "ERROR"}
       /\ ep0.eState = "SETUP_IN" => ep0.remaining = ep0.size
       /\ ep0.eState = "RX" /\ ctl.stall => ep0.remaining = ep0.size
       /\ ep0.eState = "STATUS" => ep0.remaining = 0
       /\ ep0.eState = "IDLE" => ep0.remaining \in {0, ep0.size}
       /\ ep0.remaining < ep0.size =>
            hcd.config.size = ep0.size - ep0.remaining
       /\ Answered(main.transfer) \/ Unanswered
  /\ main.transfer = "setConfig" => hcd.config.size = Whole
  /\ hcd.state = "ADDRESSED" /\ main.at # "wait" /\ hcd.config # NoConfig =>
       hcd.config.size = Whole

HostInv == /\ HostTypeOK /\ Waiting /\ Known /\ Connecting /\ Opened
           /\ Endpoint /\ Reading

-----------------------------------------------------------------------------

\* What a transfer asks for and has room for are numbers.
LEMMA AskedIsNat ==
  ASSUME HostAssumption, HostTypeOK, NEW t \in Transfers
  PROVE  Asked(t) \in Nat /\ Room(t) \in Nat /\ Whole <= PoolSize /\ CfgHead <= PoolSize
  BY DEF HostAssumption, HostTypeOK, DevType, Asked, Room, Whole, Min2, Transfers

\* A control transfer is begun (USBHCDControlTransfer).
LEMMA StartIs ==
  ASSUME HostAssumption, HostTypeOK,
         NEW t \in Transfers, NEW c \in CtlType, Start(t, c)
  PROVE  /\ main' \in MainType /\ ctl' \in CtlType /\ ep0' \in Ep0Type
         /\ main'.at = "wait" /\ main'.transfer = t
         /\ ctl'.wire = "setup" /\ ctl'.err = c.err /\ ctl'.stall = c.stall
         /\ ep0'.remaining = Room(t) /\ ep0'.size = Room(t)
         /\ t \in Inward => ep0'.eState = "SETUP_IN"
         /\ t \notin Inward => ep0'.eState = "STATUS_IN"
         /\ t \in ConfigReads => ep0'.max = Packet
<1>1. Room(t) \in Nat
  BY AskedIsNat
<1>2. Target(t) \in {0, 1}
  BY DEF Target, HostTypeOK, HcdType
<1>3. main \in MainType
  BY DEF HostTypeOK
<1>4. main' \in MainType /\ main'.at = "wait" /\ main'.transfer = t
  BY <1>3 DEF Start, MainType
<1>5. /\ ctl' \in CtlType
      /\ ctl'.wire = "setup" /\ ctl'.err = c.err /\ ctl'.stall = c.stall
  BY DEF Start, CtlType
<1>6. /\ ep0'.remaining = Room(t) /\ ep0'.size = Room(t)
      /\ t \in Inward => ep0'.eState = "SETUP_IN"
      /\ t \notin Inward => ep0'.eState = "STATUS_IN"
      /\ t \in ConfigReads => ep0'.max = Packet
  BY DEF Start, ConfigReads
<1>7. ep0' \in Ep0Type
  BY <1>1, <1>2, HostAssumption DEF Start, Ep0Type, HostAssumption
<1> QED BY <1>4, <1>5, <1>6, <1>7

\* What is left of the host's knowledge when the device is forgotten.
LEMMA ForgottenIs ==
  ASSUME hcd \in HcdType
  PROVE  \A h \in {[DeviceDisconnected(hcd) EXCEPT !.state = "IDLE"],
                   [Forgotten(hcd) EXCEPT !.state = "IDLE"]} :
           /\ h \in HcdType
           /\ h.state = "IDLE" /\ h.events = hcd.events /\ ~h.bLength
           /\ h.config = NoConfig /\ h.ulAddress = 0
<1> DEFINE f == Forgotten(hcd)
           g == DeviceDisconnected(hcd)
<1>0. NoConfig \in [from : Nat, size : Int]
  BY DEF NoConfig
<1>1. /\ f \in HcdType /\ f.events = hcd.events /\ ~f.bLength
      /\ f.config = NoConfig /\ f.ulAddress = 0
  BY <1>0 DEF Forgotten, HcdType
<1>2. g = [f EXCEPT !.active = -1]
  BY DEF DeviceDisconnected
<1> HIDE DEF f
<1>3. /\ g \in HcdType /\ g.events = hcd.events /\ ~g.bLength
      /\ g.config = NoConfig /\ g.ulAddress = 0
  BY <1>1, <1>2 DEF HcdType
<1> HIDE DEF g
<1>4. \A x \in {f, g} :
        /\ [x EXCEPT !.state = "IDLE"] \in HcdType
        /\ [x EXCEPT !.state = "IDLE"].state = "IDLE"
        /\ [x EXCEPT !.state = "IDLE"].events = hcd.events
        /\ ~[x EXCEPT !.state = "IDLE"].bLength
        /\ [x EXCEPT !.state = "IDLE"].config = NoConfig
        /\ [x EXCEPT !.state = "IDLE"].ulAddress = 0
  BY <1>1, <1>3 DEF HcdType, HostStates
<1> QED BY <1>4 DEF f, g

\* Removals and errors make the host forget the device as a whole.
LEMMA ForgettingKeeps ==
  ASSUME HostAssumption, HostInv, Disconnected \/ Recover \/ Babble
  PROVE  HostInv'
<1>0. HostTypeOK /\ Waiting /\ Known /\ Connecting /\ Opened /\ Endpoint /\ Reading
  BY DEF HostInv
<1>1. /\ main.at = "case" /\ main' = Back
      /\ hcd.state \in {"DEV_DISCONNECTED", "VBUS_ERROR", "DEV_ERROR", "BABBLE_ERROR"}
      /\ UNCHANGED <<ep0, dev, plugs, faults>>
  BY DEF Disconnected, Recover, Babble, In
<1>2. hcd' \in {[DeviceDisconnected(hcd) EXCEPT !.state = "IDLE"],
                [Forgotten(hcd) EXCEPT !.state = "IDLE"]}
  BY DEF Disconnected, Recover, Babble
<1>3. /\ hcd' \in HcdType
      /\ hcd'.state = "IDLE" /\ hcd'.events = hcd.events /\ ~hcd'.bLength
      /\ hcd'.config = NoConfig /\ hcd'.ulAddress = 0
  BY <1>0, <1>2, ForgottenIs DEF HostTypeOK
<1>4. main' \in MainType /\ main'.at = "main" /\ main'.transfer = "none"
  BY <1>0, <1>1 DEF HostTypeOK, MainType, Back
<1>5. ~open'
  <2>1. open => hcd.active = 0 /\ main.old = "CONFIGURED"
    BY <1>0, <1>1 DEF Opened
  <2>2. (open' = (open /\ hcd.active < 0)) \/ (main.old = "IDLE" /\ open' = open)
    BY DEF Disconnected, Recover, Babble, Closes
  <2>3. ~(open /\ hcd.active < 0)
    BY <2>1
  <2> QED BY <2>1, <2>2, <2>3
<1>6. (ctl' = ctl /\ irq' = irq) \/ (ctl' = Quiet /\ irq' \subseteq {"connect"})
  BY DEF Disconnected, Recover, Babble
<1>7. power' \in BOOLEAN /\ open' \in BOOLEAN
  <2>1. power' = power \/ power' = FALSE
    BY DEF Disconnected, Recover, Babble
  <2>2. (open' = (open /\ hcd.active < 0)) \/ open' = open
    BY DEF Disconnected, Recover, Babble, Closes
  <2> QED BY <1>0, <2>1, <2>2 DEF HostTypeOK
<1>8. HostTypeOK'
  <2>1. Quiet \in CtlType
    BY DEF Quiet, CtlType
  <2> QED BY <1>0, <1>1, <1>3, <1>4, <1>6, <1>7, <2>1 DEF HostTypeOK, HostEvents
<1>9. Waiting'
  BY <1>3, <1>4 DEF Waiting
<1>10. Known'
  BY <1>3, <1>4 DEF Known
<1>11. Connecting'
  BY <1>3, <1>4 DEF Connecting
<1>12. Opened'
  BY <1>5 DEF Opened
<1>13. Endpoint'
  <2>1. ep0'.eState \in {"IDLE", "ERROR"} => Calm'
    BY <1>0, <1>1, <1>6 DEF Endpoint, Calm, Quiet
  <2>2. ctl'.wire # "none" /\ "ep0" \in irq' =>
          ctl'.wire = "setup" /\ ep0'.eState \in {"SETUP_IN", "STATUS_IN"}
    BY <1>0, <1>1, <1>6 DEF Endpoint, Quiet
  <2> QED BY <1>3, <1>4, <2>1, <2>2 DEF Endpoint
<1>14. Reading'
  BY <1>3, <1>4 DEF Reading, ConfigReads
<1> QED BY <1>8, <1>9, <1>10, <1>11, <1>12, <1>13, <1>14 DEF HostInv

\* A connected device: descriptor, address.
LEMMA ConnectedKeeps ==
  ASSUME HostAssumption, HostInv, Connected
  PROVE  HostInv'
<1>0. HostTypeOK /\ Waiting /\ Known /\ Connecting /\ Opened /\ Endpoint /\ Reading
  BY DEF HostInv
<1>1. /\ main.at = "case" /\ hcd.state = "DEV_CONNECTED"
      /\ UNCHANGED <<hcd, irq, power, open, dev, plugs, faults>>
  BY DEF Connected, In
<1>2. ~open
  BY <1>0, <1>1 DEF Opened
<1>3. CASE main' = Back /\ UNCHANGED <<ep0, ctl>>
  <2>1. main' \in MainType /\ main'.at = "main" /\ main'.transfer = "none"
    BY <1>0, <1>3 DEF HostTypeOK, MainType, Back
  <2>2. HostTypeOK' /\ Waiting' /\ Known' /\ Opened'
    BY <1>0, <1>1, <1>2, <1>3, <2>1 DEF HostTypeOK, Waiting, Known, Opened
  <2>3. Connecting' /\ Reading'
    BY <1>0, <1>1, <1>3, <2>1 DEF Connecting, Reading, ConfigReads
  <2>4. Endpoint'
    BY <1>0, <1>1, <1>3, <2>1 DEF Endpoint, Calm, Deaf
  <2> QED BY <2>2, <2>3, <2>4 DEF HostInv
<1>4. ASSUME NEW t \in {"device8", "setAddress"}, Start(t, ctl),
             t = "setAddress" => hcd.bLength /\ hcd.ulAddress = 0
      PROVE  HostInv'
  <2>1. t \in Transfers /\ ctl \in CtlType /\ (t \in Inward <=> t = "device8")
    BY <1>0 DEF Transfers, HostTypeOK, Inward
  <2>2. /\ main' \in MainType /\ ctl' \in CtlType /\ ep0' \in Ep0Type
        /\ main'.at = "wait" /\ main'.transfer = t /\ ctl'.wire = "setup"
        /\ t = "device8" => ep0'.eState = "SETUP_IN"
        /\ t # "device8" => ep0'.eState = "STATUS_IN"
    BY <1>0, <1>4, <2>1, StartIs
  <2>3. HostTypeOK' /\ Waiting' /\ Opened'
    BY <1>0, <1>1, <1>2, <2>2 DEF HostTypeOK, Waiting, Opened
  <2>4. Known' /\ Connecting' /\ Reading'
    BY <1>0, <1>1, <1>4, <2>2 DEF Known, Connecting, Reading, ConfigReads
  <2>5. Endpoint'
    BY <1>1, <2>2 DEF Endpoint
  <2> QED BY <2>3, <2>4, <2>5 DEF HostInv
<1> QED BY <1>3, <1>4 DEF Connected

\* An addressed device: its configuration, the driver that is opened.
LEMMA AddressedKeeps ==
  ASSUME HostAssumption, HostInv, Addressed
  PROVE  HostInv'
<1>0. HostTypeOK /\ Waiting /\ Known /\ Connecting /\ Opened /\ Endpoint /\ Reading
  BY DEF HostInv
<1>1. /\ main.at = "case" /\ hcd.state = "ADDRESSED" /\ hcd.ulAddress = 1
      /\ UNCHANGED <<irq, power, open, dev, plugs, faults>>
  BY <1>0 DEF Addressed, In, Known
<1>2. ~open /\ "connect" \notin hcd.events /\ "connect" \notin irq
  BY <1>0, <1>1 DEF Opened, Connecting, Known
<1>3. Calm \/ Deaf
  BY <1>0, <1>1 DEF Endpoint
<1>4. PICK t \in {"config9", "setConfig"} :
        /\ Start(t, ctl)
        /\ t = "config9" => hcd' = [hcd EXCEPT !.config = [from |-> plugs, size |-> 0]]
        /\ t = "setConfig" => hcd' = hcd /\ hcd.config # NoConfig
  BY DEF Addressed
<1>5. t \in Transfers /\ ctl \in CtlType /\ (t \in Inward <=> t = "config9")
  BY <1>0 DEF Transfers, HostTypeOK, Inward
<1>6. /\ main' \in MainType /\ ctl' \in CtlType /\ ep0' \in Ep0Type
      /\ main'.at = "wait" /\ main'.transfer = t
      /\ ctl'.wire = "setup" /\ ctl'.err = ctl.err
      /\ ep0'.remaining = Room(t) /\ ep0'.size = Room(t)
      /\ t = "config9" => ep0'.eState = "SETUP_IN" /\ ep0'.max = Packet
      /\ t # "config9" => ep0'.eState = "STATUS_IN"
  BY <1>0, <1>4, <1>5, StartIs DEF ConfigReads
<1>7. /\ hcd' \in HcdType /\ hcd'.state = hcd.state /\ hcd'.events = hcd.events
      /\ hcd'.bLength = hcd.bLength /\ hcd'.ulAddress = 1
      /\ hcd'.config.from = plugs
  <2>1. hcd \in HcdType /\ plugs \in Nat
    BY <1>0 DEF HostTypeOK
  <2>2. CASE t = "config9"
    <3> DEFINE b == [from |-> plugs, size |-> 0]
    <3>1. b \in [from : Nat, size : Int] /\ b.from = plugs
      BY <2>1
    <3>2. hcd' = [hcd EXCEPT !.config = b]
      BY <1>4, <2>2
    <3> HIDE DEF b
    <3> QED BY <2>1, <3>1, <3>2, <1>1 DEF HcdType
  <2>3. CASE t = "setConfig"
    BY <2>1, <2>3, <1>0, <1>1, <1>4 DEF Known
  <2> QED BY <2>2, <2>3
<1>8. HostTypeOK' /\ Waiting' /\ Opened'
  BY <1>0, <1>1, <1>2, <1>6, <1>7 DEF HostTypeOK, Waiting, Opened
<1>9. Known' /\ Connecting'
  BY <1>0, <1>1, <1>2, <1>6, <1>7 DEF Known, Connecting
<1>10. Endpoint'
  BY <1>1, <1>6 DEF Endpoint
<1>11. Reading'
  <2>1. CASE t = "setConfig"
    BY <1>0, <1>1, <1>4, <1>6, <2>1 DEF Reading, ConfigReads, Whole, Min2
  <2>2. CASE t = "config9"
    <3>1. Room(t) = Asked(t) /\ Asked(t) = Asked(t)' /\ Asked(t) \in Nat
      BY <2>2, HostAssumption DEF Room, Asked, HostAssumption
    <3>2. Answered(t)' \/ Unanswered'
      BY <1>1, <1>3, <1>6, <2>2 DEF Answered, Unanswered, Calm, Deaf
    <3> QED BY <1>6, <2>2, <3>1, <3>2 DEF Reading
  <2> QED BY <2>1, <2>2
<1> QED BY <1>8, <1>9, <1>10, <1>11 DEF HostInv

\* A transfer of which n bytes have come is left, endpoint zero being c.
LEMMA ReturnKeeps ==
  ASSUME HostAssumption, HostInv, main.at = "wait",
         NEW n \in Int, NEW c \in CtlType, Return(n, c),
         UNCHANGED <<irq, power, dev, plugs, faults>>,
         c.wire \in {ctl.wire, "none"},
         n = 0 \/ (ep0.eState = "IDLE" /\ c = ctl /\ n = ep0.size - ep0.remaining),
         \/ c.wire = "none" /\ "ep0" \notin irq /\ ~c.err
         \/ Deaf \/ hcd.events # {},
         ep0.eState \in {"IDLE", "ERROR"} => ~c.err
  PROVE  HostInv'
<1>0. HostTypeOK /\ Waiting /\ Known /\ Connecting /\ Opened /\ Endpoint /\ Reading
  BY DEF HostInv
<1>1. main.transfer \in Transfers /\ ~open
  BY <1>0 DEF HostTypeOK, MainType, Waiting, Opened
<1>2. Back \in MainType /\ Back.at = "main" /\ Back.transfer = "none"
  BY <1>0 DEF HostTypeOK, MainType, Back
<1>3. ep0'.eState = ep0.eState /\ ctl' = c =>
        /\ ep0'.eState \in {"IDLE", "ERROR"} => Calm'
        /\ ctl'.wire # "none" /\ "ep0" \in irq' =>
             ctl'.wire = "setup" /\ ep0'.eState \in {"SETUP_IN", "STATUS_IN"}
  BY <1>0 DEF Endpoint, Calm
<1>4. ctl' = c => Calm' \/ Deaf' \/ hcd.events # {}
  BY DEF Calm, Deaf
<1>5. CASE AskWhole(n, c) /\ UNCHANGED <<hcd, open>>
  <2>1. PICK t \in {"device", "config"} :
          /\ Start(t, c) /\ n # 0
          /\ main.transfer = (IF t = "device" THEN "device8" ELSE "config9")
    BY <1>5, HostAssumption DEF AskWhole, HostAssumption
  <2>2. c = ctl /\ Calm /\ t \in Transfers /\ t \in Inward
    BY <1>0, <2>1 DEF Endpoint, Transfers, Inward
  <2>3. /\ main' \in MainType /\ ctl' \in CtlType /\ ep0' \in Ep0Type
        /\ main'.at = "wait" /\ main'.transfer = t
        /\ ctl'.wire = "setup" /\ ctl'.err = c.err
        /\ ep0'.remaining = Room(t) /\ ep0'.size = Room(t)
        /\ ep0'.eState = "SETUP_IN"
        /\ t \in ConfigReads => ep0'.max = Packet
    BY <1>0, <2>1, <2>2, StartIs
  <2>4. HostTypeOK' /\ Waiting' /\ Opened'
    BY <1>0, <1>1, <1>5, <2>1, <2>3 DEF HostTypeOK, Waiting, Opened
  <2>5. Known' /\ Connecting'
    BY <1>0, <1>5, <2>1, <2>3 DEF Known, Connecting
  <2>6. Endpoint'
    BY <2>3 DEF Endpoint
  <2>7. Reading'
    <3>1. CASE t = "device"
      BY <2>3, <3>1 DEF Reading, ConfigReads
    <3>2. CASE t = "config"
      <4>1. Room(t) = Asked(t) /\ Asked(t) = Asked(t)' /\ Asked(t) \in Nat
        BY <1>0, <2>2, <3>2, AskedIsNat DEF Room, Asked, Whole
      <4>2. Answered(t)'
        BY <2>2, <2>3 DEF Answered, Calm
      <4> QED BY <2>3, <3>2, <4>1, <4>2 DEF Reading, ConfigReads
    <3> QED BY <3>1, <3>2
  <2> QED BY <2>4, <2>5, <2>6, <2>7 DEF HostInv
<1>6. CASE DescriptorRead(n) /\ main' = Back /\ ctl' = c /\ UNCHANGED ep0
  <2>1. /\ UNCHANGED open
        /\ hcd' = [hcd EXCEPT !.state = "DEV_ERROR"] \/ (n # 0 /\ hcd' = hcd)
    BY <1>6 DEF DescriptorRead, Answer
  <2>2. /\ hcd' \in HcdType /\ hcd'.events = hcd.events
        /\ hcd'.bLength = hcd.bLength /\ hcd'.config = hcd.config
        /\ hcd'.ulAddress = hcd.ulAddress
        /\ hcd'.state = "DEV_ERROR" \/ (n # 0 /\ hcd'.state = hcd.state)
    BY <1>0, <2>1 DEF HostTypeOK, HcdType, HostStates
  <2>3. HostTypeOK' /\ Waiting' /\ Opened'
    BY <1>0, <1>1, <1>2, <1>6, <2>1, <2>2 DEF HostTypeOK, Waiting, Opened
  <2>4. Known' /\ Connecting'
    BY <1>0, <1>1, <1>2, <1>6, <2>1, <2>2 DEF Known, Connecting, Waiting, Transfers
  <2>5. Endpoint'
    <3>1. hcd'.state = "ADDRESSED" => Calm' \/ Deaf' \/ hcd'.events # {}
      BY <1>0, <1>4, <1>6, <2>2 DEF HostTypeOK, HcdType
    <3> QED BY <1>2, <1>3, <1>6, <3>1 DEF Endpoint
  <2>6. Reading'
    <3>1. SUFFICES ASSUME hcd'.state = "ADDRESSED"
                   PROVE  hcd.config.size = Whole
      BY <1>2, <1>6, <2>2 DEF Reading, ConfigReads, Whole
    <3>2. n # 0 /\ hcd.state = "ADDRESSED" /\ main.transfer \in {"config9", "config"}
      BY <1>0, <1>1, <1>6, <2>2, <3>1 DEF Waiting, DescriptorRead, Inward
    <3>3. /\ ep0.size = Asked(main.transfer) /\ ep0.remaining \in {0, ep0.size}
          /\ n = ep0.size - ep0.remaining
          /\ ep0.remaining < ep0.size => hcd.config.size = ep0.size - ep0.remaining
          /\ ep0.remaining <= ep0.size
      BY <1>0, <3>2 DEF Reading, ConfigReads
    <3>4. ep0.size \in Nat /\ ep0.remaining \in Nat
      BY <1>0 DEF HostTypeOK, Ep0Type
    <3>5. n = ep0.size /\ hcd.config.size = ep0.size
      BY <3>2, <3>3, <3>4
    <3>6. main.transfer # "config9"
      BY <1>6, <3>3, <3>5 DEF DescriptorRead, Asked
    <3> QED BY <3>2, <3>3, <3>5, <3>6 DEF Asked
  <2> QED BY <2>3, <2>4, <2>5, <2>6 DEF HostInv
<1>7. CASE AddressSet /\ main' = Back /\ ctl' = c /\ UNCHANGED ep0
  <2>1. /\ hcd' \in HcdType /\ hcd'.events = hcd.events
        /\ hcd'.bLength = hcd.bLength /\ hcd'.config = hcd.config
        /\ hcd'.ulAddress = 1 /\ hcd'.state = "ADDRESSED" /\ UNCHANGED open
    BY <1>0, <1>7 DEF AddressSet, HostTypeOK, HcdType, HostStates
  <2>2. /\ hcd.bLength /\ hcd.config = NoConfig
        /\ "connect" \notin hcd.events /\ "connect" \notin irq
    BY <1>0, <1>7 DEF AddressSet, Known, Connecting
  <2>3. HostTypeOK' /\ Waiting' /\ Opened'
    BY <1>0, <1>1, <1>2, <1>7, <2>1 DEF HostTypeOK, Waiting, Opened
  <2>4. Known' /\ Connecting' /\ Reading'
    BY <1>2, <1>7, <2>1, <2>2 DEF Known, Connecting, Reading, ConfigReads
  <2>5. Endpoint'
    <3>1. Calm' \/ Deaf' \/ hcd'.events # {}
      BY <1>0, <1>4, <1>7, <2>1 DEF HostTypeOK, HcdType
    <3> QED BY <1>2, <1>3, <1>7, <3>1 DEF Endpoint
  <2> QED BY <2>3, <2>4, <2>5 DEF HostInv
<1>8. CASE ConfigSet /\ main' = Back /\ ctl' = c /\ UNCHANGED ep0
  <2>1. PICK opens \in BOOLEAN :
          /\ hcd' = [hcd EXCEPT !.state = "CONFIGURED",
                                !.active = IF opens THEN 0 ELSE -1]
          /\ open' = (open \/ opens)
    <3>1. (dev.class = "storage" /\ ~open) \in BOOLEAN
      OBVIOUS
    <3> QED BY <1>8, <3>1 DEF ConfigSet
  <2>2. /\ hcd' \in HcdType /\ hcd'.events = hcd.events
        /\ hcd'.bLength = hcd.bLength /\ hcd'.config = hcd.config
        /\ hcd'.ulAddress = hcd.ulAddress /\ hcd'.state = "CONFIGURED"
        /\ opens => hcd'.active = 0
    BY <1>0, <2>1 DEF HostTypeOK, HcdType, HostStates
  <2>3. /\ hcd.ulAddress = 1 /\ hcd.config.from = plugs /\ hcd.config.size = Whole
        /\ hcd.state = "ADDRESSED"
    BY <1>0, <1>8 DEF ConfigSet, Known, Waiting, Reading
  <2>4. open' => opens
    BY <1>1, <2>1
  <2>5. open' \in BOOLEAN
    BY <2>1
  <2>6. HostTypeOK' /\ Waiting'
    BY <1>0, <1>2, <1>8, <2>2, <2>5 DEF HostTypeOK, Waiting
  <2>7. Opened'
    BY <1>2, <1>8, <2>2, <2>3, <2>4 DEF Opened, Whole
  <2>8. Known' /\ Connecting' /\ Reading'
    BY <1>0, <1>2, <1>8, <2>2, <2>3 DEF Known, Connecting, Reading, ConfigReads
  <2>9. Endpoint'
    BY <1>2, <1>3, <1>8, <2>2 DEF Endpoint
  <2> QED BY <2>6, <2>7, <2>8, <2>9 DEF HostInv
<1> QED BY <1>5, <1>6, <1>7, <1>8 DEF Return

\* A transfer ends with its last packet ...
LEMMA TransferDoneKeeps ==
  ASSUME HostAssumption, HostInv, TransferDone
  PROVE  HostInv'
<1>0. HostTypeOK /\ Endpoint /\ Waiting /\ Reading
  BY DEF HostInv
<1>1. /\ main.at = "wait" /\ ep0.eState = "IDLE"
      /\ Return(ep0.size - ep0.remaining, ctl)
      /\ UNCHANGED <<irq, power, dev, plugs, faults>>
  BY DEF TransferDone
<1>2. Calm /\ ctl \in CtlType
  BY <1>0, <1>1 DEF HostTypeOK, Endpoint
<1>3. PICK n \in Int : n = ep0.size - ep0.remaining
  BY <1>0 DEF HostTypeOK, Ep0Type
<1> QED
  BY <1>1, <1>2, <1>3, ReturnKeeps DEF Calm

\* ... or with an error or an event ...
LEMMA TransferFailsKeeps ==
  ASSUME HostAssumption, HostInv, TransferFails
  PROVE  HostInv'
<1> DEFINE c == [ctl EXCEPT !.wire = "none"]
<1>0. HostTypeOK /\ Endpoint
  BY DEF HostInv
<1>1. /\ main.at = "wait" /\ Return(0, c)
      /\ UNCHANGED <<irq, power, dev, plugs, faults>>
      /\ ep0.eState = "ERROR" \/ hcd.events # {}
      /\ ep0.eState # "IDLE"
  BY DEF TransferFails
<1>2. c \in CtlType /\ c.wire = "none" /\ c.err = ctl.err
  BY <1>0 DEF HostTypeOK, CtlType
<1>3. ep0.eState = "ERROR" => Calm
  BY <1>0 DEF Endpoint
<1> HIDE DEF c
<1> QED
  BY <1>1, <1>2, <1>3, ReturnKeeps DEF Calm

\* ... or with its timer.
LEMMA TimerElapsesKeeps ==
  ASSUME HostAssumption, HostInv, TimerElapses
  PROVE  HostInv'
<1>0. HostTypeOK /\ Endpoint
  BY DEF HostInv
<1>1. /\ main.at = "wait" /\ Return(0, ctl) /\ Deaf
      /\ UNCHANGED <<irq, power, dev, plugs, faults>>
  BY DEF TimerElapses, Deaf
<1>2. ctl \in CtlType /\ (ep0.eState \in {"IDLE", "ERROR"} => ~ctl.err)
  BY <1>0 DEF HostTypeOK, Endpoint, Calm
<1> QED BY <1>1, <1>2, ReturnKeeps

\* Events are noted, nothing else of the device state changes.
LEMMA NotedKeeps ==
  ASSUME HostInv, NEW e \in SUBSET HostEvents,
         hcd' = [hcd EXCEPT !.events = e],
         "connect" \in e => "connect" \in irq \cup hcd.events,
         irq' = {}, UNCHANGED <<main, power, open, dev, plugs, faults>>
  PROVE  /\ hcd' \in HcdType /\ hcd'.state = hcd.state /\ hcd'.events = e
         /\ hcd'.config = hcd.config
         /\ Waiting' /\ Known' /\ Connecting' /\ Opened'
<1>0. HostTypeOK /\ Waiting /\ Known /\ Connecting /\ Opened
  BY DEF HostInv
<1>1. /\ hcd' \in HcdType /\ hcd'.state = hcd.state /\ hcd'.events = e
      /\ hcd'.bLength = hcd.bLength /\ hcd'.config = hcd.config
      /\ hcd'.ulAddress = hcd.ulAddress /\ hcd'.active = hcd.active
  BY <1>0 DEF HostTypeOK, HcdType
<1>2. Waiting' /\ Opened'
  BY <1>0, <1>1 DEF Waiting, Opened, Whole
<1>3. Known' /\ Connecting'
  BY <1>0, <1>1 DEF Known, Connecting
<1> QED BY <1>1, <1>2, <1>3

\* An interrupt that does not take a packet, by what it does to endpoint zero.
LEMMA MovedKeeps ==
  ASSUME HostAssumption, HostInv, NEW e \in SUBSET HostEvents,
         hcd' = [hcd EXCEPT !.events = e],
         "connect" \in e => "connect" \in irq \cup hcd.events,
         hcd.events # {} => e # {},
         irq' = {}, UNCHANGED <<main, power, open, dev, plugs, faults>>,
         \/ UNCHANGED <<ep0, ctl>>
         \/ /\ "ep0" \in irq /\ ctl.err
            /\ ep0' = [ep0 EXCEPT !.eState = "ERROR"] /\ ctl' = Quiet
         \/ /\ "ep0" \in irq /\ ~ctl.err
            /\ \/ /\ ep0.eState = "STATUS" /\ ep0' = [ep0 EXCEPT !.eState = "IDLE"]
                  /\ ctl' = [ctl EXCEPT !.wire = ctl.wire]
               \/ /\ ep0.eState = "STATUS_IN"
                  /\ ep0' = [ep0 EXCEPT !.eState = "STATUS"]
                  /\ ctl' = [ctl EXCEPT !.wire = "status"]
               \/ /\ ep0.eState = "SETUP_IN" /\ ep0' = [ep0 EXCEPT !.eState = "RX"]
                  /\ ctl' = [ctl EXCEPT !.wire = "in"]
               \/ /\ ep0.eState = "RX" /\ ctl.stall
                  /\ ep0' = [ep0 EXCEPT !.eState = "IDLE"]
                  /\ ctl' = [[ctl EXCEPT !.wire = ctl.wire] EXCEPT !.stall = FALSE]
  PROVE  HostInv'
<1>0. HostTypeOK /\ Waiting /\ Known /\ Connecting /\ Opened /\ Endpoint /\ Reading
  BY DEF HostInv
<1>1. /\ hcd' \in HcdType /\ hcd'.state = hcd.state /\ hcd'.events = e
      /\ hcd'.config = hcd.config
      /\ Waiting' /\ Known' /\ Connecting' /\ Opened'
  BY NotedKeeps
<1>2. ep0 \in Ep0Type /\ ctl \in CtlType
  BY <1>0 DEF HostTypeOK
<1>3. CASE UNCHANGED <<ep0, ctl>>
  <2>1. HostTypeOK'
    BY <1>0, <1>1, <1>3 DEF HostTypeOK
  <2>2. Endpoint'
    BY <1>0, <1>1, <1>3 DEF Endpoint, Calm, Deaf
  <2>3. Reading'
    <3>1. \A t \in ConfigReads : Asked(t)' = Asked(t)
      BY DEF Asked, Whole
    <3> QED BY <1>0, <1>1, <1>3, <3>1 DEF Reading, Answered, Unanswered, Deaf, Whole
  <2> QED BY <1>1, <2>1, <2>2, <2>3 DEF HostInv
<1>4. ASSUME "ep0" \in irq,
             ep0' \in Ep0Type, ctl' \in CtlType,
             ep0'.remaining = ep0.remaining, ep0'.size = ep0.size, ep0'.max = ep0.max,
             \/ ep0'.eState = "ERROR" /\ ctl' = Quiet
             \/ /\ ~ctl.err /\ ~ctl'.err
                /\ \/ /\ ep0.eState = "STATUS" /\ ep0'.eState = "IDLE"
                      /\ ctl'.wire = ctl.wire
                   \/ /\ ep0.eState = "STATUS_IN" /\ ep0'.eState = "STATUS"
                      /\ ctl'.wire = "status"
                   \/ /\ ep0.eState = "SETUP_IN" /\ ep0'.eState = "RX"
                      /\ ctl'.wire = "in"
                   \/ /\ ep0.eState = "RX" /\ ep0'.eState = "IDLE"
                      /\ ctl'.wire = ctl.wire /\ ctl.stall
      PROVE  HostInv'
  <2>1. HostTypeOK'
    BY <1>0, <1>1, <1>4 DEF HostTypeOK
  <2>2. Endpoint'
    <3>1. ep0'.eState \in {"IDLE", "ERROR"} => Calm'
      BY <1>0, <1>4 DEF Endpoint, Calm, Quiet
    <3>2. main.transfer \in {"setAddress", "setConfig"} =>
            ep0'.eState \notin {"SETUP_IN", "RX"}
      BY <1>0, <1>4 DEF Endpoint
    <3>3. hcd.state = "ADDRESSED" /\ main.at = "main" => Deaf' \/ e # {}
      BY <1>0, <1>4 DEF Endpoint, Calm, Deaf
    <3>4. hcd.state = "ADDRESSED" /\ main.at = "case" => Deaf'
      BY <1>0, <1>4 DEF Endpoint, Calm, Deaf
    <3> QED BY <1>1, <3>1, <3>2, <3>3, <3>4 DEF Endpoint
  <2>3. Reading'
    <3>1. \A t \in ConfigReads : Asked(t)' = Asked(t)
      BY DEF Asked, Whole
    <3>2. main.transfer \in ConfigReads => (Answered(main.transfer) \/ Unanswered)'
      BY <1>0, <1>4 DEF Reading, Answered, Unanswered, Deaf
    <3>3. main.transfer \in ConfigReads =>
            /\ ep0'.eState \in {"SETUP_IN", "RX", "STATUS", "IDLE", "ERROR"}
            /\ ep0'.eState # "SETUP_IN"
            /\ ep0'.eState = "RX" => ep0.remaining = ep0.size
            /\ ep0'.eState = "STATUS" => ep0.remaining = 0
            /\ ep0'.eState = "IDLE" => ep0.remaining \in {0, ep0.size}
      BY <1>0, <1>4 DEF Reading
    <3> QED BY <1>0, <1>1, <1>4, <3>1, <3>2, <3>3 DEF Reading, Whole
  <2> QED BY <1>1, <2>1, <2>2, <2>3 DEF HostInv
<1>5. \A x \in {"IDLE", "STATUS", "RX", "ERROR"} :
        ep0' = [ep0 EXCEPT !.eState = x] =>
          /\ ep0' \in Ep0Type /\ ep0'.eState = x
          /\ ep0'.remaining = ep0.remaining /\ ep0'.size = ep0.size
          /\ ep0'.max = ep0.max
  BY <1>2 DEF Ep0Type
<1>6. \A w \in {"none", "setup", "in", "status"} :
        /\ ctl' = [ctl EXCEPT !.wire = w] =>
             ctl' \in CtlType /\ ctl'.wire = w /\ ctl'.err = ctl.err
        /\ ctl' = [[ctl EXCEPT !.wire = w] EXCEPT !.stall = FALSE] =>
             ctl' \in CtlType /\ ctl'.wire = w /\ ctl'.err = ctl.err
  BY <1>2 DEF CtlType
<1>7. Quiet \in CtlType /\ ctl.wire \in {"none", "setup", "in", "status"}
  BY <1>2 DEF Quiet, CtlType
<1>8. CASE ctl.err /\ ~UNCHANGED <<ep0, ctl>>
  BY <1>4, <1>5, <1>7, <1>8
<1>9. CASE ~ctl.err /\ ~UNCHANGED <<ep0, ctl>>
  BY <1>4, <1>5, <1>6, <1>7, <1>9
<1> QED BY <1>3, <1>8, <1>9

\* The packet has been taken out of the controller.
LEMMA CtlTaken ==
  ASSUME ctl \in CtlType, NEW w \in {"status", "in"},
         ctl' = [ctl EXCEPT !.rx = 0, !.wire = w]
  PROVE  /\ ctl' \in CtlType /\ ctl'.rx = 0 /\ ctl'.wire = w
         /\ ctl'.err = ctl.err /\ ctl'.stall = ctl.stall
  BY DEF CtlType

\* A packet of data is taken.
LEMMA TakenKeeps ==
  ASSUME HostAssumption, HostInv, NEW e \in SUBSET HostEvents,
         "connect" \in e => "connect" \in irq \cup hcd.events,
         hcd.events # {} => e # {},
         "ep0" \in irq, ~ctl.err, ~ctl.stall, ep0.eState = "RX",
         irq' = {}, UNCHANGED <<main, power, open, dev, plugs, faults>>,
         LET r == TakePacket([hcd EXCEPT !.events = e])
         IN  hcd' = r.hcd /\ ep0' = r.ep0 /\ ctl' = r.ctl
  PROVE  HostInv'
<1> DEFINE n == Min2(ctl.rx, ep0.remaining)
           last == n < ep0.max \/ n = ep0.remaining
           h == [hcd EXCEPT !.events = e]
<1>0. HostTypeOK /\ Waiting /\ Known /\ Connecting /\ Opened /\ Endpoint /\ Reading
  BY DEF HostInv
<1>1. hcd \in HcdType /\ ep0 \in Ep0Type /\ ctl \in CtlType /\ dev \in DevType
  BY <1>0 DEF HostTypeOK
<1>2. /\ n \in Nat /\ n <= ep0.remaining /\ n <= ctl.rx
      /\ n \in {ctl.rx, ep0.remaining}
  BY <1>1 DEF Min2, CtlType, Ep0Type
<1>3. /\ ep0' = [ep0 EXCEPT !.remaining = @ - n,
                           !.eState = IF last THEN "STATUS" ELSE "RX"]
      /\ ctl' = [ctl EXCEPT !.rx = 0, !.wire = IF last THEN "status" ELSE "in"]
      /\ hcd' = IF main.at # "wait" \/ n = 0 THEN h
                ELSE IF main.transfer \in {"device8", "device"}
                  THEN [h EXCEPT !.bLength = TRUE]
                  ELSE [h EXCEPT !.config.size = ep0.size - ep0.remaining + n]
  BY DEF TakePacket
<1> HIDE DEF n
<1>4. /\ ep0' \in Ep0Type /\ ep0'.remaining = ep0.remaining - n
      /\ ep0'.eState \in {"STATUS", "RX"} /\ (ep0'.eState = "STATUS" <=> last)
      /\ ep0'.size = ep0.size /\ ep0'.max = ep0.max
  <2>1. PICK m \in Nat : m = ep0.remaining - n
    BY <1>1, <1>2 DEF Ep0Type
  <2>2. PICK s \in {"STATUS", "RX"} : s = IF last THEN "STATUS" ELSE "RX"
    OBVIOUS
  <2>3. ep0' = [ep0 EXCEPT !.remaining = m, !.eState = s]
    BY <1>3, <2>1, <2>2
  <2>4. s = "STATUS" <=> last
    BY <2>2
  <2> HIDE DEF last
  <2> QED BY <1>1, <2>1, <2>2, <2>3, <2>4 DEF Ep0Type
<1>5. /\ ctl' \in CtlType /\ ctl'.rx = 0 /\ ~ctl'.err /\ ~ctl'.stall
      /\ ctl'.wire = (IF last THEN "status" ELSE "in")
  <2>1. PICK w \in {"status", "in"} : w = IF last THEN "status" ELSE "in"
    OBVIOUS
  <2>2. ctl' = [ctl EXCEPT !.rx = 0, !.wire = w]
    BY <1>3, <2>1
  <2>3. /\ ctl' \in CtlType /\ ctl'.rx = 0 /\ ~ctl'.err /\ ~ctl'.stall
        /\ ctl'.wire = w
    BY <1>1, <2>2, CtlTaken
  <2> QED BY <2>1, <2>3
<1>6. /\ h \in HcdType /\ h.state = hcd.state /\ h.events = e
      /\ h.bLength = hcd.bLength /\ h.config = hcd.config
      /\ h.ulAddress = hcd.ulAddress /\ h.active = hcd.active
  BY <1>1 DEF HcdType
<1> HIDE DEF h
<1>7. main.transfer \notin {"setAddress", "setConfig"}
  BY <1>0 DEF Endpoint
<1>8. /\ hcd' \in HcdType /\ hcd'.state = hcd.state /\ hcd'.events = e
      /\ hcd'.ulAddress = hcd.ulAddress /\ hcd'.active = hcd.active
      /\ hcd'.config.from = hcd.config.from
      /\ main.transfer \notin {"device8", "device"} => hcd'.bLength = hcd.bLength
      /\ hcd.bLength => hcd'.bLength
      /\ main.transfer \notin ConfigReads => hcd'.config = hcd.config
      /\ n = 0 => hcd'.config = hcd.config
      /\ main.transfer \in ConfigReads /\ n # 0 =>
           hcd'.config.size = ep0.size - ep0.remaining + n
  <2>1. CASE hcd' = h /\ (main.at # "wait" \/ n = 0)
    BY <1>0, <1>6, <2>1 DEF Waiting, ConfigReads
  <2>2. CASE /\ main.transfer \in {"device8", "device"}
             /\ hcd' = [h EXCEPT !.bLength = TRUE]
    BY <1>6, <2>2 DEF HcdType, ConfigReads
  <2>3. CASE /\ main.at = "wait" /\ main.transfer \notin {"device8", "device"}
             /\ n # 0
             /\ hcd' = [h EXCEPT !.config.size = ep0.size - ep0.remaining + n]
    <3>1. main.transfer \in ConfigReads
      BY <1>0, <1>7, <2>3 DEF HostTypeOK, MainType, Waiting, Transfers, ConfigReads
    <3>2. PICK s \in Int : s = ep0.size - ep0.remaining + n
      BY <1>1, <1>2 DEF Ep0Type
    <3>3. hcd' = [h EXCEPT !.config.size = s]
      BY <2>3, <3>2
    <3>4. h.config \in [from : Nat, size : Int]
      BY <1>6 DEF HcdType
    <3>5. PICK c : c = [h.config EXCEPT !.size = s]
      OBVIOUS
    <3>6. c \in [from : Nat, size : Int] /\ c.from = h.config.from /\ c.size = s
      BY <3>4, <3>5
    <3>7. hcd' = [h EXCEPT !.config = c]
      BY <3>3, <3>5
    <3> QED BY <1>6, <2>3, <3>1, <3>2, <3>6, <3>7 DEF HcdType, ConfigReads
  <2> QED BY <1>3, <2>1, <2>2, <2>3
<1>9. HostTypeOK' /\ Waiting'
  BY <1>0, <1>4, <1>5, <1>8 DEF HostTypeOK, Waiting
<1>10. main.transfer \in ConfigReads =>
         hcd.state = "ADDRESSED" /\ hcd.ulAddress = 1 /\ hcd.config.from = plugs
  BY <1>0 DEF Waiting, Known, ConfigReads
<1>11. main.transfer \in {"device8", "device"} =>
         hcd.state = "DEV_CONNECTED" /\ main.at = "wait"
  BY <1>0 DEF Waiting
<1>12. Known'
  BY <1>0, <1>7, <1>8, <1>10, <1>11 DEF Known, ConfigReads
<1>13. Connecting'
  BY <1>0, <1>7, <1>8, <1>11 DEF Connecting, Known
<1>14. Opened'
  <2>1. open => main.transfer \notin ConfigReads
    BY <1>0 DEF Opened, Waiting, ConfigReads
  <2> QED BY <1>0, <1>8, <2>1 DEF Opened, Whole
<1>15. Endpoint'
  <2>1. hcd.state = "ADDRESSED" /\ main.at = "main" => Deaf' \/ e # {}
    BY <1>0 DEF Endpoint, Calm, Deaf
  <2>2. hcd.state = "ADDRESSED" /\ main.at = "case" => Deaf'
    BY <1>0 DEF Endpoint, Calm, Deaf
  <2> QED BY <1>4, <1>7, <1>8, <2>1, <2>2 DEF Endpoint
<1>16. Reading'
  <2>1. \A t \in ConfigReads : Asked(t)' = Asked(t)
    BY DEF Asked, Whole
  <2>2. CASE main.transfer \notin ConfigReads
    BY <1>0, <1>7, <1>8, <2>2 DEF Reading, Whole
  <2>3. CASE main.transfer \in ConfigReads
    <3>1. /\ ep0.max = Packet /\ ep0.remaining <= ep0.size
          /\ ep0.size = Asked(main.transfer)
          /\ ep0.remaining < ep0.size => hcd.config.size = ep0.size - ep0.remaining
      BY <1>0, <2>3 DEF Reading
    <3>2. /\ dev.req = main.transfer /\ ctl.rx = Min2(Packet, ep0.remaining)
          /\ dev.left = ep0.remaining - ctl.rx
      BY <1>0, <2>3 DEF Reading, Answered, Unanswered
    <3>3. Packet \in Nat \ {0} /\ ep0.remaining \in Nat /\ ep0.size \in Nat
      BY <1>1, HostAssumption DEF HostAssumption, Ep0Type
    <3>4. n = ctl.rx
      BY <1>1, <3>2, <3>3 DEF n, Min2, CtlType
    <3>5. last => n = ep0.remaining
      BY <3>1, <3>2, <3>3, <3>4 DEF Min2
    <3>6. n = 0 => ep0.remaining = 0
      BY <3>2, <3>3, <3>4 DEF Min2
    <3>7. /\ ep0'.remaining <= ep0'.size
          /\ ep0'.eState = "STATUS" => ep0'.remaining = 0
      BY <1>2, <1>4, <3>1, <3>3, <3>5
    <3>8. ep0'.remaining < ep0'.size =>
            hcd'.config.size = ep0'.size - ep0'.remaining
      <4>1. CASE n = 0
        BY <1>4, <1>8, <3>1, <3>3, <4>1
      <4>2. CASE n # 0
        BY <1>2, <1>4, <1>8, <2>3, <3>3, <4>2
      <4> QED BY <4>1, <4>2
    <3>9. Answered(main.transfer)'
      BY <1>2, <1>4, <1>5, <3>2, <3>3, <3>4 DEF Answered
    <3>10. main.at = "wait" /\ main.transfer # "setConfig"
      BY <1>0, <2>3 DEF Waiting, ConfigReads
    <3> QED
      BY <1>4, <1>5, <2>1, <2>3, <3>1, <3>7, <3>8, <3>9, <3>10 DEF Reading
  <2> QED BY <2>2, <2>3
<1> QED
  BY <1>9, <1>12, <1>13, <1>14, <1>15, <1>16 DEF HostInv

\* The interrupt handler.
LEMMA InterruptKeeps ==
  ASSUME HostAssumption, HostInv, Interrupt
  PROVE  HostInv'
<1>0. hcd \in HcdType /\ irq \subseteq HostEvents \cup {"ep0"} /\ hcd.events \subseteq HostEvents
  BY DEF HostInv, HostTypeOK, HcdType
<1>1. irq' = {} /\ UNCHANGED <<main, power, open, dev, plugs, faults>>
  BY DEF Interrupt
<1>2. CASE \E e \in {{"vbus"}, hcd.events \cup {"babble"}} :
             hcd' = [hcd EXCEPT !.events = e] /\ UNCHANGED <<ep0, ctl>>
  <2>1. PICK e \in {{"vbus"}, hcd.events \cup {"babble"}} :
          hcd' = [hcd EXCEPT !.events = e] /\ UNCHANGED <<ep0, ctl>>
    BY <1>2
  <2>2. /\ e \in SUBSET HostEvents /\ e # {}
        /\ "connect" \in e => "connect" \in irq \cup hcd.events
    BY <1>0 DEF HostEvents
  <2> QED BY <1>1, <2>1, <2>2, MovedKeeps
<1>3. CASE ~("vbus" \in irq \/ "babble" \in irq)
  <2>1. PICK e : e = NoteConnection(hcd.events)
    OBVIOUS
  <2>2. /\ e \in SUBSET HostEvents
        /\ hcd.events # {} => e # {}
        /\ "connect" \in e => "connect" \in irq \cup hcd.events
    BY <1>0, <2>1 DEF NoteConnection, HostEvents
  <2> DEFINE h == [hcd EXCEPT !.events = e]
  <2>3. LET r == IF "ep0" \in irq THEN EnumHandler(h)
                                  ELSE [hcd |-> h, ep0 |-> ep0, ctl |-> ctl]
        IN  hcd' = r.hcd /\ ep0' = r.ep0 /\ ctl' = r.ctl
    BY <1>3, <2>1 DEF Interrupt
  <2>4. CASE "ep0" \notin irq
    BY <1>1, <2>2, <2>3, <2>4, MovedKeeps
  <2>5. CASE "ep0" \in irq /\ ctl.err
    BY <1>1, <2>2, <2>3, <2>5, MovedKeeps DEF EnumHandler
  <2>6. CASE "ep0" \in irq /\ ~ctl.err /\ ep0.eState = "STATUS"
    BY <1>1, <2>2, <2>3, <2>6, MovedKeeps DEF EnumHandler, Moved
  <2>7. CASE "ep0" \in irq /\ ~ctl.err /\ ep0.eState = "STATUS_IN"
    BY <1>1, <2>2, <2>3, <2>7, MovedKeeps DEF EnumHandler, Moved
  <2>8. CASE "ep0" \in irq /\ ~ctl.err /\ ep0.eState = "SETUP_IN"
    BY <1>1, <2>2, <2>3, <2>8, MovedKeeps DEF EnumHandler, Moved
  <2>9. CASE "ep0" \in irq /\ ~ctl.err /\ ep0.eState = "RX" /\ ctl.stall
    BY <1>1, <2>2, <2>3, <2>9, MovedKeeps DEF EnumHandler, Moved
  <2>10. CASE "ep0" \in irq /\ ~ctl.err /\ ep0.eState = "RX" /\ ~ctl.stall
    BY <1>1, <2>2, <2>3, <2>10, TakenKeeps DEF EnumHandler
  <2>11. CASE "ep0" \in irq /\ ~ctl.err
                /\ ep0.eState \notin {"STATUS", "STATUS_IN", "SETUP_IN", "RX"}
    BY <1>1, <2>2, <2>3, <2>11, MovedKeeps DEF EnumHandler
  <2> QED BY <2>4, <2>5, <2>6, <2>7, <2>8, <2>9, <2>10, <2>11
<1> QED BY <1>2, <1>3 DEF Interrupt

-----------------------------------------------------------------------------
(* Other steps of USBHCDMain.                                               *)

\* USBHCDMain turns events into a state,
LEMMA EnterKeeps ==
  ASSUME HostInv, Enter
  PROVE  HostInv'
<1>0. HostTypeOK /\ Waiting /\ Known /\ Connecting /\ Opened /\ Endpoint /\ Reading
  BY DEF HostInv
<1>1. /\ main.at = "main" /\ main.transfer = "none"
      /\ UNCHANGED <<ep0, ctl, irq, power, open, dev, plugs, faults>>
  BY <1>0 DEF Enter, Waiting
<1>2. /\ hcd' \in HcdType /\ hcd'.state = Noticed(hcd.events, hcd.state)
      /\ hcd'.events = {} /\ hcd'.bLength = hcd.bLength /\ hcd'.config = hcd.config
      /\ hcd'.ulAddress = hcd.ulAddress /\ hcd'.active = hcd.active
  BY <1>0 DEF Enter, HostTypeOK, HcdType, HostStates, Noticed
<1>3. /\ main' \in MainType /\ main'.at = "case" /\ main'.transfer = "none"
      /\ main'.old = hcd.state
  BY <1>0, <1>1 DEF Enter, HostTypeOK, MainType, HcdType
<1>4. /\ hcd'.state = hcd.state \/ hcd'.state \notin {"IDLE", "ADDRESSED"}
      /\ hcd'.state = "ADDRESSED" => hcd.state = "ADDRESSED" /\ hcd.events = {}
  BY <1>0, <1>2 DEF Noticed, HostTypeOK, HcdType, HostEvents
<1>5. HostTypeOK' /\ Waiting'
  BY <1>0, <1>1, <1>2, <1>3 DEF HostTypeOK, Waiting
<1>6. Known' /\ Connecting'
  BY <1>0, <1>1, <1>2, <1>3, <1>4 DEF Known, Connecting
<1>7. Opened'
  <2>1. open /\ "connect" \in hcd.events => FALSE
    BY <1>0 DEF Opened, Connecting
  <2>2. open => hcd'.state \in {"CONFIGURED", "VBUS_ERROR", "BABBLE_ERROR",
                                "DEV_DISCONNECTED"}
    BY <1>0, <1>1, <1>2, <2>1 DEF Opened, Noticed
  <2> QED BY <1>0, <1>1, <1>2, <1>3, <2>2 DEF Opened, Whole
<1>8. Endpoint'
  BY <1>0, <1>1, <1>3, <1>4 DEF Endpoint, Calm, Deaf
<1>9. Reading'
  BY <1>0, <1>1, <1>2, <1>3, <1>4 DEF Reading, ConfigReads, Whole
<1> QED BY <1>5, <1>6, <1>7, <1>8, <1>9 DEF HostInv

\* resets the bus,
LEMMA BusResetKeeps ==
  ASSUME HostInv, BusReset
  PROVE  HostInv'
<1>0. HostTypeOK /\ Waiting /\ Known /\ Connecting /\ Opened /\ Endpoint /\ Reading
  BY DEF HostInv
<1>1. /\ main.at = "case" /\ hcd.state = "DEV_RESET" /\ ~open
      /\ UNCHANGED <<ep0, ctl, irq, power, open, plugs, faults>>
  BY <1>0 DEF BusReset, In, Opened
<1>2. /\ hcd' \in HcdType /\ hcd'.state = "DEV_CONNECTED" /\ hcd'.events = hcd.events
      /\ hcd'.bLength = hcd.bLength /\ hcd'.config = hcd.config
      /\ hcd'.ulAddress = hcd.ulAddress
  BY <1>0 DEF BusReset, HostTypeOK, HcdType, HostStates
<1>3. main' \in MainType /\ main'.at = "main" /\ main'.transfer = "none"
  BY <1>0 DEF BusReset, Back, HostTypeOK, MainType
<1>4. dev' \in DevType
  BY <1>0 DEF BusReset, HostTypeOK, DevType
<1>5. HostTypeOK' /\ Waiting' /\ Opened'
  BY <1>0, <1>1, <1>2, <1>3, <1>4 DEF HostTypeOK, Waiting, Opened
<1>6. Known' /\ Connecting' /\ Reading'
  BY <1>0, <1>1, <1>2, <1>3 DEF Known, Connecting, Reading, ConfigReads
<1>7. Endpoint'
  BY <1>0, <1>1, <1>2, <1>3 DEF Endpoint, Calm
<1> QED BY <1>5, <1>6, <1>7 DEF HostInv

\* or has nothing to do.
LEMMA NothingToDoKeeps ==
  ASSUME HostInv, NothingToDo
  PROVE  HostInv'
<1>0. HostTypeOK /\ Waiting /\ Known /\ Connecting /\ Opened /\ Endpoint /\ Reading
  BY DEF HostInv
<1>1. /\ main.at = "case" /\ hcd.state \in {"IDLE", "CONFIGURED"}
      /\ UNCHANGED <<hcd, ep0, ctl, irq, power, open, dev, plugs, faults>>
  BY DEF NothingToDo
<1>2. main' \in MainType /\ main'.at = "main" /\ main'.transfer = "none"
  BY <1>0 DEF NothingToDo, Back, HostTypeOK, MainType
<1>3. HostTypeOK' /\ Waiting' /\ Opened'
  BY <1>0, <1>1, <1>2 DEF HostTypeOK, Waiting, Opened, Whole
<1>4. Known' /\ Connecting' /\ Reading'
  BY <1>0, <1>1, <1>2 DEF Known, Connecting, Reading, ConfigReads
<1>5. Endpoint'
  BY <1>0, <1>1, <1>2 DEF Endpoint, Calm
<1> QED BY <1>3, <1>4, <1>5 DEF HostInv

-----------------------------------------------------------------------------
(* The bus, the device and the hand.                                       *)

\* They leave the host's state alone: only what is on its way changes.
LEMMA BusSideKeeps ==
  ASSUME HostInv, HostTypeOK', Endpoint', Reading',
         UNCHANGED <<hcd, main, open, plugs>>, dev'.total = dev.total,
         "connect" \in irq' => "connect" \in irq
  PROVE  HostInv'
<1>0. Waiting /\ Known /\ Connecting /\ Opened
  BY DEF HostInv
<1>1. Waiting' /\ Known' /\ Connecting'
  BY <1>0 DEF Waiting, Known, Connecting
<1>2. Opened'
  BY <1>0 DEF Opened, Whole
<1> QED BY <1>1, <1>2 DEF HostInv

\* What transfers ask for depends on the device only by its descriptor.
LEMMA AskedKept ==
  ASSUME dev'.total = dev.total
  PROVE  Whole' = Whole /\ \A t \in Transfers : Asked(t)' = Asked(t)
  BY DEF Whole, Asked

\* The device takes a SETUP,
LEMMA TakeSetupKeeps ==
  ASSUME HostAssumption, HostInv, TakeSetup
  PROVE  HostInv'
<1>0. HostTypeOK /\ Waiting /\ Endpoint /\ Reading
  BY DEF HostInv
<1>1. /\ main.at = "wait" /\ ctl.wire = "setup" /\ ~Deaf /\ irq' = irq \cup {"ep0"}
      /\ UNCHANGED <<hcd, ep0, main, power, open, plugs, faults>>
  BY DEF TakeSetup, Hears, Deaf, Signal
<1>2. main.transfer \in Transfers
  BY <1>0, <1>1 DEF HostTypeOK, MainType, Waiting
<1>3. PICK a \in Nat : a = Asked(main.transfer)
  BY <1>0, <1>2, AskedIsNat
<1>4. /\ dev' \in DevType /\ dev'.total = dev.total
      /\ dev'.req = main.transfer /\ dev'.left = a
  BY <1>0, <1>2, <1>3 DEF TakeSetup, HostTypeOK, DevType
<1>5. ctl' \in CtlType /\ ctl'.wire = "none" /\ ctl'.stall = ctl.stall
  BY <1>0 DEF TakeSetup, HostTypeOK, CtlType
<1>6. HostTypeOK'
  BY <1>0, <1>1, <1>4, <1>5 DEF HostTypeOK
<1>7. Endpoint'
  BY <1>0, <1>1, <1>5 DEF Endpoint, Calm
<1>8. Reading'
  <2>1. main.transfer \in ConfigReads =>
          /\ ep0.size = a /\ ep0.eState # "RX"
          /\ ep0.eState \notin {"IDLE", "ERROR"}
    BY <1>0, <1>1, <1>3
    DEF Reading, Answered, Unanswered, Endpoint, Calm
  <2>2. main.transfer \in ConfigReads => Answered(main.transfer)'
    BY <1>1, <1>4, <1>5, <2>1 DEF Answered
  <2> QED BY <1>0, <1>1, <1>2, <1>4, <1>5, <2>2, AskedKept DEF Reading
<1> QED BY <1>1, <1>4, <1>6, <1>7, <1>8, BusSideKeeps

\* A device that answers in the data stage: it sends what the host still waits
\* for.
LEMMA ReadingAnswered ==
  ASSUME HostInv, ctl.wire = "in", ~Deaf, main.transfer \in ConfigReads
  PROVE  /\ ep0.eState \in {"RX", "STATUS"}
         /\ ep0.eState = "RX" =>
              dev.req = main.transfer /\ dev.left = ep0.remaining
<1>1. /\ Answered(main.transfer)
      /\ ep0.eState \in {"SETUP_IN", "RX", "STATUS", "IDLE", "ERROR"}
      /\ ep0.eState \in {"IDLE", "ERROR"} => Calm
  BY DEF HostInv, Reading, Unanswered, Endpoint
<1> QED BY <1>1 DEF Answered, Calm

\* sends a packet,
LEMMA SendPacketKeeps ==
  ASSUME HostAssumption, HostInv, SendPacket
  PROVE  HostInv'
<1>0. HostTypeOK /\ Endpoint /\ Reading
  BY DEF HostInv
<1>1. /\ ctl.wire = "in" /\ ~Deaf /\ irq' = irq \cup {"ep0"}
      /\ UNCHANGED <<hcd, ep0, main, power, open, plugs, faults>>
  BY DEF SendPacket, Hears, Deaf, Signal
<1>2. Packet \in Nat \ {0} /\ dev.left \in Nat
  BY <1>0, HostAssumption DEF HostAssumption, HostTypeOK, DevType
<1>3. PICK n \in Nat : n = Min2(Packet, dev.left) /\ n <= dev.left
  BY <1>2 DEF Min2
<1>4. PICK m \in Nat : m = dev.left - n
  BY <1>2, <1>3
<1>5. dev' = [dev EXCEPT !.left = m]
      /\ ctl' = [ctl EXCEPT !.wire = "none", !.rx = n]
  BY <1>3, <1>4 DEF SendPacket
<1>6. /\ dev' \in DevType /\ dev'.total = dev.total
      /\ dev'.req = dev.req /\ dev'.left = m
  BY <1>0, <1>5 DEF HostTypeOK, DevType
<1>7. /\ ctl' \in CtlType /\ ctl'.wire = "none" /\ ctl'.rx = n
      /\ ctl'.stall = ctl.stall
  BY <1>0, <1>5 DEF HostTypeOK, CtlType
<1>8. HostTypeOK'
  BY <1>0, <1>1, <1>6, <1>7 DEF HostTypeOK
<1>9. Endpoint'
  BY <1>0, <1>1, <1>7 DEF Endpoint, Calm
<1>10. Reading'
  <2>1. main.transfer \in ConfigReads =>
          /\ ep0.eState \in {"RX", "STATUS"}
          /\ ep0.eState = "RX" =>
               dev.req = main.transfer /\ dev.left = ep0.remaining
    BY <1>1, ReadingAnswered
  <2>2. main.transfer \in ConfigReads => Answered(main.transfer)'
    BY <1>1, <1>3, <1>4, <1>6, <1>7, <2>1 DEF Answered
  <2>3. ConfigReads \subseteq Transfers
    BY DEF ConfigReads, Transfers
  <2> QED BY <1>0, <1>1, <1>6, <1>7, <2>2, <2>3, AskedKept DEF Reading
<1> QED BY <1>1, <1>6, <1>8, <1>9, <1>10, BusSideKeeps

\* stalls,
LEMMA StallKeeps ==
  ASSUME HostAssumption, HostInv, Stall
  PROVE  HostInv'
<1>0. HostTypeOK /\ Endpoint /\ Reading
  BY DEF HostInv
<1>1. /\ ctl.wire = "in" /\ ~Deaf /\ irq' = irq \cup {"ep0"}
      /\ dev.left = Asked(dev.req) /\ faults' = faults + 1
      /\ UNCHANGED <<hcd, ep0, main, power, open, dev, plugs>>
  BY DEF Stall, Hears, Deaf, Signal
<1>2. ctl' \in CtlType /\ ctl'.wire = "none" /\ ctl'.stall
  BY <1>0 DEF Stall, HostTypeOK, CtlType
<1>3. HostTypeOK'
  BY <1>0, <1>1, <1>2 DEF HostTypeOK
<1>4. Endpoint'
  BY <1>0, <1>1, <1>2 DEF Endpoint, Calm
<1>5. Reading'
  <2>1. main.transfer \in ConfigReads =>
          /\ ep0.eState \in {"RX", "STATUS"}
          /\ ep0.eState = "RX" => ep0.remaining = ep0.size
    BY <1>0, <1>1, ReadingAnswered DEF Reading
  <2>2. main.transfer \in ConfigReads => Answered(main.transfer)'
    BY <1>1, <1>2, <2>1 DEF Answered
  <2>3. ConfigReads \subseteq Transfers
    BY DEF ConfigReads, Transfers
  <2> QED BY <1>0, <1>1, <2>1, <2>2, <2>3, AskedKept DEF Reading
<1> QED BY <1>1, <1>3, <1>4, <1>5, BusSideKeeps

\* ends a transfer;
LEMMA EndTransferKeeps ==
  ASSUME HostAssumption, HostInv, EndTransfer
  PROVE  HostInv'
<1>0. HostTypeOK /\ Endpoint /\ Reading
  BY DEF HostInv
<1>1. /\ ctl.wire = "status" /\ ~Deaf /\ irq' = irq \cup {"ep0"}
      /\ UNCHANGED <<hcd, ep0, main, power, open, plugs, faults>>
  BY DEF EndTransfer, Hears, Deaf, Signal
<1>2. /\ dev' \in DevType /\ dev'.total = dev.total
      /\ dev'.req = dev.req /\ dev'.left = dev.left
  BY <1>0 DEF EndTransfer, HostTypeOK, DevType
<1>3. /\ ctl' \in CtlType /\ ctl'.wire = "none" /\ ctl'.stall = ctl.stall
  BY <1>0 DEF EndTransfer, HostTypeOK, CtlType
<1>4. HostTypeOK'
  BY <1>0, <1>1, <1>2, <1>3 DEF HostTypeOK
<1>5. Endpoint'
  BY <1>0, <1>1, <1>3 DEF Endpoint, Calm
<1>6. Reading'
  <2>1. main.transfer \in ConfigReads =>
          Answered(main.transfer) /\ ep0.eState \notin {"SETUP_IN", "RX"}
    BY <1>0, <1>1 DEF Reading, Unanswered, Answered
  <2>2. main.transfer \in ConfigReads => Answered(main.transfer)'
    BY <1>1, <2>1 DEF Answered
  <2>3. ConfigReads \subseteq Transfers
    BY DEF ConfigReads, Transfers
  <2> QED BY <1>0, <1>1, <1>2, <1>3, <2>1, <2>2, <2>3, AskedKept DEF Reading
<1> QED BY <1>1, <1>2, <1>4, <1>5, <1>6, BusSideKeeps

\* nobody answers.
LEMMA NobodyAnswersKeeps ==
  ASSUME HostAssumption, HostInv, NobodyAnswers
  PROVE  HostInv'
<1>0. HostTypeOK /\ Endpoint /\ Reading
  BY DEF HostInv
<1>1. /\ ctl.wire # "none" /\ irq' = irq \cup {"ep0"}
      /\ UNCHANGED <<hcd, ep0, main, power, open, dev, plugs, faults>>
  BY DEF NobodyAnswers, Signal
<1>2. /\ ctl' \in CtlType /\ ctl'.wire = "none" /\ ctl'.err
      /\ ctl'.stall = ctl.stall
  BY <1>0 DEF NobodyAnswers, HostTypeOK, CtlType
<1>3. HostTypeOK'
  BY <1>0, <1>1, <1>2 DEF HostTypeOK
<1>4. Endpoint'
  BY <1>0, <1>1, <1>2 DEF Endpoint, Calm, Deaf
<1>5. Reading'
  <2>1. main.transfer \in ConfigReads =>
          (Answered(main.transfer) \/ Unanswered)'
    BY <1>0, <1>1, <1>2 DEF Reading, Answered
  <2>2. ConfigReads \subseteq Transfers
    BY DEF ConfigReads, Transfers
  <2> QED BY <1>0, <1>1, <1>2, <2>1, <2>2, AskedKept DEF Reading
<1> QED BY <1>1, <1>3, <1>4, <1>5, BusSideKeeps

\* A device that hangs or is pulled out answers no more; what has been sent by
\* then is as it was.
LEMMA FallsSilentKeeps ==
  ASSUME HostInv, UNCHANGED <<hcd, ep0, ctl, main, power, open, plugs>>,
         dev' \in DevType, dev'.total = dev.total,
         dev'.req = dev.req, dev'.left = dev.left,
         Deaf => Deaf', faults' \in Nat,
         irq' \subseteq HostEvents \cup {"ep0"},
         "ep0" \in irq' <=> "ep0" \in irq, "connect" \in irq' => "connect" \in irq
  PROVE  HostInv'
<1>0. HostTypeOK /\ Endpoint /\ Reading
  BY DEF HostInv
<1>1. HostTypeOK'
  BY <1>0 DEF HostTypeOK
<1>2. Endpoint'
  BY <1>0 DEF Endpoint, Calm
<1>3. Reading'
  <2>1. main.transfer \in ConfigReads =>
          (Answered(main.transfer) \/ Unanswered)'
    BY <1>0 DEF Reading, Answered, Unanswered
  <2>2. ConfigReads \subseteq Transfers
    BY DEF ConfigReads, Transfers
  <2> QED BY <1>0, <2>1, <2>2, AskedKept DEF Reading
<1> QED BY <1>1, <1>2, <1>3, BusSideKeeps

\* It hangs,
LEMMA HangKeeps ==
  ASSUME HostInv, Hang
  PROVE  HostInv'
<1>1. dev \in DevType /\ faults \in Nat /\ irq \subseteq HostEvents \cup {"ep0"}
  BY DEF HostInv, HostTypeOK
<1>2. /\ UNCHANGED <<hcd, ep0, ctl, irq, main, power, open, plugs>>
      /\ dev' = [dev EXCEPT !.hung = TRUE] /\ faults' = faults + 1
  BY DEF Hang
<1>3. /\ dev' \in DevType /\ dev'.total = dev.total
      /\ dev'.req = dev.req /\ dev'.left = dev.left /\ dev'.hung
  BY <1>1, <1>2 DEF DevType
<1> QED BY <1>1, <1>2, <1>3, FallsSilentKeeps DEF Deaf

\* is pulled out,
LEMMA UnplugKeeps ==
  ASSUME HostInv, Unplug
  PROVE  HostInv'
<1>1. dev \in DevType /\ faults \in Nat /\ irq \subseteq HostEvents \cup {"ep0"}
  BY DEF HostInv, HostTypeOK
<1>2. /\ UNCHANGED <<hcd, ep0, ctl, main, power, open, plugs, faults>>
      /\ dev' = [dev EXCEPT !.plugged = FALSE, !.hung = FALSE]
      /\ irq' \in {irq, irq \cup {"disconnect"}}
  BY DEF Unplug
<1>3. /\ dev' \in DevType /\ dev'.total = dev.total
      /\ dev'.req = dev.req /\ dev'.left = dev.left /\ ~dev'.plugged
  BY <1>1, <1>2 DEF DevType
<1>4. irq' \subseteq HostEvents \cup {"ep0"}
  BY <1>1, <1>2 DEF HostEvents
<1> QED BY <1>1, <1>2, <1>3, <1>4, FallsSilentKeeps DEF Deaf

\* or the bus fails.
LEMMA ControllerErrorKeeps ==
  ASSUME HostInv, ControllerError
  PROVE  HostInv'
<1>1. dev \in DevType /\ faults \in Nat /\ irq \subseteq HostEvents \cup {"ep0"}
  BY DEF HostInv, HostTypeOK
<1>2. /\ UNCHANGED <<hcd, ep0, ctl, main, power, open, dev, plugs>>
      /\ faults' = faults + 1 /\ irq' \in {irq \cup {"vbus"}, irq \cup {"babble"}}
  BY DEF ControllerError
<1>3. irq' \subseteq HostEvents \cup {"ep0"}
  BY <1>1, <1>2 DEF HostEvents
<1> QED BY <1>1, <1>2, <1>3, FallsSilentKeeps DEF Deaf

\* With slow hands a device is plugged in only when nothing is known any more
\* of the one before.
LEMMA PlugKeeps ==
  ASSUME HostAssumption, SlowHands, HostInv, Plug
  PROVE  HostInv'
<1>0. HostTypeOK /\ Waiting /\ Known /\ Connecting /\ Opened /\ Endpoint /\ Reading
  BY DEF HostInv
<1>1. /\ main.at = "main" /\ hcd.state = "IDLE" /\ plugs' = plugs + 1
      /\ irq' \in {irq, irq \cup {"connect"}}
      /\ UNCHANGED <<hcd, ep0, ctl, main, power, open, faults>>
  BY DEF Plug, RemovalHandled
<1>2. main.transfer = "none" /\ ~open /\ ~hcd.bLength /\ hcd.config = NoConfig
  BY <1>0, <1>1 DEF Waiting, Opened, Known
<1>3. dev' \in DevType
  <2>1. PICK class \in {"storage", "other"}, total \in CfgTotals :
          dev' = [Nobody EXCEPT !.plugged = TRUE, !.class = class, !.total = total]
    BY DEF Plug
  <2>2. total \in Nat
    BY HostAssumption DEF HostAssumption
  <2>3. dev' = [plugged |-> TRUE, class |-> class, total |-> total, address |-> 0,
                hung |-> FALSE, req |-> "none", left |-> 0]
    BY <2>1 DEF Nobody
  <2> QED BY <2>2, <2>3 DEF DevType
<1>4. irq' \subseteq HostEvents \cup {"ep0"}
  BY <1>0, <1>1 DEF HostTypeOK, HostEvents
<1>5. HostTypeOK' /\ Waiting' /\ Opened'
  BY <1>0, <1>1, <1>2, <1>3, <1>4 DEF HostTypeOK, Waiting, Opened
<1>6. Known' /\ Connecting' /\ Reading'
  BY <1>0, <1>1, <1>2 DEF Known, Connecting, Reading, ConfigReads
<1>7. Endpoint'
  BY <1>0, <1>1, <1>2 DEF Endpoint, Calm
<1> QED BY <1>5, <1>6, <1>7 DEF HostInv

\* At the start nothing is known of any device.
LEMMA HostInitInv == HostAssumption /\ Init => HostInv
<1> SUFFICES ASSUME Init PROVE HostInv
  OBVIOUS
<1>1. hcd \in HcdType /\ ep0 \in Ep0Type /\ ctl \in CtlType
  BY DEF Init, HcdType, Ep0Type, CtlType, HostStates, HostEvents, NoConfig, Quiet
<1>2. main \in MainType /\ dev \in DevType
  BY DEF Init, MainType, DevType, HostStates, Nobody
<1>3. HostTypeOK
  BY <1>1, <1>2 DEF Init, HostTypeOK
<1>4. Waiting /\ Known /\ Connecting /\ Opened
  BY DEF Init, Waiting, Known, Connecting, Opened, NoConfig
<1>5. Endpoint /\ Reading
  BY DEF Init, Endpoint, Reading, ConfigReads, Calm, Quiet
<1> QED BY <1>3, <1>4, <1>5 DEF HostInv

\* Every step keeps the invariant.
LEMMA HostNextInv ==
  ASSUME HostAssumption, SlowHands, HostInv, [Next]_vars
  PROVE  HostInv'
<1>1. CASE USBHCDMain
  BY <1>1, EnterKeeps, BusResetKeeps, ConnectedKeeps, AddressedKeeps, ForgettingKeeps,
     NothingToDoKeeps, TransferDoneKeeps, TransferFailsKeeps, TimerElapsesKeeps
  DEF USBHCDMain
<1>2. CASE Interrupt
  BY <1>2, InterruptKeeps
<1>3. CASE Bus \/ Stall
  BY <1>3, TakeSetupKeeps, SendPacketKeeps, EndTransferKeeps, NobodyAnswersKeeps, StallKeeps
  DEF Bus
<1>4. CASE Hang \/ ControllerError \/ Plug \/ Unplug
  BY <1>4, HangKeeps, ControllerErrorKeeps, PlugKeeps, UnplugKeeps
<1>5. CASE UNCHANGED vars
  BY <1>5 DEF vars, HostInv, HostTypeOK, Waiting, Known, Connecting, Opened, Endpoint,
     Reading, Calm, Deaf, Answered, Unanswered, Asked, Whole
<1> QED BY <1>1, <1>2, <1>3, <1>4, <1>5 DEF Next

\* It says that an open driver has the whole descriptor of this connection.
LEMMA HostInvImplies == ASSUME HostAssumption, HostInv PROVE OpenOnWhole
<1>1. HostTypeOK /\ Opened /\ Reading
  BY DEF HostInv
<1>2. main.transfer \in ConfigReads => Asked(main.transfer) <= PoolSize
  BY <1>1, AskedIsNat, HostAssumption
  DEF HostAssumption, ConfigReads, Asked, Transfers
<1>3. main.transfer \in ConfigReads => 0 <= ep0.remaining /\ ep0.size <= PoolSize
  BY <1>1, <1>2 DEF Reading, HostTypeOK, Ep0Type
<1> QED BY <1>1, <1>3 DEF OpenOnWhole, Opened, ConfigReads, Whole

\* The invariant of enumeration: what is known of the device builds up in order and is
\* forgotten as a whole, and while a configuration descriptor is read, what the host still
\* waits for is what the device has not sent (USBHCDMain, USBHCDControlTransfer,
\* USBHCDEnumHandler).
THEOREM HostInvariant ==
  ASSUME SlowHands
  PROVE  Spec => []HostInv
<1>1. Init => HostInv
  BY HostInitInv, HostAssumption
<1>2. HostInv /\ [Next]_vars => HostInv'
  BY HostNextInv, HostAssumption
<1> QED BY <1>1, <1>2, PTL DEF Spec

\* A class driver is opened only on a device whose configuration descriptor was read
\* in this connection, as far as the pool has room, for every descriptor and packet size
\* and any number of devices, removals, stalls, hangs and errors (USBHCDMain).
THEOREM HostOpensOnWhole ==
  ASSUME SlowHands
  PROVE  Spec => []OpenOnWhole
<1>1. HostInv => OpenOnWhole
  BY HostInvImplies, HostAssumption
<1> QED BY <1>1, HostInvariant, PTL
=============================================================================
