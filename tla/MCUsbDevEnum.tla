----------------------------- MODULE MCUsbDevEnum -----------------------------
(***************************************************************************)
(* Endpoint zero with packets of 3 bytes and a configuration descriptor of  *)
(* three sections, 6 bytes in all: one section ends inside a packet, one      *)
(* spans two, and the whole fills its last packet, so that an empty one has *)
(* to follow.                                                               *)
(***************************************************************************)
EXTENDS UsbDevEnum

MCSections == <<2, 3, 1>>
MCBlockSize == [b \in Blocks |-> IF b = "device" THEN 4 ELSE 3]

Request(kind, value, length) ==
  [kind |-> kind, wValue |-> value, wLength |-> length]

\* The host reads the header of the configuration descriptor first, as hosts
\* do, then all of it.  It may ask for a configuration that is not there.
MCRequests ==
  {Request("config", 0, 2), Request("config", 0, 5), Request("config", 0, 8),
   Request("config", 1, 8), Request("device", 0, 2), Request("device", 0, 8),
   Request("class", 0, 4), Request("classOut", 0, 3), Request("classOut", 0, 4),
   Request("getConfiguration", 0, 1), Request("unsupported", 0, 8),
   Request("setAddress", 1, 0), Request("setAddress", 2, 0),
   Request("setConfiguration", 0, 0), Request("setConfiguration", 1, 0),
   Request("setConfiguration", 2, 0), Request("refused", 0, 0)}
=============================================================================
