---------------------------- MODULE MCUsbMscDevice ----------------------------
(***************************************************************************)
(* UsbMscDevice on small commands: reads of half a chunk to one and a half, a  *)
(* write of two blocks, one command of each other kind.                     *)
(***************************************************************************)
EXTENDS UsbMscDevice

MCCommands ==
  {[kind |-> k, lba |-> 0, n |-> 1] :
     k \in {"inquiry", "capacity", "sense", "badIn", "badOut"}}
  \cup {[kind |-> k, lba |-> 0, n |-> 0] : k \in NoData}
  \cup {[kind |-> "read", lba |-> l, n |-> n] : l \in 0..1, n \in 1..3}
  \cup {[kind |-> "write", lba |-> 1, n |-> 2]}
=============================================================================
