-------------------------------- MODULE CpswRx --------------------------------
(***************************************************************************)
(* The receive ring of the Ethernet driver (cpswif.c of lwIP's CPSW port):   *)
(* the interrupt handler hands frames to the stack and gives the emptied     *)
(* descriptors new buffers (pbufs), while the DMA engine follows the same    *)
(* chain.  The engine stops at a descriptor without a next one, marks it EOQ *)
(* and goes on when the head descriptor pointer (HDP) is written.            *)
(*                                                                         *)
(* Descriptors are 1 to NumBds, 0 is NULL.  A handler is cut where the       *)
(* engine could see the difference; handlers do not interrupt each other.    *)
(***************************************************************************)
EXTENDS Integers, FiniteSets

CONSTANTS
  NumBds,      \* descriptors: (SIZE_CPPI_RAM / 2) / sizeof(cpdma_rx_bd)
  Pool,        \* PBUF_POOL_SIZE
  Hold,        \* bound: pbufs the stack keeps at a time
  Burst        \* bound: frames that come while descriptors are linked

ASSUME RxAssumption ==
  /\ NumBds \in Nat \ {0} /\ Pool \in Nat /\ NumBds <= Pool
  /\ Hold \in Nat /\ Burst \in 0..NumBds - 1

VARIABLES
  bd,      \* the descriptors: struct cpdma_rx_bd
  rxch,    \* struct rxch
  dma,     \* the engine: HDP, the descriptor done last, the frame it wrote;
           \* history: has the driver missed that it stands still?
  cpu,     \* the handler: where it is, and its locals
  stack    \* pbufs free and kept, and the frame handed over last

vars == <<bd, rxch, dma, cpu, stack>>

Bds == 1..NumBds
NULL == 0

\* Frames are numbered; more than a ring of them is never under way.
NextFrame(f) == IF f = NumBds THEN 0 ELSE f + 1

\* No handler runs.
Returned == [at |-> "idle", curr |-> NULL, last |-> NULL,
             head |-> NULL, tail |-> NULL]

\* cpswif_rxbd_alloc is called: it starts from the free head of the chain.
Allocating(ch) == [Returned EXCEPT !.at = "alloc", !.curr = ch.free_head]

\* cpswif_cpdma_init, with a pbuf for every descriptor.
Init ==
  /\ bd = [i \in Bds |-> [next |-> IF i = NumBds THEN NULL ELSE i + 1,
                          owner |-> TRUE, eoq |-> FALSE,
                          pbuf |-> TRUE, frame |-> 0]]
  /\ rxch = [free_head |-> 1, recv_head |-> 1, recv_tail |-> NumBds,
             free_num |-> 0]
  /\ dma = [hdp |-> 1, done |-> NULL, irq |-> FALSE,
            frame |-> 0, burst |-> 0, missed |-> FALSE]
  /\ cpu = Returned
  /\ stack = [free |-> Pool - NumBds, held |-> 0, frame |-> 0]

-----------------------------------------------------------------------------
(* cpswif_rx_inthandler.                                                    *)

RxInterrupt ==
  /\ cpu.at = "idle" /\ dma.irq
  /\ cpu' = [cpu EXCEPT !.at = "loop", !.curr = rxch.recv_head]
  /\ UNCHANGED <<bd, rxch, dma, stack>>

\* The frame goes to ethernet_input, which keeps the pbuf or frees it.
HandOver ==
  \/ stack' = [stack EXCEPT !.frame = bd[cpu.curr].frame, !.free = @ + 1]
  \/ /\ stack.held < Hold
     /\ stack' = [stack EXCEPT !.frame = bd[cpu.curr].frame, !.held = @ + 1]

\* The flags are overwritten, EOQ with them: once the tail is free as well, no
\* mark tells that the engine stands still.
Cleared(b) == [b EXCEPT !.owner = TRUE, !.eoq = FALSE, !.pbuf = FALSE,
                            !.frame = 0]

\* Writing the completion pointer takes the interrupt back if no descriptor
\* has been completed since.
ProcessFrame ==
  /\ cpu.at = "loop" /\ ~bd[cpu.curr].owner
  /\ HandOver
  /\ bd' = [bd EXCEPT ![cpu.curr] = Cleared(@)]
  /\ dma' = [dma EXCEPT !.irq = @ /\ dma.done # cpu.curr]
  /\ LET next == bd[cpu.curr].next
     IN  /\ rxch' = [rxch EXCEPT
                       !.free_num = @ + 1,
                       !.recv_head = IF next = NULL THEN rxch.free_head
                                     ELSE next]
         /\ cpu' = IF next = NULL THEN Allocating(rxch)
                                  ELSE [cpu EXCEPT !.curr = next]

NoMoreFrames ==
  /\ cpu.at = "loop" /\ bd[cpu.curr].owner
  /\ cpu' = Allocating(rxch)
  /\ UNCHANGED <<bd, rxch, dma, stack>>

\* cpswif_tx_inthandler ends with the same call of cpswif_rxbd_alloc; what it
\* does before is in Cpsw.
TxInterrupt ==
  /\ cpu.at = "idle"
  /\ cpu' = Allocating(rxch)
  /\ UNCHANGED <<bd, rxch, dma, stack>>

-----------------------------------------------------------------------------
(* cpswif_rxbd_alloc.                                                       *)

\* One turn of the loop: a free descriptor gets a pbuf.
FillBd ==
  /\ cpu.at = "alloc" /\ rxch.free_num > 0 /\ stack.free > 0
  /\ bd' = [bd EXCEPT ![cpu.curr] = [@ EXCEPT !.pbuf = TRUE, !.owner = TRUE,
                                              !.eoq = FALSE]]
  /\ stack' = [stack EXCEPT !.free = @ - 1]
  /\ rxch' = [rxch EXCEPT !.free_num = @ - 1]
  /\ cpu' = [cpu EXCEPT !.curr = bd[cpu.curr].next, !.last = cpu.curr]
  /\ UNCHANGED dma

NoneToFill == rxch.free_num = 0 \/ stack.free = 0

\* A part of a ring that was free altogether has been filled: the engine stands
\* still, and CheckEoq will not find its mark.
MarkMissed == cpu.curr # NULL /\ ~bd[rxch.recv_tail].pbuf

\* The engine does not see the new descriptors before they are linked, but where
\* the loop has gone through the whole ring: there HDP is written first.
EndFill ==
  /\ cpu.at = "alloc" /\ NoneToFill /\ cpu.last # NULL
  /\ rxch' = [rxch EXCEPT !.recv_tail = cpu.last,
                          !.free_head = IF cpu.curr = NULL THEN @ ELSE cpu.curr]
  /\ dma' = [dma EXCEPT !.burst = 0, !.missed = @ \/ MarkMissed,
                        !.hdp = IF cpu.curr = NULL THEN rxch.free_head ELSE @]
  /\ cpu' = [cpu EXCEPT !.at = "link", !.curr = NULL,
                        !.head = rxch.free_head, !.tail = rxch.recv_tail]
  /\ UNCHANGED <<bd, stack>>

\* No descriptor was given a pbuf: it returns.
NothingFilled ==
  /\ cpu.at = "alloc" /\ NoneToFill /\ cpu.last = NULL
  /\ cpu' = Returned
  /\ UNCHANGED <<bd, rxch, dma, stack>>

\* Mutant: the ring is not closed.
Linked_Open(b) == [b EXCEPT ![cpu.tail].next = cpu.head]

\* The old tail is followed by the new descriptors, the last by none.
Linked(b) == [b EXCEPT ![cpu.tail].next = cpu.head, ![cpu.last].next = NULL]

LinkBds ==
  /\ cpu.at = "link"
  /\ bd' = Linked(bd)
  /\ cpu' = [cpu EXCEPT !.at = "check"]
  /\ UNCHANGED <<rxch, dma, stack>>

\* Mutants: an engine that has stopped is not looked for; HDP is written in
\* any case.
Restart_Never == UNCHANGED dma
Restart_Always == dma' = [dma EXCEPT !.hdp = cpu.head]

Restart ==
  dma' = IF bd[cpu.tail].eoq THEN [dma EXCEPT !.hdp = cpu.head] ELSE dma

\* Has the engine reached the old tail before it was linked?
CheckEoq ==
  /\ cpu.at = "check"
  /\ Restart
  /\ cpu' = Returned
  /\ UNCHANGED <<bd, rxch, stack>>

-----------------------------------------------------------------------------
(* The engine and the rest of the stack.                                    *)

\* A frame has arrived in the descriptor HDP points to.  The engine looks for
\* the next descriptor and says that there is none in one step.
Receive ==
  /\ dma.hdp # NULL
  /\ cpu.at \in {"link", "check"} => dma.burst < Burst
  /\ LET next == bd[dma.hdp].next
     IN  /\ bd' = [bd EXCEPT ![dma.hdp].owner = FALSE,
                             ![dma.hdp].eoq = next = NULL,
                             ![dma.hdp].frame = NextFrame(dma.frame)]
         /\ dma' = [dma EXCEPT !.hdp = next, !.done = dma.hdp, !.irq = TRUE,
                               !.frame = NextFrame(@),
                               !.burst = IF cpu.at \in {"link", "check"}
                                           THEN @ + 1 ELSE 0]
  /\ UNCHANGED <<rxch, cpu, stack>>

\* The stack frees a pbuf it has kept.
FreePbuf ==
  /\ cpu.at = "idle" /\ stack.held > 0
  /\ stack' = [stack EXCEPT !.held = @ - 1, !.free = @ + 1]
  /\ UNCHANGED <<bd, rxch, dma, cpu>>

Next ==
  \/ RxInterrupt \/ ProcessFrame \/ NoMoreFrames \/ TxInterrupt
  \/ FillBd \/ EndFill \/ NothingFilled \/ LinkBds \/ CheckEoq
  \/ Receive \/ FreePbuf

Spec == Init /\ [][Next]_vars
-----------------------------------------------------------------------------

(***************************************************************************)
(* Properties.                                                             *)
(***************************************************************************)

\* The descriptors that hold a pbuf.
Armed == {i \in Bds : bd[i].pbuf}

\* The engine points to a descriptor that holds a pbuf and no frame yet, and
\* no pbuf is lost or held by two: each is free, in the stack or in the one
\* descriptor it was given to (cpswif_rxbd_alloc, cpswif_rx_inthandler).
BuffersSafe ==
  /\ dma.hdp # NULL => dma.hdp \in Armed /\ bd[dma.hdp].owner
  /\ stack.free + stack.held + Cardinality(Armed) = Pool

\* The stack gets every frame that the engine has received, in order, none
\* twice (cpswif_rx_inthandler).
FramesInOrder ==
  [][stack'.frame # stack.frame => stack'.frame = NextFrame(stack.frame)]_vars

\* HDP is written only while the engine stands still: it moves on by itself
\* otherwise (cpswif_rxbd_alloc).
HdpOnlyWhenStopped ==
  [][dma.hdp # NULL /\ dma'.hdp # dma.hdp =>
       dma'.hdp = bd[dma.hdp].next]_vars

\* An engine that stands still with all interrupts handled has no descriptor
\* it could use, as long as no refill has left a part of a free ring empty
\* (cpswif_rxbd_alloc, after pbuf_alloc has returned NULL).
ReceptionGoesOn ==
  cpu.at = "idle" /\ ~dma.irq /\ dma.hdp = NULL /\ ~dma.missed => Armed = {}

\* The comment in cpswif_rxbd_alloc has it without that condition: whether
\* reception has ended is checked, and HDP then written.
EndIsNoticed ==
  cpu.at = "idle" /\ ~dma.irq /\ dma.hdp = NULL => Armed = {}
=============================================================================
