--------------------------------- MODULE Cpsw ---------------------------------
(***************************************************************************)
(* Both rings of the Ethernet driver: the receive ring of CpswRx, and the    *)
(* transmit ring, whose packets are chains of descriptors from SOP to EOP.   *)
(* The stack sends with interrupts disabled (SYS_ARCH_PROTECT) or from the   *)
(* receive handler, so only the engines run between the steps of a call.     *)
(*                                                                         *)
(* The rings share the stack's pbufs: a reply may be sent from the pbuf the  *)
(* request came in, which is then kept until it has been sent.               *)
(***************************************************************************)
EXTENDS CpswRx, Sequences

CONSTANTS
  NumTx,       \* descriptors: (SIZE_CPPI_RAM / 2) / sizeof(cpdma_tx_bd)
  MaxChain     \* bound: pbufs of a packet

ASSUME TxAssumption == NumTx \in Nat /\ MaxChain \in 1..NumTx - 1

VARIABLES
  txbd,    \* the descriptors: struct cpdma_tx_bd
  txch,    \* struct txch
  tdma,    \* the engine: HDP, the descriptor done last, the packet sent last
  tx       \* the call or handler: where it is, its locals; the packets it has
           \* queued and freed last, and the pbufs that sending has lost;
           \* history: has the handler ever stopped to look for the engine?

txvars == <<txbd, txch, tdma, tx>>
allvars == <<vars, txvars>>

TxBds == 1..NumTx

\* Packets are numbered; more than a ring of them is never under way.
NextPacket(p) == (p + 1) % (NumTx + 1)

\* cpswif_cpdma_init: the transmit ring is closed.
CpswInit ==
  /\ Init
  /\ txbd = [i \in TxBds |-> [next |-> (i % NumTx) + 1, flags |-> {},
                              packet |-> 0, pool |-> FALSE]]
  /\ txch = [free_head |-> 1, send_head |-> 1, send_tail |-> NULL,
             free_num |-> NumTx]
  /\ tdma = [hdp |-> NULL, done |-> NULL, irq |-> FALSE, packet |-> 0]
  /\ tx = [at |-> "idle", head |-> NULL, end |-> NULL,
           queued |-> 0, freed |-> 0, lost |-> 0, late |-> FALSE]

\* The n descriptors from i on, in the order of the chain.
Run(i, n) == {p \in [1..n -> TxBds] :
                p[1] = i /\ \A k \in 1..n - 1 : p[k + 1] = txbd[p[k]].next}
Last(p) == p[Len(p)]

\* The descriptors of the packet that begins with i: only its last has EOP.
Packet(i) == {p \in UNION {Run(i, n) : n \in 1..NumTx} :
                \A k \in 1..Len(p) : "EOP" \in txbd[p[k]].flags <=> k = Len(p)}

\* Received pbufs that are being sent.
Sending == Cardinality({i \in TxBds : txbd[i].pool /\ "SOP" \in txbd[i].flags})

-----------------------------------------------------------------------------
(* cpswif_output and cpswif_transmit.                                       *)

\* Mutant: an EOQ from the last time the descriptor was used is left there.
Flags_KeepsEoq(i, p) ==
  LET old == IF i = p[1] THEN {"SOP", "OWNER"} ELSE txbd[i].flags
  IN  IF i = Last(p) THEN old \cup {"EOP"} ELSE old

\* The flags of the first descriptor are stored, those of the others changed:
\* the last is the end of a packet, and not yet of the queue.
Flags(i, p) ==
  LET old == IF i = p[1] THEN {"SOP", "OWNER"} ELSE txbd[i].flags
  IN  IF i = Last(p) THEN (old \cup {"EOP"}) \ {"EOQ"} ELSE old

\* Each has the address of the packet; only that of the last is looked at.
Queued(p, packet, pool) ==
  [i \in TxBds |->
     IF \E k \in 1..Len(p) : i = p[k]
       THEN [next |-> IF i = Last(p) THEN NULL ELSE txbd[i].next,
             flags |-> Flags(i, p),
             packet |-> IF i = Last(p) THEN packet ELSE 0,
             pool |-> i = Last(p) /\ pool]
       ELSE txbd[i]]

\* The stack sends a packet of its own, or a received one (pool), in the n
\* descriptors p; all but the look at the old tail.  The first packet ever is
\* given to the engine at once.
TransmitIn(p, pool) ==
  LET head == txch.free_head
      bds  == Queued(p, NextPacket(tx.queued), pool)
      tail == txch.send_tail
  IN  /\ txbd' = IF tail = NULL THEN bds ELSE [bds EXCEPT ![tail].next = head]
      /\ txch' = [txch EXCEPT !.free_head = txbd[Last(p)].next,
                              !.free_num = @ - Len(p),
                              !.send_tail = IF tail = NULL THEN Last(p) ELSE tail]
      /\ tdma' = IF tail = NULL THEN [tdma EXCEPT !.hdp = head] ELSE tdma
      /\ tx' = [tx EXCEPT !.at = IF tail = NULL THEN "idle" ELSE "check",
                          !.head = IF tail = NULL THEN NULL ELSE head,
                          !.end = IF tail = NULL THEN NULL ELSE Last(p),
                          !.queued = NextPacket(@)]
      /\ UNCHANGED vars

Transmit(n, pool) ==
  /\ cpu.at \in {"idle", "loop"} /\ tx.at = "idle"
  /\ n <= txch.free_num
  /\ pool => n = 1 /\ stack.held > Sending + tx.lost
  /\ \E p \in Run(txch.free_head, n) : TransmitIn(p, pool)

\* No descriptor is free: ERR_MEM, with the reference taken for the packet
\* still counted, so that its pbuf is never freed.  (Memory of packets of the
\* stack's own is not counted here.)
TransmitRefused ==
  /\ cpu.at \in {"idle", "loop"} /\ tx.at = "idle"
  /\ txch.free_num = 0 /\ stack.held > Sending + tx.lost
  /\ tx' = [tx EXCEPT !.lost = @ + 1]
  /\ UNCHANGED <<vars, txbd, txch, tdma>>

\* Mutant: an engine that has stopped is not looked for.
RestartTx_Never == UNCHANGED tdma
RestartTx ==
  tdma' = IF "EOQ" \in txbd[txch.send_tail].flags
            THEN [tdma EXCEPT !.hdp = tx.head] ELSE tdma

\* Has the engine reached the old tail before it was linked?
CheckTail ==
  /\ tx.at = "check"
  /\ RestartTx
  /\ txch' = [txch EXCEPT !.send_tail = tx.end]
  /\ tx' = [tx EXCEPT !.at = "idle", !.head = NULL, !.end = NULL]
  /\ UNCHANGED <<vars, txbd>>

-----------------------------------------------------------------------------
(* cpswif_tx_inthandler.                                                    *)

EnterTx ==
  /\ cpu.at = "idle" /\ tx.at = "idle" /\ tdma.irq
  /\ tx' = [tx EXCEPT !.at = "reap"]
  /\ UNCHANGED <<vars, txbd, txch, tdma>>

\* The last descriptor of a packet that has been sent.
Reaped(b) == [b EXCEPT !.flags = @ \ {"EOP"}, !.packet = 0, !.pool = FALSE]

\* The packet has been sent.  A pbuf of the pool is then freed.
ReapPacket ==
  LET head == txch.send_head
  IN  /\ tx.at = "reap"
      /\ "SOP" \in txbd[head].flags /\ "OWNER" \notin txbd[head].flags
      /\ \E p \in Packet(head) :
           LET end  == Last(p)
               next == txbd[end].next
               seen == [txbd EXCEPT ![head].flags = @ \ {"SOP"}]
           IN  /\ txbd' = [seen EXCEPT ![end] = Reaped(@)]
               /\ txch' = [txch EXCEPT
                             !.free_num = @ + Len(p),
                             !.send_head = IF next = NULL THEN txch.free_head
                                           ELSE next]
               /\ tdma' = [tdma EXCEPT !.irq = @ /\ tdma.done # end]
               /\ tx' = [tx EXCEPT !.freed = txbd[end].packet]
               /\ stack' = IF txbd[end].pool
                             THEN [stack EXCEPT !.held = @ - 1, !.free = @ + 1]
                             ELSE stack
      /\ UNCHANGED <<bd, rxch, dma, cpu>>

\* It waits for the engine, for 65535 looks at all the packets of one call.
\* How long they take is not modelled: any look may be the last.
LastLook ==
  /\ tx.at = "reap" /\ {"SOP", "OWNER"} \subseteq txbd[txch.send_head].flags
  /\ tx' = [tx EXCEPT !.at = "late"]
  /\ UNCHANGED <<vars, txbd, txch, tdma>>

\* The engine is given the packet once more, whatever it does by then.  The end
\* of the interrupt is not written and no receive descriptor refilled; whether
\* the interrupt comes again is left open.
TryAgain ==
  /\ tx.at = "late"
  /\ tdma' = [tdma EXCEPT !.hdp = txch.send_head]
  /\ tx' = [tx EXCEPT !.at = "idle", !.late = TRUE]
  /\ UNCHANGED <<vars, txbd, txch>>

\* Nothing is left to send: receive descriptors are given buffers.
LeaveTx ==
  /\ tx.at = "reap" /\ "SOP" \notin txbd[txch.send_head].flags
  /\ TxInterrupt
  /\ tx' = [tx EXCEPT !.at = "idle"]
  /\ UNCHANGED <<txbd, txch, tdma>>

-----------------------------------------------------------------------------
(* The transmit engine, the receive ring and the rest of the stack.         *)

\* A packet has been sent.  The engine looks for the next and says that there
\* is none in one step.
SendPacket ==
  /\ tdma.hdp # NULL
  /\ \E p \in Packet(tdma.hdp) :
       LET end  == Last(p)
           next == txbd[end].next
           sent == [txbd EXCEPT ![tdma.hdp].flags = @ \ {"OWNER"}]
       IN  /\ txbd' = IF next = NULL
                        THEN [sent EXCEPT ![end].flags = @ \cup {"EOQ"}] ELSE sent
           /\ tdma' = [hdp |-> next, done |-> end, irq |-> TRUE,
                       packet |-> txbd[end].packet]
  /\ UNCHANGED <<vars, txch, tx>>

RxHandler ==
  /\ tx.at = "idle"
  /\ \/ RxInterrupt \/ ProcessFrame \/ NoMoreFrames
     \/ FillBd \/ EndFill \/ NothingFilled \/ LinkBds \/ CheckEoq
  /\ UNCHANGED txvars

FreeKept ==
  /\ tx.at = "idle" /\ stack.held > Sending + tx.lost
  /\ FreePbuf
  /\ UNCHANGED txvars

CpswNext ==
  \/ \E n \in 1..MaxChain, pool \in BOOLEAN : Transmit(n, pool)
  \/ TransmitRefused \/ CheckTail
  \/ EnterTx \/ ReapPacket \/ LastLook \/ TryAgain \/ LeaveTx \/ SendPacket
  \/ RxHandler \/ (Receive /\ UNCHANGED txvars) \/ FreeKept

CpswSpec == CpswInit /\ [][CpswNext]_allvars
-----------------------------------------------------------------------------

(***************************************************************************)
(* Properties.                                                             *)
(***************************************************************************)

\* Until the handler gives the engine a packet for the second time, every packet
\* is sent once and in order, from descriptors that are still its own; only then
\* is it freed; and HDP is written only while the engine stands still
\* (cpswif_transmit, cpswif_tx_inthandler).
SentInOrder ==
  [][~tx'.late =>
       /\ tdma'.hdp # NULL =>
            {"SOP", "OWNER"} \subseteq txbd'[tdma'.hdp].flags
       /\ tdma'.packet # tdma.packet =>
            tdma'.packet = NextPacket(tdma.packet)
       /\ tx'.freed # tx.freed =>
            tx.freed # tdma.packet /\ tx'.freed = NextPacket(tx.freed)
       /\ tdma.hdp # NULL /\ tdma'.hdp # tdma.hdp => SendPacket]_allvars

\* Until then, an engine that stands still with all interrupts handled has sent
\* all there was, and all its descriptors are free (cpswif_transmit).
TransmissionGoesOn ==
  tx.at = "idle" /\ ~tdma.irq /\ tdma.hdp = NULL /\ ~tx.late =>
    txch.free_num = NumTx
=============================================================================
