---------------------------- MODULE CppiDmaBuffers ----------------------------
(***************************************************************************)
(* The pool of DMA buffers of drivers/cppi41dma.c: NumBuffers units of 512   *)
(* bytes, of which a caller takes one (cppiDmaAllocBuffer) or a run of        *)
(* neighbours (cppiDmaAllocnBuffer).                                         *)
(*                                                                         *)
(* Its users here are the handlers of mass storage devices: they allocate    *)
(* responses and chunks of data and free them when they have been sent, all  *)
(* in the USB interrupt, so each call is one step.  Before that the main     *)
(* program has allocated the first Held units for reception, for good.       *)
(***************************************************************************)
EXTENDS Integers

CONSTANTS
  NumBuffers,   \* CPDMA_NUMOF_BUFFERS
  Modulus,      \* an unsigned int counts modulo 2^32
  Held,         \* NUM_OF_RX_BDs; 0 in a program without a device
  MaxBlocks,    \* the longest run asked for
  Transfers     \* those that may be under way at once

ASSUME BuffersAssumption ==
  /\ NumBuffers \in Nat /\ Modulus \in Nat /\ Modulus > NumBuffers
  /\ Held \in 0 .. NumBuffers /\ MaxBlocks \in 1 .. NumBuffers

VARIABLES
  usedFlag, nBlocks,  \* dmaBuffer, per unit
  owns                \* per transfer, the run it was given: first and count

poolVars == <<usedFlag, nBlocks, owns>>

Units == 0 .. NumBuffers - 1
Nothing == [first |-> 0, count |-> 0]

PoolInit ==
  /\ usedFlag = [u \in Units |-> u < Held]
  /\ nBlocks = [u \in Units |-> IF u < Held THEN 1 ELSE 0]
  /\ owns = [t \in Transfers |-> Nothing]

-----------------------------------------------------------------------------
(* The pool.                                                               *)

\* Mutants: a free unit on either side of used ones counts as a neighbour; the
\* caller is given the unit after its run; only the first unit is freed.
Returned_After(n, i) == i + 1
RunEnd_NotReset(n, i) ==
  i \in Units /\ n <= i + 1 /\ ~usedFlag[i] /\ ~usedFlag[i + 1 - n]
FreenBuffer_First(first) ==
  /\ nBlocks[first] # 0
  /\ usedFlag' = [usedFlag EXCEPT ![first] = FALSE]
  /\ nBlocks' = [nBlocks EXCEPT ![first] = 0]

\* The search of cppiDmaAllocBuffer ends at unit i.
FirstFree(i) ==
  /\ i \in Units /\ ~usedFlag[i]
  /\ \A j \in 0 .. i - 1 : usedFlag[j]

\* The n units up to i are free ...
RunEnd(n, i) == i \in Units /\ n <= i + 1 /\ \A j \in i + 1 - n .. i : ~usedFlag[j]

\* ... and the countdown of cppiDmaAllocnBuffer reaches zero there first.
FirstRunEnd(n, i) == RunEnd(n, i) /\ \A j \in 0 .. i - 1 : ~RunEnd(n, j)

\* The marking loop of cppiDmaAllocnBuffer, for(j = i; j > (i - n); j--), in
\* unsigned arithmetic: the units it marks, and where j stops.
LoopStop(n, i) == (i - n) % Modulus
Marked(n, i) == {j \in Units : j <= i /\ j > LoopStop(n, i)}
Returned(n, i) == (IF i > LoopStop(n, i) THEN LoopStop(n, i) ELSE i) + 1

Take(t, units, first, n) ==
  /\ usedFlag' = [u \in Units |-> usedFlag[u] \/ u \in units]
  /\ nBlocks' = [u \in Units |-> IF u = first THEN n ELSE nBlocks[u]]
  /\ owns' = [owns EXCEPT ![t] = [first |-> first, count |-> n]]

\* cppiDmaFreenBuffer: nothing at all for a unit that starts no run.
FreenBuffer(first) ==
  IF first \in Units /\ nBlocks[first] # 0
    THEN /\ usedFlag' = [u \in Units |-> usedFlag[u]
                           /\ ~(u >= first /\ u < first + nBlocks[first])]
         /\ nBlocks' = [nBlocks EXCEPT ![first] = 0]
    ELSE UNCHANGED <<usedFlag, nBlocks>>

-----------------------------------------------------------------------------
(* The mass storage device.                                                *)

\* The answer to a SCSI command.
AllocResponse(t) ==
  /\ owns[t] = Nothing
  /\ \E i \in Units : FirstFree(i) /\ Take(t, {i}, i, 1)

\* A chunk of a READ(10).
AllocChunk(t) ==
  /\ owns[t] = Nothing
  /\ \E n \in 1 .. MaxBlocks, i \in Units :
       FirstRunEnd(n, i) /\ Take(t, Marked(n, i), Returned(n, i), n)

\* dmaTxCompletion.
PoolTxCompletion(t) ==
  /\ owns[t] # Nothing
  /\ FreenBuffer(owns[t].first)
  /\ owns' = [owns EXCEPT ![t] = Nothing]

PoolNext ==
  \E t \in Transfers : AllocResponse(t) \/ AllocChunk(t) \/ PoolTxCompletion(t)

PoolSpec == PoolInit /\ [][PoolNext]_poolVars
-----------------------------------------------------------------------------

(***************************************************************************)
(* Properties.                                                             *)
(***************************************************************************)

Run(t) == owns[t].first .. owns[t].first + owns[t].count - 1
HeldUnits == 0 .. Held - 1

\* Every variable stays in its range: the runs given out begin in the pool.
TypeOK ==
  /\ usedFlag \in [Units -> BOOLEAN]
  /\ nBlocks \in [Units -> 0 .. NumBuffers]
  /\ owns \in [Transfers -> [first : Units, count : 0 .. NumBuffers]]

\* The runs that have been given out and not freed lie inside the pool and
\* share no unit, neither with each other nor with the reception buffers.
OwnersApart ==
  \A t \in Transfers :
    /\ Run(t) \subseteq Units \ HeldUnits
    /\ \A s \in Transfers \ {t} : Run(s) \cap Run(t) = {}

\* The units marked as used are those that somebody has been given: none is
\* leaked, none is up for grabs.
UsedIffOwned ==
  \A u \in Units :
    usedFlag[u] <=> u \in HeldUnits \/ \E t \in Transfers : u \in Run(t)
=============================================================================
