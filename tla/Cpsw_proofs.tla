----------------------------- MODULE Cpsw_proofs -----------------------------
(***************************************************************************)
(* The rings of the Ethernet driver for every number of descriptors and       *)
(* pbufs, wherever the engines are between the steps of the handlers.          *)
(*                                                                         *)
(* The receive ring, alone and in the composition, comes first; the transmit   *)
(* ring, whose packets are runs of descriptors, follows in the second half.    *)
(*                                                                         *)
(* Its descriptors are looked at in the order of the chain, from the free      *)
(* head on: first those the allocation has filled, then the empty ones, then   *)
(* the frames the handler has not seen, then those that wait for frames.       *)
(***************************************************************************)
EXTENDS Cpsw, FiniteSetTheorems, SequenceTheorems, WellFoundedInduction, TLAPS

Labels == {"idle", "loop", "alloc", "link", "check"}
Frames == 0 .. NumBds

Types ==
  /\ bd \in [Bds -> [next : 0 .. NumBds, owner : BOOLEAN, eoq : BOOLEAN,
                     pbuf : BOOLEAN, frame : Frames]]
  /\ rxch \in [free_head : Bds, recv_head : Bds, recv_tail : Bds,
               free_num : 0 .. NumBds]
  /\ dma \in [hdp : 0 .. NumBds, done : 0 .. NumBds, irq : BOOLEAN,
              frame : Frames, burst : Nat, missed : BOOLEAN]
  /\ cpu \in [at : Labels, curr : 0 .. NumBds, last : 0 .. NumBds,
              head : 0 .. NumBds, tail : 0 .. NumBds]
  /\ stack \in [free : Nat, held : Nat, frame : Frames]

\* The descriptor after i in the ring, and how far i is from the descriptor h.
Succ(i) == IF i = NumBds THEN 1 ELSE i + 1
OffFrom(h, i) == IF i >= h THEN i - h ELSE i - h + NumBds
Off(i) == OffFrom(rxch.free_head, i)

\* The number of the frame n after f.
Plus(f, n) == IF f + n <= NumBds THEN f + n ELSE f + n - (NumBds + 1)

\* Frames received and not handed over; descriptors the allocation has filled;
\* descriptors before the first frame.
Pending == IF dma.frame >= stack.frame THEN dma.frame - stack.frame
                                       ELSE dma.frame - stack.frame + NumBds + 1
Filled == IF cpu.at = "alloc" /\ cpu.last # NULL THEN Off(cpu.last) + 1 ELSE 0
Emptied == rxch.free_num + Filled

Linking == cpu.at \in {"link", "check"}

\* The whole ring was free and has been filled.
WholeRing == Linking /\ cpu.tail = rxch.recv_tail

\* The chain ends at the tail, while it is being linked at the old one, and the
\* free descriptors come after the tail.
End == IF cpu.at = "link" THEN cpu.tail ELSE rxch.recv_tail
Chain ==
  /\ rxch.free_head = Succ(rxch.recv_tail)
  /\ \A i \in Bds : bd[i].next = IF i = End THEN NULL ELSE Succ(i)

\* Where the handlers are.
Handlers ==
  /\ Emptied = NumBds => rxch.recv_head = rxch.free_head
  /\ Emptied < NumBds => Off(rxch.recv_head) = Emptied
  /\ cpu.at = "loop" => cpu.curr = rxch.recv_head
  /\ cpu.at = "alloc" =>
       cpu.curr = IF cpu.last = NULL THEN rxch.free_head
                  ELSE IF cpu.last = rxch.recv_tail THEN NULL
                  ELSE Succ(cpu.last)
  /\ Linking => cpu.tail \in Bds /\ cpu.head = Succ(cpu.tail)
  /\ cpu.at = "link" => cpu.last = rxch.recv_tail

\* What the descriptors are, when k are filled, e are before the first frame and
\* m frames follow frame s.
Layout(b, h, k, e, m, s) ==
  \A i \in Bds :
    /\ b[i].pbuf <=> ~(k <= OffFrom(h, i) /\ OffFrom(h, i) < e)
    /\ b[i].owner <=> ~(e <= OffFrom(h, i) /\ OffFrom(h, i) < e + m)
    /\ e <= OffFrom(h, i) /\ OffFrom(h, i) < e + m =>
         b[i].frame = Plus(s, OffFrom(h, i) - e + 1)
    /\ b[i].owner => ~b[i].eoq

\* Where the engine is.
Engine ==
  /\ Emptied + Pending <= NumBds
  /\ dma.hdp # NULL => Off(dma.hdp) = Emptied + Pending
  /\ Pending > 0 => dma.done # NULL /\ Off(dma.done) = Emptied + Pending - 1
  /\ dma.irq <=> Pending > 0
  /\ bd[rxch.recv_tail].eoq => dma.hdp = NULL /\ Emptied + Pending = NumBds
  /\ Linking => dma.burst <= Burst
  /\ Linking /\ bd[cpu.tail].eoq => /\ dma.hdp = NULL
                                    /\ Emptied + Pending = Off(cpu.tail) + 1
  /\ WholeRing => rxch.free_num = 0 /\ Pending <= dma.burst
  /\ cpu.at = "link" => /\ Emptied + Pending <= Off(cpu.tail) + 1
                        /\ dma.hdp # NULL => Off(dma.hdp) <= Off(cpu.tail)

\* Every pbuf is somewhere.
Pbufs == /\ stack.free + stack.held + Cardinality(Armed) = Pool
         /\ Cardinality(Armed) = NumBds - rxch.free_num
         /\ stack.held <= Hold

\* An engine stands still at the tail, which says so or is free like the rest of
\* the ring, or at the old tail, which is going to be looked at.
Flow ==
  dma.hdp = NULL =>
    \/ /\ Emptied + Pending = NumBds
       /\ Pending > 0 => bd[rxch.recv_tail].eoq
    \/ Linking /\ ~WholeRing /\ bd[cpu.tail].eoq

\* The inductive invariant.
IInv == /\ Types /\ Chain /\ Handlers
        /\ Layout(bd, rxch.free_head, Filled, Emptied, Pending, stack.frame)
        /\ Engine /\ Pbufs
        /\ ~dma.missed => Flow

-----------------------------------------------------------------------------
(* The ring.                                                                *)

BdTypes == [next : 0 .. NumBds, owner : BOOLEAN, eoq : BOOLEAN, pbuf : BOOLEAN,
            frame : Frames]

LEMMA Sizes == NumBds \in Nat /\ NumBds >= 1 /\ Burst \in Nat /\ Burst < NumBds
               /\ Pool \in Nat /\ Hold \in Nat
  BY RxAssumption

\* Going on in the ring is going on in the order of the chain, until its end.
LEMMA Offsets ==
  ASSUME NEW h \in Bds, NEW i \in Bds
  PROVE  /\ OffFrom(h, i) \in 0 .. NumBds - 1
         /\ OffFrom(h, i) = 0 <=> i = h
         /\ Succ(i) \in Bds
         /\ h = Succ(i) <=> OffFrom(h, i) = NumBds - 1
         /\ h # Succ(i) => OffFrom(h, Succ(i)) = OffFrom(h, i) + 1
         /\ \A j \in Bds : OffFrom(h, i) = OffFrom(h, j) => i = j
  BY Sizes DEF Bds, OffFrom, Succ

\* The order of the chain after the head has moved to the descriptor after l.
LEMMA Rebase ==
  ASSUME NEW h \in Bds, NEW l \in Bds, NEW i \in Bds,
         OffFrom(h, l) < NumBds - 1
  PROVE  OffFrom(Succ(l), i) = IF OffFrom(h, i) <= OffFrom(h, l)
                                 THEN OffFrom(h, i) + NumBds - (OffFrom(h, l) + 1)
                                 ELSE OffFrom(h, i) - (OffFrom(h, l) + 1)
  BY Sizes DEF Bds, OffFrom, Succ

\* The numbers of frames.
LEMMA Counting ==
  ASSUME NEW s \in Frames, NEW n \in 0 .. NumBds
  PROVE  /\ Plus(s, n) \in Frames /\ Plus(s, 0) = s /\ NextFrame(s) = Plus(s, 1)
         /\ NextFrame(s) \in Frames
         /\ n < NumBds => NextFrame(Plus(s, n)) = Plus(s, n + 1)
         /\ n > 0 => \A k \in 0 .. NumBds - 1 : Plus(NextFrame(s), k) = Plus(s, k + 1)
  BY Sizes DEF Frames, Plus, NextFrame

\* The handler takes the first frame.
LEMMA LayoutProcess ==
  ASSUME NEW b \in [Bds -> BdTypes], NEW h \in Bds, NEW i \in Bds,
         NEW e \in Nat, NEW m \in Nat \ {0}, NEW s \in Frames,
         e + m <= NumBds, OffFrom(h, i) = e, Layout(b, h, 0, e, m, s)
  PROVE  LET c == [b EXCEPT ![i] = Cleared(@)]
         IN  c \in [Bds -> BdTypes] /\ Layout(c, h, 0, e + 1, m - 1, NextFrame(s))
<1> DEFINE c == [b EXCEPT ![i] = Cleared(@)]
<1>1. b[i] \in BdTypes /\ 0 \in Frames
  BY Sizes DEF Frames
<1>2. Cleared(b[i]) \in BdTypes /\ ~Cleared(b[i]).pbuf /\ Cleared(b[i]).owner
      /\ ~Cleared(b[i]).eoq
  BY <1>1 DEF Cleared, BdTypes
<1>3. c \in [Bds -> BdTypes] /\ c[i] = Cleared(b[i])
      /\ \A j \in Bds \ {i} : c[j] = b[j]
  BY <1>2
<1> HIDE DEF c
<1>4. ASSUME NEW j \in Bds
      PROVE  /\ c[j].pbuf <=> ~(0 <= OffFrom(h, j) /\ OffFrom(h, j) < e + 1)
             /\ c[j].owner <=> ~(e + 1 <= OffFrom(h, j) /\ OffFrom(h, j) < e + 1 + (m - 1))
             /\ e + 1 <= OffFrom(h, j) /\ OffFrom(h, j) < e + 1 + (m - 1) =>
                  c[j].frame = Plus(NextFrame(s), OffFrom(h, j) - (e + 1) + 1)
             /\ c[j].owner => ~c[j].eoq
  <2>1. OffFrom(h, j) \in 0 .. NumBds - 1 /\ (OffFrom(h, j) = e => j = i)
    BY Offsets
  <2>2. CASE j = i
    BY <1>2, <1>3, <2>1, <2>2
  <2>3. CASE j # i
    <3>1. OffFrom(h, j) # e /\ c[j] = b[j]
      BY <1>3, <2>1, <2>3
    <3>2. /\ b[j].pbuf <=> ~(0 <= OffFrom(h, j) /\ OffFrom(h, j) < e)
          /\ b[j].owner <=> ~(e <= OffFrom(h, j) /\ OffFrom(h, j) < e + m)
          /\ e <= OffFrom(h, j) /\ OffFrom(h, j) < e + m =>
               b[j].frame = Plus(s, OffFrom(h, j) - e + 1)
          /\ b[j].owner => ~b[j].eoq
      BY DEF Layout
    <3>3. ASSUME e + 1 <= OffFrom(h, j), OffFrom(h, j) < e + m
          PROVE  Plus(NextFrame(s), OffFrom(h, j) - (e + 1) + 1)
                   = Plus(s, OffFrom(h, j) - e + 1)
      <4> DEFINE o == OffFrom(h, j)
      <4>1. o \in Nat /\ o - e \in 0 .. NumBds - 1 /\ m \in 0 .. NumBds /\ m > 0
            /\ o - (e + 1) + 1 = o - e
        BY <2>1, <3>3, Sizes
      <4> HIDE DEF o
      <4>2. Plus(NextFrame(s), o - e) = Plus(s, o - e + 1)
        BY <4>1, Counting
      <4> QED BY <4>1, <4>2 DEF o
    <3> QED BY <2>1, <3>1, <3>2, <3>3
  <2> QED BY <2>2, <2>3
<1>5. Layout(c, h, 0, e + 1, m - 1, NextFrame(s))
  BY <1>4 DEF Layout
<1> QED BY <1>3, <1>5 DEF c

\* The allocation gives the first empty descriptor a pbuf.
LEMMA LayoutFill ==
  ASSUME NEW b \in [Bds -> BdTypes], NEW h \in Bds, NEW i \in Bds,
         NEW k \in Nat, NEW e \in Nat, NEW m \in Nat, NEW s \in Frames,
         k < e, OffFrom(h, i) = k, Layout(b, h, k, e, m, s)
  PROVE  LET c == [b EXCEPT ![i] = [@ EXCEPT !.pbuf = TRUE, !.owner = TRUE,
                                             !.eoq = FALSE]]
         IN  /\ c \in [Bds -> BdTypes] /\ Layout(c, h, k + 1, e, m, s)
             /\ \A j \in Bds : c[j].next = b[j].next
<1> DEFINE filled == [b[i] EXCEPT !.pbuf = TRUE, !.owner = TRUE, !.eoq = FALSE]
           c == [b EXCEPT ![i] = filled]
<1>1. /\ filled \in BdTypes /\ filled.pbuf /\ filled.owner /\ ~filled.eoq
      /\ filled.next = b[i].next
  BY DEF BdTypes
<1> HIDE DEF filled
<1>2. c \in [Bds -> BdTypes] /\ c[i] = filled /\ \A j \in Bds \ {i} : c[j] = b[j]
  BY <1>1
<1> HIDE DEF c
<1>3. \A j \in Bds : OffFrom(h, j) \in 0 .. NumBds - 1 /\ (OffFrom(h, j) = k => j = i)
  BY Offsets
<1>4. Layout(c, h, k + 1, e, m, s)
  BY <1>1, <1>2, <1>3 DEF Layout
<1>5. \A j \in Bds : c[j].next = b[j].next
  BY <1>1, <1>2
<1> QED BY <1>2, <1>4, <1>5 DEF c, filled

\* What has been filled becomes the end of the chain.
LEMMA LayoutAppend ==
  ASSUME NEW b, NEW h \in Bds, NEW l \in Bds,
         NEW e \in Nat, NEW m \in Nat, NEW s,
         e + m <= NumBds, OffFrom(h, l) < NumBds - 1, OffFrom(h, l) + 1 <= e,
         Layout(b, h, OffFrom(h, l) + 1, e, m, s)
  PROVE  Layout(b, Succ(l), 0, e - (OffFrom(h, l) + 1), m, s)
<1> DEFINE k == OffFrom(h, l) + 1
<1>1. k \in Nat /\ k <= e /\ k < NumBds
  BY Offsets, Sizes
<1> SUFFICES ASSUME NEW j \in Bds
             PROVE  /\ b[j].pbuf <=> ~(0 <= OffFrom(Succ(l), j) /\ OffFrom(Succ(l), j) < e - k)
                    /\ b[j].owner <=> ~(e - k <= OffFrom(Succ(l), j)
                                        /\ OffFrom(Succ(l), j) < e - k + m)
                    /\ e - k <= OffFrom(Succ(l), j) /\ OffFrom(Succ(l), j) < e - k + m =>
                         b[j].frame = Plus(s, OffFrom(Succ(l), j) - (e - k) + 1)
                    /\ b[j].owner => ~b[j].eoq
  BY DEF Layout
<1> DEFINE o == OffFrom(h, j)
           p == OffFrom(Succ(l), j)
<1>2. o \in 0 .. NumBds - 1 /\ p = IF o < k THEN o + NumBds - k ELSE o - k
  BY Offsets, Rebase, <1>1
<1>3. /\ b[j].pbuf <=> ~(k <= o /\ o < e)
      /\ b[j].owner <=> ~(e <= o /\ o < e + m)
      /\ e <= o /\ o < e + m => b[j].frame = Plus(s, o - e + 1)
      /\ b[j].owner => ~b[j].eoq
  BY DEF Layout
<1> HIDE DEF k, o, p
<1>4. /\ k <= o /\ o < e <=> 0 <= p /\ p < e - k
      /\ e <= o /\ o < e + m <=> e - k <= p /\ p < e - k + m
      /\ o >= k => p - (e - k) + 1 = o - e + 1
  BY <1>1, <1>2, Sizes
<1>5. e <= o => o >= k
  BY <1>1, <1>2
<1>6. e - k <= p /\ p < e - k + m => b[j].frame = Plus(s, p - (e - k) + 1)
  BY <1>3, <1>4, <1>5
<1> QED BY <1>3, <1>4, <1>6 DEF k, o, p

\* The engine puts a frame into the descriptor it points to.
LEMMA LayoutReceive ==
  ASSUME NEW b \in [Bds -> BdTypes], NEW h \in Bds, NEW i \in Bds,
         NEW k \in Nat, NEW e \in Nat, NEW m \in Nat, NEW s,
         k <= e, e + m < NumBds, OffFrom(h, i) = e + m, Layout(b, h, k, e, m, s),
         NEW got \in BdTypes, got.pbuf = b[i].pbuf, ~got.owner, got.next = b[i].next,
         got.frame = Plus(s, m + 1)
  PROVE  LET c == [b EXCEPT ![i] = got]
         IN  /\ c \in [Bds -> BdTypes] /\ Layout(c, h, k, e, m + 1, s)
             /\ \A j \in Bds : c[j].next = b[j].next /\ c[j].pbuf = b[j].pbuf
<1> DEFINE c == [b EXCEPT ![i] = got]
<1>4. c \in [Bds -> BdTypes] /\ c[i] = got /\ \A j \in Bds \ {i} : c[j] = b[j]
  OBVIOUS
<1> HIDE DEF c
<1>5. \A j \in Bds : OffFrom(h, j) \in 0 .. NumBds - 1 /\ (OffFrom(h, j) = e + m => j = i)
  BY Offsets
<1>6. ASSUME NEW j \in Bds
      PROVE  /\ c[j].pbuf <=> ~(k <= OffFrom(h, j) /\ OffFrom(h, j) < e)
             /\ c[j].owner <=> ~(e <= OffFrom(h, j) /\ OffFrom(h, j) < e + (m + 1))
             /\ e <= OffFrom(h, j) /\ OffFrom(h, j) < e + (m + 1) =>
                  c[j].frame = Plus(s, OffFrom(h, j) - e + 1)
             /\ c[j].owner => ~c[j].eoq
  <2>1. /\ b[j].pbuf <=> ~(k <= OffFrom(h, j) /\ OffFrom(h, j) < e)
        /\ b[j].owner <=> ~(e <= OffFrom(h, j) /\ OffFrom(h, j) < e + m)
        /\ e <= OffFrom(h, j) /\ OffFrom(h, j) < e + m =>
             b[j].frame = Plus(s, OffFrom(h, j) - e + 1)
        /\ b[j].owner => ~b[j].eoq
    BY DEF Layout
  <2>2. CASE j = i
    <3>1. OffFrom(h, j) - e + 1 = m + 1 /\ e <= OffFrom(h, j) /\ OffFrom(h, j) < e + (m + 1)
      BY <2>2
    <3> QED BY <1>4, <2>1, <2>2, <3>1
  <2>3. CASE j # i
    <3>1. OffFrom(h, j) # e + m /\ c[j] = b[j] /\ OffFrom(h, j) \in Nat
      BY <1>4, <1>5, <2>3, Sizes
    <3>2. OffFrom(h, j) < e + (m + 1) <=> OffFrom(h, j) < e + m
      BY <3>1
    <3> QED BY <2>1, <3>1, <3>2
  <2> QED BY <2>2, <2>3
<1>7. Layout(c, h, k, e, m + 1, s)
  BY <1>6 DEF Layout
<1>8. \A j \in Bds : c[j].next = b[j].next /\ c[j].pbuf = b[j].pbuf
  BY <1>4
<1> QED BY <1>4, <1>7, <1>8 DEF c

-----------------------------------------------------------------------------
(* The steps.                                                               *)

LEMMA TypeFacts ==
  ASSUME Types
  PROVE  /\ bd \in [Bds -> BdTypes] /\ (\A i \in Bds : bd[i] \in BdTypes)
         /\ rxch.free_head \in Bds /\ rxch.recv_head \in Bds /\ rxch.recv_tail \in Bds
         /\ rxch.free_num \in 0 .. NumBds /\ rxch.free_num \in Nat
         /\ dma.hdp \in 0 .. NumBds /\ (dma.hdp # NULL => dma.hdp \in Bds)
         /\ dma.done \in 0 .. NumBds /\ (dma.done # NULL => dma.done \in Bds)
         /\ dma.irq \in BOOLEAN /\ dma.frame \in Frames /\ dma.burst \in Nat
         /\ cpu.at \in Labels
         /\ cpu.last \in 0 .. NumBds /\ (cpu.last # NULL => cpu.last \in Bds)
         /\ stack.free \in Nat /\ stack.held \in Nat /\ stack.frame \in Frames
         /\ Pending \in 0 .. NumBds /\ Pending \in Nat
         /\ dma.frame = Plus(stack.frame, Pending)
         /\ Filled \in 0 .. NumBds /\ Filled \in Nat /\ Emptied \in Nat
<1> USE Sizes
<1>1. /\ bd \in [Bds -> BdTypes] /\ (\A i \in Bds : bd[i] \in BdTypes)
      /\ rxch.free_head \in Bds /\ rxch.recv_head \in Bds /\ rxch.recv_tail \in Bds
      /\ rxch.free_num \in 0 .. NumBds /\ rxch.free_num \in Nat
      /\ dma.hdp \in 0 .. NumBds /\ dma.done \in 0 .. NumBds /\ cpu.last \in 0 .. NumBds
      /\ dma.irq \in BOOLEAN /\ dma.frame \in Frames /\ dma.burst \in Nat
      /\ cpu.at \in Labels
      /\ stack.free \in Nat /\ stack.held \in Nat /\ stack.frame \in Frames
  BY DEF Types, BdTypes
<1>2. \A i \in 0 .. NumBds : i # NULL => i \in Bds
  BY DEF NULL, Bds
<1>3. Pending \in 0 .. NumBds /\ Pending \in Nat /\ dma.frame = Plus(stack.frame, Pending)
  BY <1>1 DEF Pending, Plus, Frames
<1>4. Filled \in 0 .. NumBds /\ Filled \in Nat
  <2>1. CASE cpu.at = "alloc" /\ cpu.last # NULL
    BY <1>1, <1>2, <2>1, Offsets DEF Filled, Off
  <2>2. CASE ~(cpu.at = "alloc" /\ cpu.last # NULL)
    BY <2>2 DEF Filled
  <2> QED BY <2>1, <2>2
<1>5. Emptied \in Nat
  BY <1>1, <1>4 DEF Emptied
<1> QED BY <1>1, <1>2, <1>3, <1>4, <1>5

\* The count of frames after one more has been handed over or received.
LEMMA PendingCounts ==
  ASSUME NEW s \in Frames, NEW f \in Frames
  PROVE  LET p(t, g) == IF g >= t THEN g - t ELSE g - t + NumBds + 1
         IN  /\ p(s, f) > 0 => p(NextFrame(s), f) = p(s, f) - 1
             /\ p(s, f) < NumBds => p(s, NextFrame(f)) = p(s, f) + 1
  BY Sizes DEF Frames, NextFrame

\* A descriptor gets or loses its pbuf.
LEMMA ArmedCounts ==
  ASSUME NEW i \in Bds, NEW S \in SUBSET Bds
  PROVE  /\ Cardinality(S) \in Nat /\ Cardinality(S) <= NumBds
         /\ i \in S => Cardinality(S \ {i}) = Cardinality(S) - 1
         /\ i \notin S => Cardinality(S \cup {i}) = Cardinality(S) + 1
<1>1. IsFiniteSet(Bds) /\ Cardinality(Bds) = NumBds
  BY Sizes, FS_Interval DEF Bds
<1>2. IsFiniteSet(S) /\ Cardinality(S) <= NumBds
  BY <1>1, FS_Subset
<1>3. Cardinality(S) \in Nat
  BY <1>2, FS_CardinalityType
<1>4. i \in S => Cardinality(S \ {i}) = Cardinality(S) - 1
  BY <1>2, FS_RemoveElement
<1>5. i \notin S => Cardinality(S \cup {i}) = Cardinality(S) + 1
  BY <1>2, FS_AddElement
<1> QED BY <1>2, <1>3, <1>4, <1>5

LEMMA InitIInv == Init => IInv
<1> SUFFICES ASSUME Init PROVE IInv
  OBVIOUS
<1> USE Sizes
<1>1. Types
  BY RxAssumption DEF Init, Types, Returned, Bds, NULL, Labels, Frames
<1>2. /\ Filled = 0 /\ Pending = 0 /\ Emptied = 0 /\ End = NumBds
      /\ rxch.free_head = 1 /\ rxch.recv_head = 1 /\ rxch.recv_tail = NumBds
      /\ rxch.free_num = 0 /\ cpu.at = "idle" /\ ~Linking
      /\ dma.hdp = 1 /\ dma.irq = FALSE /\ stack.frame = 0
  BY DEF Init, Filled, Pending, Emptied, End, Returned, Linking
<1>3. /\ \A i \in Bds : bd[i].next = IF i = NumBds THEN NULL ELSE i + 1
      /\ \A i \in Bds : bd[i].owner /\ ~bd[i].eoq /\ bd[i].pbuf
  BY DEF Init
<1>4. Chain
  BY <1>2, <1>3 DEF Chain, Succ
<1>5. 1 \in Bds /\ NumBds \in Bds /\ \A i \in Bds : Off(i) = i - 1
  BY <1>2 DEF Off, OffFrom, Bds
<1>6. Handlers
  BY <1>2, <1>5 DEF Handlers
<1>7. Layout(bd, rxch.free_head, Filled, Emptied, Pending, stack.frame)
  <2>1. ASSUME NEW i \in Bds
        PROVE  /\ OffFrom(1, i) \in Nat
               /\ bd[i].owner /\ ~bd[i].eoq /\ bd[i].pbuf
    BY <1>3 DEF OffFrom, Bds
  <2>2. Layout(bd, 1, 0, 0, 0, 0)
    BY <2>1 DEF Layout
  <2> QED BY <1>2, <2>2
<1>8. Engine
  BY <1>2, <1>3, <1>5 DEF Engine, WholeRing
<1>9. Pbufs
  <2>1. Armed = Bds
    BY <1>3 DEF Armed
  <2>2. Cardinality(Bds) = NumBds
    BY FS_Interval DEF Bds
  <2> QED BY <1>2, <2>1, <2>2, RxAssumption DEF Init, Pbufs
<1>10. Flow
  BY <1>2 DEF Flow, NULL
<1> QED BY <1>1, <1>4, <1>6, <1>7, <1>8, <1>9, <1>10 DEF IInv

\* A handler that moves on without having changed the ring.
LEMMA HandlerMovesOn ==
  ASSUME IInv, Types', Handlers', Flow' \/ dma'.missed,
         UNCHANGED <<bd, rxch, dma>>, stack'.frame = stack.frame,
         stack'.free + stack'.held = stack.free + stack.held, stack'.held <= Hold,
         ~Linking, ~Linking', Filled' = Filled
  PROVE  IInv'
<1>1. Pending' = Pending /\ Emptied' = Emptied /\ End' = End /\ ~WholeRing'
      /\ cpu.at # "link" /\ cpu'.at # "link"
  BY DEF Pending, Emptied, End, Linking, WholeRing
<1>2. Chain'
  BY <1>1 DEF IInv, Chain
<1>3. Layout(bd, rxch.free_head, Filled, Emptied, Pending, stack.frame)'
  BY <1>1 DEF IInv, Layout
<1>4. Engine'
  BY <1>1 DEF IInv, Engine, Off
<1>5. Pbufs'
  BY DEF IInv, Pbufs, Armed
<1> QED BY <1>2, <1>3, <1>4, <1>5 DEF IInv

\* What the invariant says of the offsets in use.
LEMMA AtRest ==
  ASSUME Types
  PROVE  /\ cpu.at # "alloc" => Filled = 0
         /\ cpu.last = NULL => Filled = 0
         /\ Filled = 0 => Emptied = rxch.free_num
         /\ End = IF cpu.at = "link" THEN cpu.tail ELSE rxch.recv_tail
  BY TypeFacts DEF Filled, Emptied, End

LEMMA KeepsRxInterrupt ==
  ASSUME IInv, RxInterrupt
  PROVE  IInv'
<1>1. Types /\ cpu.at = "idle"
  BY DEF IInv, RxInterrupt
<1>2. /\ cpu' = [cpu EXCEPT !.at = "loop", !.curr = rxch.recv_head]
      /\ UNCHANGED <<bd, rxch, dma, stack>>
  BY DEF RxInterrupt
<1>3. Types' /\ cpu'.at = "loop" /\ cpu'.curr = rxch.recv_head
  <2>1. rxch.recv_head \in 0 .. NumBds
    BY <1>1, Sizes DEF Types, Bds
  <2>2. cpu' \in [at : Labels, curr : 0 .. NumBds, last : 0 .. NumBds,
                  head : 0 .. NumBds, tail : 0 .. NumBds]
    BY <1>1, <1>2, <2>1 DEF Types, Labels
  <2>3. cpu'.at = "loop" /\ cpu'.curr = rxch.recv_head
    BY <1>1, <1>2 DEF Types
  <2> QED BY <1>1, <1>2, <2>2, <2>3 DEF Types
<1>4. Filled = 0 /\ Filled' = 0 /\ ~Linking /\ ~Linking' /\ Emptied' = Emptied
  BY <1>1, <1>2, <1>3 DEF Filled, Linking, Emptied
<1>5. Handlers'
  BY <1>2, <1>3, <1>4 DEF IInv, Handlers, Off, Linking
<1>6. Pending' = Pending
  BY <1>2 DEF Pending
<1>7. ~dma'.missed => Flow'
  BY <1>1, <1>2, <1>3, <1>4, <1>6 DEF IInv, Flow
<1> QED BY <1>2, <1>3, <1>4, <1>5, <1>7, HandlerMovesOn DEF IInv, Pbufs, Types

LEMMA KeepsToAlloc ==
  ASSUME IInv, NoMoreFrames \/ TxInterrupt
  PROVE  IInv'
<1>1. Types /\ cpu.at \in {"idle", "loop"}
  BY DEF IInv, NoMoreFrames, TxInterrupt
<1>2. cpu' = Allocating(rxch) /\ UNCHANGED <<bd, rxch, dma, stack>>
  BY DEF NoMoreFrames, TxInterrupt
<1>3. /\ cpu'.at = "alloc" /\ cpu'.curr = rxch.free_head /\ cpu'.last = NULL
      /\ cpu' \in [at : Labels, curr : 0 .. NumBds, last : 0 .. NumBds,
                   head : 0 .. NumBds, tail : 0 .. NumBds]
  <2>1. rxch.free_head \in 0 .. NumBds
    BY <1>1, Sizes DEF Types, Bds
  <2>2. /\ Returned.last = NULL
        /\ Returned \in [at : Labels, curr : 0 .. NumBds, last : 0 .. NumBds,
                         head : 0 .. NumBds, tail : 0 .. NumBds]
    BY Sizes DEF Returned, Labels, NULL
  <2> QED BY <1>2, <2>1, <2>2, Sizes DEF Allocating, Labels
<1>4. Types'
  BY <1>1, <1>2, <1>3 DEF Types
<1>5. Filled = 0 /\ Filled' = 0 /\ ~Linking /\ ~Linking' /\ Emptied' = Emptied
  BY <1>1, <1>2, <1>3 DEF Filled, Linking, Emptied
<1>6. Handlers'
  <2>1. /\ Emptied' = NumBds => rxch'.recv_head = rxch'.free_head
        /\ Emptied' < NumBds => Off(rxch.recv_head)' = Emptied'
    BY <1>2, <1>5 DEF IInv, Handlers, Off
  <2> QED BY <1>2, <1>3, <1>5, <2>1 DEF Handlers, Linking
<1>7. Pending' = Pending
  BY <1>2 DEF Pending
<1>8. ~dma'.missed => Flow'
  BY <1>1, <1>2, <1>3, <1>5, <1>7 DEF IInv, Flow
<1> QED BY <1>2, <1>4, <1>5, <1>6, <1>8, HandlerMovesOn DEF IInv, Pbufs, Types

LEMMA KeepsNothingFilled ==
  ASSUME IInv, NothingFilled
  PROVE  IInv'
<1>1. Types /\ cpu.at = "alloc" /\ cpu.last = NULL /\ NoneToFill
  BY DEF IInv, NothingFilled
<1>2. cpu' = Returned /\ UNCHANGED <<bd, rxch, dma, stack>>
  BY DEF NothingFilled
<1>3. /\ cpu'.at = "idle"
      /\ cpu' \in [at : Labels, curr : 0 .. NumBds, last : 0 .. NumBds,
                   head : 0 .. NumBds, tail : 0 .. NumBds]
  BY <1>2, Sizes DEF Returned, Labels, NULL
<1>4. Types'
  BY <1>1, <1>2, <1>3 DEF Types
<1>5. Filled = 0 /\ Filled' = 0 /\ ~Linking /\ ~Linking' /\ Emptied' = Emptied
  BY <1>1, <1>2, <1>3 DEF Filled, Linking, Emptied
<1>6. Handlers'
  BY <1>2, <1>3, <1>5 DEF IInv, Handlers, Off, Linking
<1>7. Pending' = Pending
  BY <1>2 DEF Pending
<1>8. ~dma'.missed => Flow'
  BY <1>1, <1>2, <1>3, <1>5, <1>7 DEF IInv, Flow
<1> QED BY <1>2, <1>4, <1>5, <1>6, <1>8, HandlerMovesOn DEF IInv, Pbufs, Types

LEMMA KeepsFreePbuf ==
  ASSUME IInv, FreePbuf
  PROVE  IInv'
<1>1. Types /\ cpu.at = "idle" /\ stack.held > 0
  BY DEF IInv, FreePbuf
<1>2. /\ stack' = [stack EXCEPT !.held = @ - 1, !.free = @ + 1]
      /\ UNCHANGED <<bd, rxch, dma, cpu>>
  BY DEF FreePbuf
<1>3. stack'.held = stack.held - 1 /\ stack'.free = stack.free + 1
      /\ stack'.frame = stack.frame
      /\ stack' \in [free : Nat, held : Nat, frame : Frames]
  <2>1. stack.held - 1 \in Nat /\ stack.free + 1 \in Nat
    BY <1>1, TypeFacts
  <2> QED BY <1>1, <1>2, <2>1 DEF Types
<1>4. Types'
  BY <1>1, <1>2, <1>3 DEF Types
<1>5. Filled' = Filled /\ ~Linking /\ ~Linking' /\ Emptied' = Emptied
  BY <1>1, <1>2 DEF Filled, Linking, Emptied, Off
<1>6. Handlers'
  BY <1>2, <1>5 DEF IInv, Handlers, Off, Linking
<1>7. Pending' = Pending
  BY <1>2, <1>3 DEF Pending
<1>8. ~dma'.missed => Flow'
  BY <1>1, <1>2, <1>5, <1>7 DEF IInv, Flow
<1>9. stack'.free + stack'.held = stack.free + stack.held /\ stack'.held <= Hold
  BY <1>1, <1>3, TypeFacts, Sizes DEF IInv, Pbufs
<1> QED BY <1>2, <1>3, <1>4, <1>5, <1>6, <1>8, <1>9, HandlerMovesOn DEF IInv

\* The order of the chain, and its end.
LEMMA Positions ==
  ASSUME Types, Chain
  PROVE  /\ Off(rxch.recv_tail) = NumBds - 1 /\ Off(rxch.free_head) = 0
         /\ \A i \in Bds : /\ Off(i) \in 0 .. NumBds - 1 /\ Off(i) \in Nat
                           /\ Succ(i) \in Bds /\ Succ(i) # NULL
                           /\ Off(i) = NumBds - 1 <=> i = rxch.recv_tail
                           /\ i # rxch.recv_tail => Off(Succ(i)) = Off(i) + 1
                           /\ \A j \in Bds : Off(i) = Off(j) => i = j
<1>1. /\ rxch.free_head \in Bds /\ rxch.recv_tail \in Bds
      /\ rxch.free_head = Succ(rxch.recv_tail)
  BY TypeFacts DEF Chain
<1>2. Off(rxch.recv_tail) = NumBds - 1 /\ Off(rxch.free_head) = 0
  BY <1>1, Offsets DEF Off
<1>3. \A i \in Bds : /\ Off(i) \in 0 .. NumBds - 1
                     /\ Succ(i) \in Bds
                     /\ Off(i) = NumBds - 1 <=> rxch.free_head = Succ(i)
                     /\ Off(i) # NumBds - 1 => Off(Succ(i)) = Off(i) + 1
                     /\ \A j \in Bds : Off(i) = Off(j) => i = j
  BY <1>1, Offsets DEF Off
<1>4. \A i \in Bds : Off(i) \in Nat /\ i # NULL
  BY <1>3, Sizes DEF Bds, NULL
<1> QED BY <1>1, <1>2, <1>3, <1>4

LEMMA KeepsProcessFrame ==
  ASSUME IInv, ProcessFrame
  PROVE  IInv'
<1> DEFINE i == cpu.curr
           e == Emptied
           m == Pending
           s == stack.frame
           h == rxch.free_head
<1>1. /\ Types /\ Chain /\ Handlers /\ Engine /\ Pbufs
      /\ cpu.at = "loop" /\ ~bd[cpu.curr].owner
      /\ Layout(bd, rxch.free_head, Filled, Emptied, Pending, stack.frame)
  BY DEF IInv, ProcessFrame
<1>2. /\ Filled = 0 /\ e = rxch.free_num /\ End = rxch.recv_tail /\ ~Linking
      /\ i = rxch.recv_head /\ i \in Bds
  BY <1>1, AtRest, TypeFacts DEF Handlers, Linking
<1>3. e <= Off(i) /\ Off(i) < e + m
  BY <1>1, <1>2 DEF Layout, Off
<1>4. /\ e \in Nat /\ m \in Nat /\ m > 0 /\ e < NumBds /\ e + m <= NumBds
      /\ m \in 0 .. NumBds /\ s \in Frames /\ h \in Bds
  BY <1>1, <1>3, TypeFacts, Positions, <1>2, Sizes DEF Engine
<1>5. Off(i) = e
  BY <1>1, <1>2, <1>4 DEF Handlers
<1>6. bd[i].frame = NextFrame(s)
  <2>1. bd[i].frame = Plus(s, Off(i) - e + 1)
    BY <1>1, <1>2, <1>3 DEF Layout, Off
  <2>2. Off(i) - e + 1 = 1
    BY <1>4, <1>5
  <2> QED BY <2>1, <2>2, <1>4, Counting
<1>7. /\ bd' = [bd EXCEPT ![i] = Cleared(@)]
      /\ bd' \in [Bds -> BdTypes]
      /\ Layout(bd', h, 0, e + 1, m - 1, NextFrame(s))
  <2>1. bd' = [bd EXCEPT ![i] = Cleared(@)]
    BY DEF ProcessFrame
  <2>2. bd \in [Bds -> BdTypes] /\ OffFrom(h, i) = e /\ m \in Nat \ {0}
    BY <1>1, <1>4, <1>5, TypeFacts DEF Off
  <2>3. Layout(bd, h, 0, e, m, s)
    BY <1>1, <1>2
  <2> HIDE DEF i, e, m, s, h
  <2> QED BY <1>2, <1>4, <2>1, <2>2, <2>3, LayoutProcess
<1>8. /\ \A j \in Bds : bd'[j].next = bd[j].next
      /\ \A j \in Bds \ {i} : bd'[j] = bd[j]
      /\ ~bd'[i].eoq /\ ~bd'[i].pbuf
  <2>1. bd \in [Bds -> BdTypes] /\ bd[i] \in BdTypes
    BY <1>1, <1>2, TypeFacts
  <2>2. Cleared(bd[i]).next = bd[i].next /\ ~Cleared(bd[i]).eoq /\ ~Cleared(bd[i]).pbuf
    BY <2>1 DEF Cleared, BdTypes
  <2> QED BY <1>2, <1>7, <2>1, <2>2
<1>9. /\ dma'.irq = (dma.irq /\ dma.done # i)
      /\ dma'.hdp = dma.hdp /\ dma'.done = dma.done /\ dma'.frame = dma.frame
      /\ dma'.burst = dma.burst
      /\ dma' \in [hdp : 0 .. NumBds, done : 0 .. NumBds, irq : BOOLEAN,
                   frame : Frames, burst : Nat, missed : BOOLEAN]
  <2>1. dma' = [dma EXCEPT !.irq = dma.irq /\ dma.done # i]
    BY DEF ProcessFrame
  <2>2. (dma.irq /\ dma.done # i) \in BOOLEAN
    OBVIOUS
  <2>3. dma \in [hdp : 0 .. NumBds, done : 0 .. NumBds, irq : BOOLEAN,
                 frame : Frames, burst : Nat, missed : BOOLEAN]
    BY <1>1 DEF Types
  <2> QED BY <2>1, <2>2, <2>3
<1>10. bd[i].next = IF e = NumBds - 1 THEN NULL ELSE Succ(i)
  BY <1>1, <1>2, <1>4, <1>5, Positions DEF Chain
<1>11. /\ rxch'.free_head = h /\ rxch'.recv_tail = rxch.recv_tail
       /\ rxch'.free_num = e + 1
       /\ rxch'.recv_head = IF e = NumBds - 1 THEN h ELSE Succ(i)
       /\ rxch' \in [free_head : Bds, recv_head : Bds, recv_tail : Bds,
                     free_num : 0 .. NumBds]
  <2>1. rxch' = [rxch EXCEPT !.free_num = @ + 1,
                             !.recv_head = IF bd[i].next = NULL THEN h ELSE bd[i].next]
    BY DEF ProcessFrame
  <2>2. (IF bd[i].next = NULL THEN h ELSE bd[i].next)
           = (IF e = NumBds - 1 THEN h ELSE Succ(i))
        /\ (IF e = NumBds - 1 THEN h ELSE Succ(i)) \in Bds
    BY <1>1, <1>2, <1>4, <1>10, Positions
  <2>3. e + 1 \in 0 .. NumBds
    BY <1>4, Sizes
  <2>4. rxch \in [free_head : Bds, recv_head : Bds, recv_tail : Bds,
                  free_num : 0 .. NumBds]
    BY <1>1 DEF Types
  <2> HIDE DEF i, e, h
  <2> QED BY <1>2, <2>1, <2>2, <2>3, <2>4 DEF h
<1>12. /\ cpu'.at = IF e = NumBds - 1 THEN "alloc" ELSE "loop"
       /\ cpu'.curr = IF e = NumBds - 1 THEN h ELSE Succ(i)
       /\ cpu'.at = "alloc" => cpu'.last = NULL
       /\ cpu' \in [at : Labels, curr : 0 .. NumBds, last : 0 .. NumBds,
                    head : 0 .. NumBds, tail : 0 .. NumBds]
  <2>1. cpu' = IF e = NumBds - 1 THEN Allocating(rxch) ELSE [cpu EXCEPT !.curr = Succ(i)]
    BY <1>1, <1>2, <1>4, <1>10, Positions DEF ProcessFrame
  <2>2. /\ Returned.last = NULL
        /\ Returned \in [at : Labels, curr : 0 .. NumBds, last : 0 .. NumBds,
                         head : 0 .. NumBds, tail : 0 .. NumBds]
    BY Sizes DEF Returned, Labels, NULL
  <2>3. h \in 0 .. NumBds /\ Succ(i) \in 0 .. NumBds
    BY <1>1, <1>2, <1>4, Positions, Sizes DEF Bds
  <2>4. CASE e = NumBds - 1
    <3>1. cpu' = Allocating(rxch)
      BY <2>1, <2>4
    <3>2. /\ Allocating(rxch).at = "alloc" /\ Allocating(rxch).curr = h
          /\ Allocating(rxch).last = NULL
          /\ Allocating(rxch) \in [at : Labels, curr : 0 .. NumBds, last : 0 .. NumBds,
                                   head : 0 .. NumBds, tail : 0 .. NumBds]
      BY <2>2, <2>3 DEF Allocating, Labels
    <3> QED BY <3>1, <3>2, <2>4
  <2>5. CASE e # NumBds - 1
    BY <1>1, <2>1, <2>3, <2>5 DEF Types
  <2> QED BY <2>4, <2>5
<1>13. /\ stack'.frame = NextFrame(s)
       /\ stack' \in [free : Nat, held : Nat, frame : Frames]
       /\ stack'.free + stack'.held = stack.free + stack.held + 1
       /\ stack'.held <= Hold
  <2>1. NextFrame(s) \in Frames /\ stack.free + 1 \in Nat /\ stack.held + 1 \in Nat
        /\ stack.free \in Nat /\ stack.held \in Nat /\ stack.held <= Hold
    BY <1>1, <1>4, TypeFacts, Counting DEF Pbufs
  <2>2. stack \in [free : Nat, held : Nat, frame : Frames]
    BY <1>1 DEF Types
  <2>3. CASE stack' = [stack EXCEPT !.frame = NextFrame(s), !.free = @ + 1]
    <3>1. /\ stack'.frame = NextFrame(s) /\ stack'.free = stack.free + 1
          /\ stack'.held = stack.held
          /\ stack' \in [free : Nat, held : Nat, frame : Frames]
      <4> HIDE DEF s
      <4> QED BY <2>1, <2>2, <2>3
    <3> QED BY <2>1, <3>1
  <2>4. CASE stack.held < Hold /\ stack' = [stack EXCEPT !.frame = NextFrame(s), !.held = @ + 1]
    <3>1. /\ stack'.frame = NextFrame(s) /\ stack'.free = stack.free
          /\ stack'.held = stack.held + 1
          /\ stack' \in [free : Nat, held : Nat, frame : Frames]
      <4> HIDE DEF s
      <4> QED BY <2>1, <2>2, <2>4
    <3> QED BY <2>1, <2>4, <3>1, Sizes
  <2> QED BY <1>6, <2>3, <2>4 DEF ProcessFrame, HandOver
<1>14. Types'
  BY <1>7, <1>9, <1>11, <1>12, <1>13 DEF Types, BdTypes
<1>15. /\ Filled' = 0 /\ Emptied' = e + 1 /\ Pending' = m - 1 /\ ~Linking'
       /\ End' = rxch.recv_tail /\ \A j : Off(j)' = Off(j)
  <2>1. cpu'.at # "link" /\ Filled' = 0 /\ ~Linking'
    BY <1>12 DEF Filled, Linking
  <2>2. Pending' = m - 1
    BY <1>4, <1>9, <1>13, <1>1, TypeFacts, PendingCounts DEF Pending
  <2>3. Emptied' = e + 1
    BY <2>1, <1>11, <1>4 DEF Emptied
  <2>4. End' = rxch.recv_tail /\ \A j : Off(j)' = Off(j)
    BY <2>1, <1>11 DEF End, Off
  <2> QED BY <2>1, <2>2, <2>3, <2>4
<1>16. Chain'
  BY <1>1, <1>2, <1>8, <1>11, <1>15 DEF Chain
<1>17. Layout(bd, rxch.free_head, Filled, Emptied, Pending, stack.frame)'
  BY <1>7, <1>11, <1>13, <1>15
<1>18. Handlers'
  <2>1. e # NumBds - 1 => Off(Succ(i)) = e + 1
    BY <1>1, <1>2, <1>4, <1>5, Positions
  <2>2. e + 1 = NumBds <=> e = NumBds - 1
    BY <1>4, Sizes
  <2>3. /\ Emptied' = NumBds => rxch'.recv_head = rxch'.free_head
        /\ Emptied' < NumBds => Off(rxch.recv_head)' = Emptied'
    BY <1>4, <1>11, <1>15, <2>1, <2>2
  <2> QED BY <1>11, <1>12, <1>15, <2>3 DEF Handlers, Linking
<1>19. Emptied' + Pending' = e + m
  BY <1>4, <1>15
<1>20. Engine'
  <2>1. m > 0 /\ dma.done \in Bds /\ Off(dma.done) = e + m - 1 /\ dma.irq
    BY <1>1, <1>4, TypeFacts DEF Engine
  <2>2. dma.done = i <=> m = 1
    BY <2>1, <1>1, <1>2, <1>4, <1>5, Positions
  <2>3. dma'.irq <=> m - 1 > 0
    BY <1>4, <1>9, <2>1, <2>2
  <2>4. bd'[rxch.recv_tail].eoq => dma.hdp = NULL /\ e + m = NumBds
    BY <1>1, <1>8, TypeFacts DEF Engine
  <2>5. dma.hdp # NULL => Off(dma.hdp) = e + m
    BY <1>1 DEF Engine
  <2>6. ~WholeRing' /\ cpu'.at # "link"
    BY <1>15, <1>12 DEF WholeRing
  <2>7. /\ Emptied' + Pending' <= NumBds
        /\ dma'.hdp # NULL => Off(dma.hdp)' = Emptied' + Pending'
        /\ dma'.irq <=> Pending' > 0
        /\ bd'[rxch'.recv_tail].eoq => dma'.hdp = NULL /\ Emptied' + Pending' = NumBds
    BY <1>4, <1>9, <1>11, <1>15, <1>19, <2>3, <2>4, <2>5
  <2>8. dma'.done # NULL /\ Off(dma.done)' = Emptied' + Pending' - 1
    <3>1. dma.done # NULL
      BY <2>1, Sizes DEF Bds, NULL
    <3>2. Off(dma.done)' = Off(dma.done) /\ dma'.done # NULL
      BY <1>9, <1>11, <3>1 DEF Off
    <3>3. Off(dma.done)' = e + m - 1
      BY <2>1, <3>2
    <3>4. Emptied' + Pending' - 1 = e + m - 1
      BY <1>4, <1>15
    <3> QED BY <3>2, <3>3, <3>4
  <2> QED BY <1>15, <2>6, <2>7, <2>8 DEF Engine
<1>21. Pbufs'
  <2>1. Armed' = Armed \ {i} /\ i \in Armed /\ Armed \in SUBSET Bds
    <3>1. bd[i].pbuf
      BY <1>1, <1>2, <1>4, <1>5 DEF Layout, Off
    <3> QED BY <1>2, <1>8, <3>1 DEF Armed
  <2>2. Cardinality(Armed') = Cardinality(Armed) - 1 /\ Cardinality(Armed) \in Nat
    BY <2>1, <1>2, ArmedCounts
  <2>3. stack'.free \in Nat /\ stack'.held \in Nat /\ stack.free \in Nat /\ stack.held \in Nat
    BY <1>13, <1>1, TypeFacts
  <2> QED BY <1>1, <1>2, <1>4, <1>11, <1>13, <2>2, <2>3, Sizes DEF Pbufs
<1>22. ~dma'.missed => Flow'
  <2>0. dma'.missed = dma.missed
    BY <1>1 DEF ProcessFrame, Types
  <2>1. ASSUME ~dma.missed, dma.hdp = NULL
        PROVE  e + m = NumBds /\ (m > 0 => bd[rxch.recv_tail].eoq)
    BY <2>1, <1>1, <1>2 DEF IInv, Flow
  <2>2. ASSUME ~dma.missed, dma.hdp = NULL, m - 1 > 0
        PROVE  bd'[rxch.recv_tail].eoq
    <3>1. e # NumBds - 1
      BY <2>1, <2>2, <1>4, Sizes
    <3>2. i # rxch.recv_tail
      BY <3>1, <1>1, <1>2, <1>5, Positions
    <3> QED BY <2>1, <2>2, <3>2, <1>4, <1>8, <1>1, TypeFacts
  <2> QED BY <1>9, <1>11, <1>15, <1>19, <2>0, <2>1, <2>2 DEF Flow
<1> QED BY <1>14, <1>16, <1>17, <1>18, <1>20, <1>21, <1>22 DEF IInv

\* The allocation fills the descriptor after those it has filled.
LEMMA FillsTheNext ==
  ASSUME IInv, cpu.at = "alloc", rxch.free_num > 0
  PROVE  cpu.curr \in Bds /\ Off(cpu.curr) = Filled /\ Filled < Emptied
<1>1. /\ Types /\ Chain /\ Handlers
      /\ Emptied + Pending <= NumBds
      /\ cpu.last # NULL => cpu.last \in Bds
      /\ rxch.free_head \in Bds
      /\ Filled \in Nat /\ Pending \in Nat /\ rxch.free_num \in Nat
  BY TypeFacts DEF IInv, Engine
<1>2. Emptied = rxch.free_num + Filled /\ Filled < Emptied /\ Filled < NumBds
  BY <1>1, Sizes DEF Emptied
<1>3. CASE cpu.last = NULL
  <2>1. cpu.curr = rxch.free_head /\ Filled = 0
    BY <1>1, <1>3 DEF Handlers, Filled
  <2> QED BY <1>1, <1>2, <2>1, Positions
<1>4. CASE cpu.last # NULL
  <2>1. Filled = Off(cpu.last) + 1
    BY <1>4 DEF Filled
  <2>2. Off(cpu.last) \in Nat /\ Off(cpu.last) # NumBds - 1
    BY <1>1, <1>2, <1>4, <2>1, Positions, Sizes
  <2>3. cpu.last # rxch.recv_tail
    BY <1>1, <1>4, <2>2, Positions
  <2>4. cpu.curr = Succ(cpu.last)
    BY <1>1, <1>4, <2>3 DEF Handlers
  <2> QED BY <1>1, <1>2, <1>4, <2>1, <2>3, <2>4, Positions
<1> QED BY <1>3, <1>4

LEMMA KeepsFillBd ==
  ASSUME IInv, FillBd
  PROVE  IInv'
<1> DEFINE i == cpu.curr
           k == Filled
           e == Emptied
           m == Pending
           s == stack.frame
           h == rxch.free_head
<1>1. /\ Types /\ Chain /\ Handlers /\ Engine /\ Pbufs
      /\ cpu.at = "alloc" /\ rxch.free_num > 0 /\ stack.free > 0
      /\ Layout(bd, h, k, e, m, s)
  BY DEF IInv, FillBd
<1>2. i \in Bds /\ Off(i) = k /\ k < e /\ i # NULL
  BY <1>1, FillsTheNext, Sizes DEF Bds, NULL
<1>3. /\ k \in Nat /\ e \in Nat /\ m \in Nat /\ s \in Frames /\ h \in Bds
      /\ e + m <= NumBds /\ bd \in [Bds -> BdTypes]
      /\ e = rxch.free_num + k /\ rxch.free_num \in Nat
      /\ ~Linking /\ End = rxch.recv_tail
  BY <1>1, TypeFacts DEF Engine, Emptied, Linking, End
<1>4. /\ bd' \in [Bds -> BdTypes] /\ Layout(bd', h, k + 1, e, m, s)
      /\ \A j \in Bds : bd'[j].next = bd[j].next
  <2>1. bd' = [bd EXCEPT ![i] = [@ EXCEPT !.pbuf = TRUE, !.owner = TRUE, !.eoq = FALSE]]
    BY DEF FillBd
  <2>2. OffFrom(h, i) = k
    BY <1>2 DEF Off
  <2>3. /\ bd \in [Bds -> BdTypes] /\ h \in Bds /\ i \in Bds /\ k \in Nat /\ e \in Nat
        /\ m \in Nat /\ s \in Frames /\ k < e /\ Layout(bd, h, k, e, m, s)
    BY <1>1, <1>2, <1>3
  <2> HIDE DEF i, k, e, m, s, h
  <2>4. LET c == [bd EXCEPT ![i] = [@ EXCEPT !.pbuf = TRUE, !.owner = TRUE, !.eoq = FALSE]]
        IN  /\ c \in [Bds -> BdTypes] /\ Layout(c, h, k + 1, e, m, s)
            /\ \A j \in Bds : c[j].next = bd[j].next
    BY <2>2, <2>3, LayoutFill, ZenonT(60)
  <2> QED BY <2>1, <2>4
<1>5. /\ \A j \in Bds \ {i} : bd'[j] = bd[j]
      /\ ~bd'[i].eoq /\ bd'[i].pbuf
  <2>1. bd' = [bd EXCEPT ![i] = [@ EXCEPT !.pbuf = TRUE, !.owner = TRUE, !.eoq = FALSE]]
    BY DEF FillBd
  <2>2. bd[i] \in BdTypes
    BY <1>2, <1>3
  <2> QED BY <1>2, <1>3, <2>1, <2>2 DEF BdTypes
<1>6. bd[i].next = IF i = rxch.recv_tail THEN NULL ELSE Succ(i)
  BY <1>1, <1>2, <1>3 DEF Chain
<1>7. /\ cpu'.at = "alloc" /\ cpu'.last = i /\ cpu'.curr = bd[i].next
      /\ cpu' \in [at : Labels, curr : 0 .. NumBds, last : 0 .. NumBds,
                   head : 0 .. NumBds, tail : 0 .. NumBds]
  <2>1. bd[i].next \in 0 .. NumBds /\ i \in 0 .. NumBds
    <3>1. bd[i] \in BdTypes
      BY <1>2, <1>3
    <3> QED BY <3>1, <1>2, Sizes DEF BdTypes, Bds
  <2>2. cpu' = [cpu EXCEPT !.curr = bd[i].next, !.last = i]
    BY DEF FillBd
  <2>3. cpu \in [at : Labels, curr : 0 .. NumBds, last : 0 .. NumBds,
                 head : 0 .. NumBds, tail : 0 .. NumBds] /\ cpu.at = "alloc"
    BY <1>1 DEF Types
  <2> QED BY <2>1, <2>2, <2>3
<1>8. /\ rxch'.free_num = rxch.free_num - 1 /\ rxch'.free_head = h
      /\ rxch'.recv_head = rxch.recv_head /\ rxch'.recv_tail = rxch.recv_tail
      /\ rxch' \in [free_head : Bds, recv_head : Bds, recv_tail : Bds,
                    free_num : 0 .. NumBds]
  <2>1. rxch.free_num - 1 \in 0 .. NumBds
    BY <1>1, TypeFacts, Sizes
  <2>2. rxch \in [free_head : Bds, recv_head : Bds, recv_tail : Bds,
                  free_num : 0 .. NumBds]
    BY <1>1 DEF Types
  <2>3. rxch' = [rxch EXCEPT !.free_num = @ - 1]
    BY DEF FillBd
  <2> QED BY <2>1, <2>2, <2>3
<1>9. /\ stack'.free = stack.free - 1 /\ stack'.held = stack.held
      /\ stack'.frame = s
      /\ stack' \in [free : Nat, held : Nat, frame : Frames]
  <2>1. stack.free - 1 \in Nat
    BY <1>1, TypeFacts
  <2>2. stack \in [free : Nat, held : Nat, frame : Frames]
    BY <1>1 DEF Types
  <2>3. stack' = [stack EXCEPT !.free = @ - 1]
    BY DEF FillBd
  <2> QED BY <2>1, <2>2, <2>3
<1>10. dma' = dma
  BY DEF FillBd
<1>11. Types'
  BY <1>1, <1>4, <1>7, <1>8, <1>9, <1>10 DEF Types, BdTypes
<1>13. /\ Filled' = k + 1 /\ Emptied' = e /\ Pending' = m /\ ~Linking'
       /\ End' = rxch.recv_tail
  <2>1. Filled' = k + 1
    <3>1. Off(cpu.last)' = Off(i)
      BY <1>7, <1>8 DEF Off
    <3> QED BY <1>2, <1>7, <3>1 DEF Filled
  <2>2. Emptied' = e
    BY <1>3, <1>8, <2>1 DEF Emptied
  <2>3. Pending' = m /\ ~Linking' /\ End' = rxch.recv_tail
    BY <1>7, <1>8, <1>9, <1>10 DEF Pending, Linking, End
  <2> QED BY <2>1, <2>2, <2>3
<1>14. Chain'
  BY <1>1, <1>3, <1>4, <1>8, <1>13 DEF Chain
<1>15. Layout(bd, rxch.free_head, Filled, Emptied, Pending, stack.frame)'
  BY <1>4, <1>8, <1>9, <1>13
<1>16. Handlers'
  <2>1. /\ Emptied' = NumBds => rxch'.recv_head = rxch'.free_head
        /\ Emptied' < NumBds => Off(rxch.recv_head)' = Emptied'
    BY <1>1, <1>8, <1>13 DEF Handlers, Off
  <2> QED BY <1>2, <1>6, <1>7, <1>8, <1>13, <2>1 DEF Handlers, Linking
<1>17. Engine'
  <2>1. /\ Emptied + Pending <= NumBds
        /\ dma.hdp # NULL => Off(dma.hdp) = Emptied + Pending
        /\ Pending > 0 => dma.done # NULL /\ Off(dma.done) = Emptied + Pending - 1
        /\ dma.irq <=> Pending > 0
    BY <1>1 DEF Engine
  <2>2. bd'[rxch.recv_tail].eoq => dma.hdp = NULL /\ Emptied + Pending = NumBds
    BY <1>1, <1>5, TypeFacts DEF Engine
  <2>3. Off(dma.hdp)' = Off(dma.hdp) /\ Off(dma.done)' = Off(dma.done)
    BY <1>8, <1>10 DEF Off
  <2>4. ~WholeRing' /\ cpu'.at # "link"
    BY <1>7, <1>13 DEF WholeRing
  <2> QED BY <1>8, <1>10, <1>13, <2>1, <2>2, <2>3, <2>4 DEF Engine
<1>18. Pbufs'
  <2>1. Armed' = Armed \cup {i} /\ i \notin Armed /\ Armed \in SUBSET Bds
    <3>1. ~bd[i].pbuf
      BY <1>1, <1>2, <1>3 DEF Layout, Off
    <3> QED BY <1>2, <1>5, <3>1 DEF Armed
  <2>2. Cardinality(Armed') = Cardinality(Armed) + 1 /\ Cardinality(Armed) \in Nat
    BY <2>1, <1>2, ArmedCounts
  <2>3. stack.free \in Nat /\ stack.held \in Nat
    BY <1>1, TypeFacts
  <2> QED BY <1>1, <1>3, <1>8, <1>9, <2>2, <2>3, Sizes DEF Pbufs
<1>19. ~dma'.missed => Flow'
  <2>1. ASSUME ~dma.missed, dma.hdp = NULL
        PROVE  e + m = NumBds /\ (m > 0 => bd[rxch.recv_tail].eoq)
    BY <2>1, <1>1, <1>3 DEF IInv, Flow
  <2>2. ASSUME ~dma.missed, dma.hdp = NULL, m > 0
        PROVE  bd'[rxch.recv_tail].eoq
    <3>1. k # NumBds - 1
      BY <2>1, <2>2, <1>2, <1>3, Sizes
    <3>2. i # rxch.recv_tail
      BY <3>1, <1>1, <1>2, Positions
    <3> QED BY <2>1, <2>2, <3>2, <1>5, <1>1, TypeFacts
  <2> QED BY <1>7, <1>8, <1>10, <1>13, <2>1, <2>2 DEF Flow
<1> QED BY <1>11, <1>14, <1>15, <1>16, <1>17, <1>18, <1>19 DEF IInv

\* Where the allocation ends.
LEMMA EndsBehind ==
  ASSUME IInv, EndFill
  PROVE  /\ Types /\ Chain /\ Handlers /\ Engine /\ Pbufs
         /\ Layout(bd, rxch.free_head, Filled, Emptied, Pending, stack.frame)
         /\ cpu.at = "alloc" /\ cpu.last \in Bds /\ cpu.last # NULL
         /\ Filled = Off(cpu.last) + 1 /\ Emptied = rxch.free_num + Filled
         /\ Filled \in Nat /\ Emptied \in Nat /\ Pending \in Nat /\ rxch.free_num \in Nat
         /\ rxch.free_head \in Bds /\ rxch.recv_tail \in Bds
         /\ cpu.curr = IF cpu.last = rxch.recv_tail THEN NULL ELSE Succ(cpu.last)
         /\ End = rxch.recv_tail /\ bd' = bd /\ stack' = stack
         /\ cpu'.at = "link" /\ cpu'.last = cpu.last
         /\ cpu'.head = rxch.free_head /\ cpu'.tail = rxch.recv_tail
         /\ cpu' \in [at : Labels, curr : 0 .. NumBds, last : 0 .. NumBds,
                      head : 0 .. NumBds, tail : 0 .. NumBds]
         /\ Linking' /\ Filled' = 0 /\ Emptied' = rxch'.free_num
         /\ End' = rxch.recv_tail /\ cpu'.at # "alloc"
<1>1. /\ Types /\ Chain /\ Handlers /\ Engine /\ Pbufs
      /\ Layout(bd, rxch.free_head, Filled, Emptied, Pending, stack.frame)
      /\ cpu.at = "alloc" /\ cpu.last # NULL /\ bd' = bd /\ stack' = stack
  BY DEF IInv, EndFill
<1>2. /\ cpu.last \in Bds /\ Filled \in Nat /\ Emptied \in Nat /\ Pending \in Nat
      /\ rxch.free_num \in Nat /\ rxch.free_head \in Bds /\ rxch.recv_tail \in Bds
  BY <1>1, TypeFacts
<1>3. Filled = Off(cpu.last) + 1 /\ Emptied = rxch.free_num + Filled
  BY <1>1 DEF Filled, Emptied
<1>4. cpu.curr = IF cpu.last = rxch.recv_tail THEN NULL ELSE Succ(cpu.last)
  BY <1>1 DEF Handlers
<1>5. /\ cpu'.at = "link" /\ cpu'.last = cpu.last
      /\ cpu'.head = rxch.free_head /\ cpu'.tail = rxch.recv_tail
      /\ cpu' \in [at : Labels, curr : 0 .. NumBds, last : 0 .. NumBds,
                   head : 0 .. NumBds, tail : 0 .. NumBds]
  <2>1. cpu' = [cpu EXCEPT !.at = "link", !.curr = NULL,
                           !.head = rxch.free_head, !.tail = rxch.recv_tail]
    BY DEF EndFill
  <2>2. cpu \in [at : Labels, curr : 0 .. NumBds, last : 0 .. NumBds,
                 head : 0 .. NumBds, tail : 0 .. NumBds]
    BY <1>1 DEF Types
  <2>3. rxch.free_head \in 0 .. NumBds /\ rxch.recv_tail \in 0 .. NumBds
        /\ NULL \in 0 .. NumBds /\ "link" \in Labels
    BY <1>2, Sizes DEF Bds, NULL, Labels
  <2> QED BY <2>1, <2>2, <2>3
<1>6. /\ Linking' /\ Filled' = 0 /\ End' = rxch.recv_tail /\ cpu'.at # "alloc"
      /\ End = rxch.recv_tail
  BY <1>1, <1>5 DEF Linking, Filled, End
<1>7. Emptied' = rxch'.free_num
  <2>1. rxch'.free_num = rxch.free_num
    BY <1>1 DEF EndFill, Types
  <2> QED BY <1>2, <1>6, <2>1 DEF Emptied
<1> QED BY <1>1, <1>2, <1>3, <1>4, <1>5, <1>6, <1>7

\* The whole ring has been filled: the engine starts again.
LEMMA KeepsEndWhole ==
  ASSUME IInv, EndFill, cpu.last = rxch.recv_tail
  PROVE  IInv'
<1> DEFINE h == rxch.free_head
           s == stack.frame
<1>1. /\ Filled = NumBds /\ Emptied = NumBds /\ Pending = 0 /\ rxch.free_num = 0
      /\ rxch.recv_head = h
  <2>1. Filled = NumBds
    BY EndsBehind, Positions, Sizes
  <2>2. Emptied + Pending <= NumBds
    BY EndsBehind DEF Engine
  <2>3. Emptied = NumBds /\ Pending = 0 /\ rxch.free_num = 0
    BY EndsBehind, <2>1, <2>2, Sizes
  <2> QED BY EndsBehind, <2>1, <2>3 DEF Handlers
<1>2. cpu.curr = NULL /\ h \in Bds /\ h # NULL /\ rxch.recv_tail \in Bds
  BY EndsBehind, Sizes DEF Bds, NULL
<1>3. /\ rxch'.free_head = h /\ rxch'.recv_tail = rxch.recv_tail
      /\ rxch'.recv_head = rxch.recv_head /\ rxch'.free_num = rxch.free_num
      /\ rxch' \in [free_head : Bds, recv_head : Bds, recv_tail : Bds,
                    free_num : 0 .. NumBds]
  <2>1. rxch' = [rxch EXCEPT !.recv_tail = cpu.last, !.free_head = h]
    BY <1>2 DEF EndFill
  <2>2. rxch \in [free_head : Bds, recv_head : Bds, recv_tail : Bds,
                  free_num : 0 .. NumBds]
    BY EndsBehind DEF Types
  <2> QED BY <1>2, <2>1, <2>2
<1>4. /\ dma'.hdp = h /\ dma'.burst = 0 /\ dma'.frame = dma.frame /\ dma'.irq = dma.irq
      /\ dma' \in [hdp : 0 .. NumBds, done : 0 .. NumBds, irq : BOOLEAN,
                   frame : Frames, burst : Nat, missed : BOOLEAN]
  <2>1. dma' = [dma EXCEPT !.burst = 0, !.missed = @ \/ MarkMissed, !.hdp = h]
    BY <1>2 DEF EndFill
  <2>2. dma \in [hdp : 0 .. NumBds, done : 0 .. NumBds, irq : BOOLEAN,
                 frame : Frames, burst : Nat, missed : BOOLEAN]
    BY EndsBehind DEF Types
  <2>3. h \in 0 .. NumBds /\ MarkMissed \in BOOLEAN
    BY <1>2, Sizes DEF Bds, MarkMissed
  <2> QED BY <2>1, <2>2, <2>3
<1>5. Types'
  BY EndsBehind, <1>3, <1>4 DEF Types
<1>6. Emptied' = 0 /\ Pending' = 0 /\ Filled' = 0 /\ Emptied' + Pending' = 0
  <2>1. Pending' = Pending
    BY EndsBehind, <1>4 DEF Pending
  <2>2. Emptied' = 0 /\ Filled' = 0
    BY EndsBehind, <1>1, <1>3
  <2> QED BY <1>1, <2>1, <2>2
<1>7. Chain'
  BY EndsBehind, <1>3 DEF Chain
<1>8. \A i \in Bds : /\ OffFrom(h, i) \in Nat /\ OffFrom(h, i) < NumBds
                     /\ bd[i].owner /\ bd[i].pbuf /\ ~bd[i].eoq
  <2>1. \A i \in Bds : OffFrom(h, i) \in Nat /\ OffFrom(h, i) < NumBds
    BY <1>2, Offsets, Sizes
  <2>2. Layout(bd, h, NumBds, NumBds, 0, s)
    BY EndsBehind, <1>1
  <2>3. ASSUME NEW i \in Bds
        PROVE  bd[i].owner /\ bd[i].pbuf /\ ~bd[i].eoq
    <3>1. /\ bd[i].pbuf <=> ~(NumBds <= OffFrom(h, i) /\ OffFrom(h, i) < NumBds)
          /\ bd[i].owner <=> ~(NumBds <= OffFrom(h, i) /\ OffFrom(h, i) < NumBds + 0)
          /\ bd[i].owner => ~bd[i].eoq
      BY <2>2 DEF Layout
    <3> HIDE DEF h
    <3> QED BY <2>1, <3>1, Sizes
  <2> QED BY <2>1, <2>3
<1>9. Layout(bd, rxch.free_head, Filled, Emptied, Pending, stack.frame)'
  <2>1. Layout(bd, h, 0, 0, 0, s)
    <3> HIDE DEF h, s
    <3> QED BY <1>8 DEF Layout
  <2> QED BY EndsBehind, <1>3, <1>6, <2>1
<1>10. Off(rxch.free_head)' = 0 /\ Off(cpu.tail)' = NumBds - 1 /\ Off(dma.hdp)' = 0
  <2>1. Off(rxch.free_head) = 0 /\ Off(rxch.recv_tail) = NumBds - 1
    BY EndsBehind, Positions
  <2> QED BY <2>1, <1>3, <1>4, EndsBehind DEF Off
<1>11. Handlers'
  <2>1. /\ Emptied' # NumBds /\ Off(rxch.recv_head)' = Emptied'
    BY <1>1, <1>3, <1>6, <1>10, Sizes
  <2>2. cpu'.tail \in Bds /\ cpu'.head = Succ(cpu'.tail) /\ cpu'.last = rxch'.recv_tail
    BY EndsBehind, <1>3 DEF Chain
  <2> QED BY EndsBehind, <2>1, <2>2 DEF Handlers
<1>12. Engine'
  <2>1. ~dma'.irq
    BY EndsBehind, <1>1, <1>4 DEF Engine
  <2>2. ~bd'[rxch'.recv_tail].eoq /\ ~bd'[cpu'.tail].eoq
    BY EndsBehind, <1>2, <1>3, <1>8
  <2>3. rxch'.free_num = 0
    BY <1>1, <1>3
  <2>4. 0 <= Off(cpu.tail)' + 1 /\ 0 <= Off(cpu.tail)' /\ 0 <= Burst /\ 0 <= NumBds
    BY <1>10, Sizes
  <2> QED BY <1>4, <1>6, <1>10, <2>1, <2>2, <2>3, <2>4 DEF Engine
<1>13. Pbufs'
  BY EndsBehind, <1>3 DEF Pbufs, Armed
<1>14. Flow'
  BY <1>1, <1>2, <1>3, <1>4 DEF Flow
<1> QED BY <1>5, <1>7, <1>9, <1>11, <1>12, <1>13, <1>14 DEF IInv

\* What has been filled is going to be linked to the old tail.
LEMMA KeepsEndAppend ==
  ASSUME IInv, EndFill, cpu.last # rxch.recv_tail
  PROVE  IInv'
<1> DEFINE h == rxch.free_head
           l == cpu.last
           k == Filled
           e == Emptied
           m == Pending
           s == stack.frame
<1>1. /\ h \in Bds /\ l \in Bds /\ rxch.recv_tail \in Bds
      /\ k \in Nat /\ e \in Nat /\ m \in Nat /\ k = Off(l) + 1 /\ k <= e /\ k > 0
      /\ e + m <= NumBds /\ k < NumBds /\ Off(l) < NumBds - 1
      /\ e = rxch.free_num + k /\ rxch.free_num = e - k
  <2>1. Off(l) \in Nat /\ Off(l) # NumBds - 1 /\ Off(l) <= NumBds - 1
    BY EndsBehind, Positions, Sizes
  <2>2. e + m <= NumBds
    BY EndsBehind DEF Engine
  <2> QED BY EndsBehind, <2>1, <2>2, Sizes
<1>2. cpu.curr = Succ(l) /\ cpu.curr # NULL /\ Succ(l) \in Bds
  BY EndsBehind, Positions
<1>3. /\ rxch'.free_head = Succ(l) /\ rxch'.recv_tail = l
      /\ rxch'.recv_head = rxch.recv_head /\ rxch'.free_num = rxch.free_num
      /\ rxch' \in [free_head : Bds, recv_head : Bds, recv_tail : Bds,
                    free_num : 0 .. NumBds]
  <2>1. rxch' = [rxch EXCEPT !.recv_tail = l, !.free_head = Succ(l)]
    BY <1>2 DEF EndFill
  <2>2. rxch \in [free_head : Bds, recv_head : Bds, recv_tail : Bds,
                  free_num : 0 .. NumBds]
    BY EndsBehind DEF Types
  <2> HIDE DEF l
  <2> QED BY <1>1, <1>2, <2>1, <2>2
<1>4. /\ dma'.hdp = dma.hdp /\ dma'.done = dma.done /\ dma'.burst = 0
      /\ dma'.frame = dma.frame /\ dma'.irq = dma.irq
      /\ dma' \in [hdp : 0 .. NumBds, done : 0 .. NumBds, irq : BOOLEAN,
                   frame : Frames, burst : Nat, missed : BOOLEAN]
      /\ ~dma'.missed => ~dma.missed /\ bd[rxch.recv_tail].pbuf
  <2>1. dma' = [dma EXCEPT !.burst = 0, !.missed = @ \/ MarkMissed, !.hdp = dma.hdp]
    BY <1>2 DEF EndFill
  <2>2. MarkMissed \in BOOLEAN /\ (~MarkMissed => bd[rxch.recv_tail].pbuf)
    BY <1>2 DEF MarkMissed
  <2>3. dma \in [hdp : 0 .. NumBds, done : 0 .. NumBds, irq : BOOLEAN,
                 frame : Frames, burst : Nat, missed : BOOLEAN]
    BY EndsBehind DEF Types
  <2>4. PICK b : b = MarkMissed
    OBVIOUS
  <2>5. /\ dma' = [dma EXCEPT !.burst = 0, !.missed = dma.missed \/ b, !.hdp = dma.hdp]
        /\ b \in BOOLEAN /\ (~b => bd[rxch.recv_tail].pbuf)
    BY <2>1, <2>2, <2>4
  <2>6. dma.missed \in BOOLEAN /\ (dma.missed \/ b) \in BOOLEAN
    BY <2>3, <2>5
  <2>7. dma'.missed = (dma.missed \/ b)
    BY <2>3, <2>5
  <2>8. /\ dma'.hdp = dma.hdp /\ dma'.done = dma.done /\ dma'.burst = 0
        /\ dma'.frame = dma.frame /\ dma'.irq = dma.irq
    BY <2>3, <2>5
  <2>9. dma' \in [hdp : 0 .. NumBds, done : 0 .. NumBds, irq : BOOLEAN,
                  frame : Frames, burst : Nat, missed : BOOLEAN]
    BY <2>3, <2>5, <2>6
  <2> QED BY <2>5, <2>7, <2>8, <2>9
<1>5. Types'
  BY EndsBehind, <1>3, <1>4 DEF Types
<1>6. /\ Emptied' = e - k /\ Pending' = m /\ Filled' = 0
      /\ Emptied' + Pending' = e + m - k
  <2>1. Pending' = m
    BY EndsBehind, <1>4 DEF Pending
  <2>2. Emptied' = e - k /\ Filled' = 0
    BY EndsBehind, <1>1, <1>3
  <2> QED BY <1>1, <2>1, <2>2
<1>7. Chain'
  BY EndsBehind, <1>3 DEF Chain
<1>8. ASSUME NEW i \in Bds
      PROVE  OffFrom(Succ(l), i) = IF Off(i) < k THEN Off(i) + NumBds - k ELSE Off(i) - k
  <2>1. Off(i) \in Nat /\ Off(l) \in Nat
    BY EndsBehind, <1>1, Positions
  <2>2. OffFrom(Succ(l), i) = IF Off(i) <= Off(l) THEN Off(i) + NumBds - (Off(l) + 1)
                                                  ELSE Off(i) - (Off(l) + 1)
    <3>1. OffFrom(h, l) < NumBds - 1
      BY <1>1 DEF Off
    <3> HIDE DEF l, h
    <3>2. OffFrom(Succ(l), i) = IF OffFrom(h, i) <= OffFrom(h, l)
                                 THEN OffFrom(h, i) + NumBds - (OffFrom(h, l) + 1)
                                 ELSE OffFrom(h, i) - (OffFrom(h, l) + 1)
      BY <1>1, <3>1, Rebase
    <3> QED BY <3>2 DEF Off, h
  <2>3. Off(i) <= Off(l) <=> Off(i) < k
    BY <1>1, <2>1
  <2> QED BY <1>1, <2>2, <2>3
<1>9. Layout(bd, rxch.free_head, Filled, Emptied, Pending, stack.frame)'
  <2>1. OffFrom(h, l) + 1 = k /\ OffFrom(h, l) < NumBds - 1 /\ OffFrom(h, l) + 1 <= e
    BY <1>1 DEF Off
  <2>2. Layout(bd, h, OffFrom(h, l) + 1, e, m, s)
    BY EndsBehind, <2>1
  <2>3. h \in Bds /\ l \in Bds /\ e \in Nat /\ m \in Nat /\ e + m <= NumBds
    BY <1>1
  <2>4. Layout(bd, Succ(l), 0, e - (OffFrom(h, l) + 1), m, s)
    <3> HIDE DEF h, l, k, e, m, s
    <3> QED BY <2>1, <2>2, <2>3, LayoutAppend
  <2> QED BY EndsBehind, <1>3, <1>6, <2>1, <2>4
<1>10. \A i \in Bds : Off(i)' = IF Off(i) < k THEN Off(i) + NumBds - k ELSE Off(i) - k
  BY <1>3, <1>8 DEF Off
<1>11. Handlers'
  <2>1. Emptied' < NumBds /\ Emptied' # NumBds
    BY <1>1, <1>6, Sizes
  <2>2. Off(rxch.recv_head)' = e - k
    <3>1. rxch.recv_head \in Bds
      BY EndsBehind, TypeFacts
    <3>2. Off(rxch.recv_head)' = OffFrom(Succ(l), rxch.recv_head)
      BY <1>3 DEF Off
    <3>3. CASE e = NumBds
      <4>1. Off(rxch.recv_head) = 0
        BY EndsBehind, <3>3, Positions DEF Handlers
      <4> QED BY <1>1, <1>8, <3>1, <3>2, <3>3, <4>1
    <3>4. CASE e # NumBds
      <4>1. Off(rxch.recv_head) = e
        BY EndsBehind, <1>1, <3>4, Sizes DEF Handlers
      <4> QED BY <1>1, <1>8, <3>1, <3>2, <4>1
    <3> QED BY <3>3, <3>4
  <2>3. cpu'.tail \in Bds /\ cpu'.head = Succ(cpu'.tail) /\ cpu'.last = rxch'.recv_tail
    BY EndsBehind, <1>3 DEF Chain
  <2> QED BY EndsBehind, <1>6, <2>1, <2>2, <2>3 DEF Handlers
<1>12. Off(cpu.tail)' = NumBds - 1 - k
  <2>1. Off(rxch.recv_tail) = NumBds - 1 /\ ~(NumBds - 1 < k)
    BY EndsBehind, Positions, <1>1, Sizes
  <2>2. OffFrom(Succ(l), rxch.recv_tail) = NumBds - 1 - k
    BY <1>1, <1>8, <2>1
  <2> QED BY EndsBehind, <1>3, <2>2 DEF Off
<1>13. Engine'
  <2>1. Emptied' + Pending' <= NumBds
    BY <1>1, <1>6, Sizes
  <2>2. ASSUME dma.hdp # NULL
        PROVE  Off(dma.hdp)' = e + m - k /\ e + m < NumBds
    <3>1. dma.hdp \in Bds /\ Off(dma.hdp) = e + m /\ Off(dma.hdp) < NumBds
      BY EndsBehind, TypeFacts, Positions, <2>2, Sizes DEF Engine
    <3>2. OffFrom(Succ(l), dma.hdp) = e + m - k
      BY <1>1, <1>8, <3>1
    <3> QED BY <1>3, <1>4, <3>1, <3>2 DEF Off
  <2>3. ASSUME m > 0
        PROVE  dma'.done # NULL /\ Off(dma.done)' = e + m - k - 1
    <3>1. dma.done \in Bds /\ Off(dma.done) = e + m - 1 /\ dma.done # NULL
      BY EndsBehind, TypeFacts, <2>3 DEF Engine
    <3>2. OffFrom(Succ(l), dma.done) = e + m - k - 1
      BY <1>1, <1>8, <3>1, <2>3
    <3> QED BY <1>3, <1>4, <3>1, <3>2 DEF Off
  <2>4. dma'.irq <=> Pending' > 0
    BY EndsBehind, <1>4, <1>6 DEF Engine
  <2>5. ~bd'[rxch'.recv_tail].eoq
    <3>1. OffFrom(h, l) < e /\ OffFrom(h, l) \in Nat
      BY EndsBehind, <1>1, Positions DEF Off
    <3>2. /\ bd[l].owner <=> ~(e <= OffFrom(h, l) /\ OffFrom(h, l) < e + m)
          /\ bd[l].owner => ~bd[l].eoq
      BY EndsBehind, <1>1 DEF Layout
    <3>3. ~(e <= OffFrom(h, l))
      BY <3>1, <1>1
    <3> QED BY EndsBehind, <1>3, <3>2, <3>3
  <2>6. bd'[cpu'.tail].eoq => dma'.hdp = NULL /\ e + m = NumBds
    BY EndsBehind, <1>4 DEF Engine
  <2>7. ~WholeRing'
    BY EndsBehind, <1>3 DEF WholeRing
  <2>8. dma'.burst <= Burst
    BY <1>4, Sizes
  <2>9. bd'[cpu'.tail].eoq => dma'.hdp = NULL /\ Emptied' + Pending' = Off(cpu.tail)' + 1
    BY <1>1, <1>6, <1>12, <2>6, Sizes
  <2>10. /\ Emptied' + Pending' <= Off(cpu.tail)' + 1
         /\ dma'.hdp # NULL => Off(dma.hdp)' <= Off(cpu.tail)'
    BY <1>1, <1>4, <1>6, <1>12, <2>2, Sizes
  <2>11. dma'.hdp # NULL => Off(dma.hdp)' = Emptied' + Pending'
    BY <1>4, <1>6, <2>2
  <2>12. Pending' > 0 => dma'.done # NULL /\ Off(dma.done)' = Emptied' + Pending' - 1
    BY <1>1, <1>6, <2>3
  <2> QED BY <2>1, <2>4, <2>5, <2>7, <2>8, <2>9, <2>10, <2>11, <2>12 DEF Engine
<1>14. Pbufs'
  BY EndsBehind, <1>3 DEF Pbufs, Armed
<1>15. ~dma'.missed => Flow'
  <2>1. ASSUME ~dma'.missed, dma.hdp = NULL
        PROVE  bd[rxch.recv_tail].eoq
    <3>1. e + m = NumBds /\ (m > 0 => bd[rxch.recv_tail].eoq)
      BY <1>4, <2>1, EndsBehind DEF IInv, Flow, Linking
    <3>2. bd[rxch.recv_tail].pbuf
      BY <1>4, <2>1
    <3>3. OffFrom(h, rxch.recv_tail) = NumBds - 1
      BY EndsBehind, Positions DEF Off
    <3>4. m # 0
      <4> SUFFICES ASSUME m = 0 PROVE FALSE
        OBVIOUS
      <4>1. bd[rxch.recv_tail].pbuf
              <=> ~(k <= OffFrom(h, rxch.recv_tail) /\ OffFrom(h, rxch.recv_tail) < e)
        BY EndsBehind DEF Layout
      <4>2. k <= NumBds - 1 /\ NumBds - 1 < e
        BY <1>1, <3>1, Sizes
      <4> QED BY <3>2, <3>3, <4>1, <4>2
    <3> QED BY <1>1, <3>1, <3>4
  <2>2. ~WholeRing'
    BY EndsBehind, <1>3 DEF WholeRing
  <2> QED BY EndsBehind, <1>3, <1>4, <2>1, <2>2 DEF Flow
<1> QED BY <1>5, <1>7, <1>9, <1>11, <1>13, <1>14, <1>15 DEF IInv

LEMMA KeepsLinkBds ==
  ASSUME IInv, LinkBds
  PROVE  IInv'
<1>1. /\ Types /\ Chain /\ Handlers /\ Engine /\ Pbufs
      /\ Layout(bd, rxch.free_head, Filled, Emptied, Pending, stack.frame)
      /\ cpu.at = "link" /\ cpu.last = rxch.recv_tail /\ cpu.tail \in Bds
      /\ cpu.head = Succ(cpu.tail) /\ Linking /\ rxch.recv_tail \in Bds
      /\ bd \in [Bds -> BdTypes]
  BY TypeFacts DEF IInv, LinkBds, Handlers, Linking
<1>2. UNCHANGED <<rxch, dma, stack>>
  BY DEF LinkBds
<1>3. /\ cpu'.at = "check" /\ cpu'.tail = cpu.tail /\ cpu'.head = cpu.head
      /\ cpu' \in [at : Labels, curr : 0 .. NumBds, last : 0 .. NumBds,
                   head : 0 .. NumBds, tail : 0 .. NumBds]
  <2>1. cpu' = [cpu EXCEPT !.at = "check"]
    BY DEF LinkBds
  <2>2. cpu \in [at : Labels, curr : 0 .. NumBds, last : 0 .. NumBds,
                 head : 0 .. NumBds, tail : 0 .. NumBds] /\ "check" \in Labels
    BY <1>1 DEF Types, Labels
  <2> QED BY <2>1, <2>2
<1>4. /\ bd' \in [Bds -> BdTypes]
      /\ \A i \in Bds : /\ bd'[i].pbuf = bd[i].pbuf /\ bd'[i].owner = bd[i].owner
                        /\ bd'[i].eoq = bd[i].eoq /\ bd'[i].frame = bd[i].frame
                        /\ bd'[i].next = IF i = rxch.recv_tail THEN NULL
                                         ELSE IF i = cpu.tail THEN cpu.head
                                         ELSE bd[i].next
  <2> DEFINE b == [bd EXCEPT ![cpu.tail] = [@ EXCEPT !.next = cpu.head]]
  <2>1. bd' = [b EXCEPT ![cpu.last] = [@ EXCEPT !.next = NULL]]
    BY DEF LinkBds, Linked
  <2>2. cpu.head \in 0 .. NumBds /\ NULL \in 0 .. NumBds
    BY <1>1, Sizes DEF Types, NULL
  <2>3. bd[cpu.tail] \in BdTypes
    BY <1>1
  <2>4. /\ [bd[cpu.tail] EXCEPT !.next = cpu.head] \in BdTypes
        /\ [bd[cpu.tail] EXCEPT !.next = cpu.head].next = cpu.head
        /\ [bd[cpu.tail] EXCEPT !.next = cpu.head].pbuf = bd[cpu.tail].pbuf
        /\ [bd[cpu.tail] EXCEPT !.next = cpu.head].owner = bd[cpu.tail].owner
        /\ [bd[cpu.tail] EXCEPT !.next = cpu.head].eoq = bd[cpu.tail].eoq
        /\ [bd[cpu.tail] EXCEPT !.next = cpu.head].frame = bd[cpu.tail].frame
    BY <2>2, <2>3 DEF BdTypes
  <2>5. /\ b \in [Bds -> BdTypes]
        /\ \A i \in Bds : /\ b[i].pbuf = bd[i].pbuf /\ b[i].owner = bd[i].owner
                          /\ b[i].eoq = bd[i].eoq /\ b[i].frame = bd[i].frame
                          /\ b[i].next = IF i = cpu.tail THEN cpu.head ELSE bd[i].next
    BY <1>1, <2>4
  <2> HIDE DEF b
  <2>6. b[cpu.last] \in BdTypes /\ cpu.last \in Bds
    BY <1>1, <2>5
  <2>7. /\ [b[cpu.last] EXCEPT !.next = NULL] \in BdTypes
        /\ [b[cpu.last] EXCEPT !.next = NULL].next = NULL
        /\ [b[cpu.last] EXCEPT !.next = NULL].pbuf = b[cpu.last].pbuf
        /\ [b[cpu.last] EXCEPT !.next = NULL].owner = b[cpu.last].owner
        /\ [b[cpu.last] EXCEPT !.next = NULL].eoq = b[cpu.last].eoq
        /\ [b[cpu.last] EXCEPT !.next = NULL].frame = b[cpu.last].frame
    BY <2>2, <2>6 DEF BdTypes
  <2>8. /\ bd' \in [Bds -> BdTypes]
        /\ \A i \in Bds : /\ bd'[i].pbuf = b[i].pbuf /\ bd'[i].owner = b[i].owner
                          /\ bd'[i].eoq = b[i].eoq /\ bd'[i].frame = b[i].frame
                          /\ bd'[i].next = IF i = cpu.last THEN NULL ELSE b[i].next
    BY <2>1, <2>5, <2>6, <2>7
  <2> QED BY <1>1, <2>5, <2>8
<1>5. Types'
  BY <1>1, <1>2, <1>3, <1>4 DEF Types, BdTypes
<1>6. /\ Filled = 0 /\ Filled' = 0 /\ Emptied' = Emptied /\ Pending' = Pending
      /\ End = cpu.tail /\ End' = rxch.recv_tail /\ Linking' /\ (WholeRing' <=> WholeRing)
  BY <1>1, <1>2, <1>3 DEF Filled, Emptied, Pending, End, Linking, WholeRing
<1>7. Chain'
  BY <1>1, <1>2, <1>4, <1>6 DEF Chain
<1>8. Layout(bd, rxch.free_head, Filled, Emptied, Pending, stack.frame)'
  BY <1>1, <1>2, <1>4, <1>6 DEF Layout
<1>9. Handlers'
  BY <1>1, <1>2, <1>3, <1>6 DEF Handlers, Off
<1>10. Engine'
  <2>1. bd'[rxch.recv_tail].eoq = bd[rxch.recv_tail].eoq
        /\ bd'[cpu.tail].eoq = bd[cpu.tail].eoq
    BY <1>1, <1>4
  <2>2. Off(dma.hdp)' = Off(dma.hdp) /\ Off(dma.done)' = Off(dma.done)
        /\ Off(cpu.tail)' = Off(cpu.tail)
    BY <1>2, <1>3 DEF Off
  <2> QED BY <1>1, <1>2, <1>3, <1>6, <2>1, <2>2 DEF Engine
<1>11. Pbufs'
  <2>1. Armed' = Armed
    BY <1>4 DEF Armed
  <2> QED BY <1>1, <1>2, <2>1 DEF Pbufs
<1>12. ~dma'.missed => Flow'
  <2>1. bd'[rxch.recv_tail].eoq = bd[rxch.recv_tail].eoq
        /\ bd'[cpu.tail].eoq = bd[cpu.tail].eoq
    BY <1>1, <1>4
  <2>2. ~dma.missed => Flow
    BY DEF IInv
  <2> QED BY <1>1, <1>2, <1>3, <1>6, <2>1, <2>2 DEF Flow
<1> QED BY <1>5, <1>7, <1>8, <1>9, <1>10, <1>11, <1>12 DEF IInv

\* An engine that has stopped at the old tail stands before the new descriptors.
LEMMA StoppedAtTheTail ==
  ASSUME IInv, Linking, bd[cpu.tail].eoq
  PROVE  /\ cpu.tail # rxch.recv_tail /\ dma.hdp = NULL
         /\ cpu.head \in Bds /\ Off(cpu.head) = Emptied + Pending
         /\ Emptied + Pending < NumBds
<1>1. /\ Types /\ Chain /\ cpu.tail \in Bds /\ cpu.head = Succ(cpu.tail)
      /\ dma.hdp = NULL /\ Emptied + Pending = Off(cpu.tail) + 1
      /\ dma.burst <= Burst /\ dma.burst \in Nat /\ Pending \in Nat
      /\ (WholeRing => rxch.free_num = 0 /\ Pending <= dma.burst)
  BY TypeFacts DEF IInv, Handlers, Engine
<1>2. cpu.at # "alloc" /\ Filled = 0
  BY DEF Linking, Filled
<1>3. cpu.tail # rxch.recv_tail
  <2> SUFFICES ASSUME cpu.tail = rxch.recv_tail PROVE FALSE
    OBVIOUS
  <2>1. Emptied = 0 /\ Pending <= Burst
    BY <1>1, <1>2, Sizes DEF WholeRing, Emptied
  <2>2. Off(cpu.tail) = NumBds - 1
    BY <1>1, Positions
  <2> QED BY <1>1, <2>1, <2>2, Sizes
<1>4. Off(cpu.tail) \in Nat /\ Off(cpu.tail) < NumBds - 1
  BY <1>1, <1>3, Positions, Sizes
<1>5. cpu.head \in Bds /\ Off(cpu.head) = Off(cpu.tail) + 1
  BY <1>1, <1>3, Positions
<1> QED BY <1>1, <1>3, <1>4, <1>5, Sizes

LEMMA KeepsCheckEoq ==
  ASSUME IInv, CheckEoq
  PROVE  IInv'
<1>1. /\ Types /\ Chain /\ Handlers /\ Engine /\ Pbufs
      /\ Layout(bd, rxch.free_head, Filled, Emptied, Pending, stack.frame)
      /\ cpu.at = "check" /\ Linking /\ rxch.recv_tail \in Bds
  BY TypeFacts DEF IInv, CheckEoq, Linking
<1>2. UNCHANGED <<bd, rxch, stack>>
  BY DEF CheckEoq
<1>3. /\ cpu'.at = "idle"
      /\ cpu' \in [at : Labels, curr : 0 .. NumBds, last : 0 .. NumBds,
                   head : 0 .. NumBds, tail : 0 .. NumBds]
  <2>1. cpu' = Returned
    BY DEF CheckEoq
  <2> QED BY <2>1, Sizes DEF Returned, Labels, NULL
<1>4. /\ dma'.hdp = IF bd[cpu.tail].eoq THEN cpu.head ELSE dma.hdp
      /\ dma'.done = dma.done /\ dma'.irq = dma.irq /\ dma'.frame = dma.frame
      /\ dma' \in [hdp : 0 .. NumBds, done : 0 .. NumBds, irq : BOOLEAN,
                   frame : Frames, burst : Nat, missed : BOOLEAN]
  <2>1. dma \in [hdp : 0 .. NumBds, done : 0 .. NumBds, irq : BOOLEAN,
                 frame : Frames, burst : Nat, missed : BOOLEAN]
    BY <1>1 DEF Types
  <2>2. CASE bd[cpu.tail].eoq
    <3>1. dma' = [dma EXCEPT !.hdp = cpu.head]
      BY <2>2 DEF CheckEoq, Restart
    <3>2. cpu.head \in 0 .. NumBds
      BY <1>1 DEF Types
    <3> QED BY <2>1, <2>2, <3>1, <3>2
  <2>3. CASE ~bd[cpu.tail].eoq
    <3>1. dma' = dma
      BY <2>3 DEF CheckEoq, Restart
    <3> QED BY <2>1, <2>3, <3>1
  <2> QED BY <2>2, <2>3
<1>5. Types'
  BY <1>1, <1>2, <1>3, <1>4 DEF Types
<1>6. /\ Filled = 0 /\ Filled' = 0 /\ Emptied' = Emptied /\ Pending' = Pending
      /\ End' = rxch.recv_tail /\ End = rxch.recv_tail /\ ~Linking' /\ ~WholeRing'
  BY <1>1, <1>2, <1>3, <1>4 DEF Filled, Emptied, Pending, End, Linking, WholeRing
<1>7. Chain'
  BY <1>1, <1>2, <1>6 DEF Chain
<1>8. Layout(bd, rxch.free_head, Filled, Emptied, Pending, stack.frame)'
  BY <1>1, <1>2, <1>6 DEF Layout
<1>9. Handlers'
  BY <1>1, <1>2, <1>3, <1>6 DEF Handlers, Off
<1>10. Engine'
  <2>1. dma'.hdp # NULL => Off(dma.hdp)' = Emptied + Pending
    <3>1. CASE bd[cpu.tail].eoq
      <4>1. Off(dma.hdp)' = Off(cpu.head)
        BY <1>2, <1>4, <3>1 DEF Off
      <4> QED BY <4>1, <1>1, <3>1, StoppedAtTheTail
    <3>2. CASE ~bd[cpu.tail].eoq
      <4>1. Off(dma.hdp)' = Off(dma.hdp) /\ dma'.hdp = dma.hdp
        BY <1>2, <1>4, <3>2 DEF Off
      <4> QED BY <4>1, <1>1 DEF Engine
    <3> QED BY <3>1, <3>2
  <2>2. bd[rxch.recv_tail].eoq => dma'.hdp = NULL /\ Emptied + Pending = NumBds
    <3> SUFFICES ASSUME bd[rxch.recv_tail].eoq
                 PROVE  dma'.hdp = NULL /\ Emptied + Pending = NumBds
      OBVIOUS
    <3>1. dma.hdp = NULL /\ Emptied + Pending = NumBds
      BY <1>1 DEF Engine
    <3>2. ~bd[cpu.tail].eoq
      BY <1>1, <3>1, StoppedAtTheTail, Sizes
    <3> QED BY <1>4, <3>1, <3>2
  <2>3. Off(dma.done)' = Off(dma.done)
    BY <1>2, <1>4 DEF Off
  <2>4. dma'.irq <=> Pending > 0
    BY <1>1, <1>4 DEF Engine
  <2>5. /\ Emptied + Pending <= NumBds
        /\ Pending > 0 => dma.done # NULL /\ Off(dma.done) = Emptied + Pending - 1
    BY <1>1 DEF Engine
  <2> QED BY <1>2, <1>3, <1>4, <1>6, <2>1, <2>2, <2>3, <2>4, <2>5 DEF Engine
<1>11. Pbufs'
  BY <1>1, <1>2 DEF Pbufs, Armed
<1>12. ~dma'.missed => Flow'
  <2> SUFFICES ASSUME ~dma'.missed PROVE Flow'
    OBVIOUS
  <2>0. ~dma.missed
    BY <1>1 DEF CheckEoq, Restart, Types
  <2>1. Flow
    BY <2>0 DEF IInv
  <2>3. ASSUME dma'.hdp = NULL
        PROVE  /\ Emptied + Pending = NumBds
               /\ Pending > 0 => bd[rxch.recv_tail].eoq
    <3>1. ~bd[cpu.tail].eoq
      <4> SUFFICES ASSUME bd[cpu.tail].eoq PROVE FALSE
        OBVIOUS
      <4>1. cpu.head \in Bds /\ cpu.head = NULL
        BY <1>1, <1>4, <2>3, StoppedAtTheTail
      <4> QED BY <4>1, Sizes DEF Bds, NULL
    <3> QED BY <1>4, <2>1, <2>3, <3>1 DEF Flow
  <2> QED BY <1>2, <1>6, <2>3 DEF Flow
<1> QED BY <1>5, <1>7, <1>8, <1>9, <1>10, <1>11, <1>12 DEF IInv

\* The engine goes to the next descriptor, or stops at the end of the chain.
LEMMA EngineMoves ==
  ASSUME IInv, dma.hdp # NULL
  PROVE  /\ dma.hdp \in Bds /\ Off(dma.hdp) = Emptied + Pending
         /\ Emptied + Pending < NumBds
         /\ bd[dma.hdp].next = IF dma.hdp = End THEN NULL ELSE Succ(dma.hdp)
         /\ bd[dma.hdp].next \in 0 .. NumBds
         /\ bd[dma.hdp].next = NULL <=> dma.hdp = End
         /\ dma.hdp = rxch.recv_tail => End = rxch.recv_tail
         /\ dma.hdp # End =>
              Off(bd[dma.hdp].next) = Emptied + Pending + 1 /\ bd[dma.hdp].next \in Bds
<1>1. /\ Types /\ Chain /\ Engine /\ dma.hdp \in Bds /\ Handlers
      /\ Off(dma.hdp) = Emptied + Pending /\ bd[dma.hdp] \in BdTypes
  BY TypeFacts DEF IInv, Engine
<1>2. Emptied + Pending < NumBds
  BY <1>1, Positions, Sizes
<1>3. bd[dma.hdp].next = IF dma.hdp = End THEN NULL ELSE Succ(dma.hdp)
  BY <1>1 DEF Chain
<1>4. Succ(dma.hdp) \in Bds /\ Succ(dma.hdp) # NULL
  BY <1>1, Positions
<1>5. ASSUME dma.hdp = rxch.recv_tail
      PROVE  End = rxch.recv_tail
  <2>1. CASE cpu.at = "link"
    <3>1. Off(dma.hdp) <= Off(cpu.tail) /\ cpu.tail \in Bds
      BY <1>1, <2>1 DEF Engine, Handlers, Linking
    <3>2. Off(dma.hdp) = NumBds - 1 /\ Off(cpu.tail) \in 0 .. NumBds - 1
      BY <1>1, <1>5, <3>1, Positions
    <3>3. Off(cpu.tail) = NumBds - 1
      BY <3>1, <3>2, Sizes
    <3> QED BY <1>1, <2>1, <3>1, <3>3, Positions DEF End
  <2>2. CASE cpu.at # "link"
    BY <2>2 DEF End
  <2> QED BY <2>1, <2>2
<1>6. dma.hdp # End => Off(Succ(dma.hdp)) = Emptied + Pending + 1
  <2>1. dma.hdp # End => dma.hdp # rxch.recv_tail
    BY <1>5
  <2> QED BY <1>1, <2>1, Positions
<1>7. bd[dma.hdp].next \in 0 .. NumBds
  BY <1>1 DEF BdTypes
<1> QED BY <1>1, <1>2, <1>3, <1>4, <1>5, <1>6, <1>7

LEMMA KeepsReceive ==
  ASSUME IInv, Receive
  PROVE  IInv'
<1> DEFINE i == dma.hdp
           x == bd[dma.hdp].next = NULL
           h == rxch.free_head
           k == Filled
           e == Emptied
           m == Pending
           s == stack.frame
<1>1. /\ Types /\ Chain /\ Handlers /\ Engine /\ Pbufs
      /\ Layout(bd, h, k, e, m, s)
      /\ i # NULL /\ (Linking => dma.burst < Burst)
  BY DEF IInv, Receive, Linking
<1>2. /\ i \in Bds /\ Off(i) = e + m /\ e + m < NumBds
      /\ (x <=> i = End) /\ bd[i].next \in 0 .. NumBds
      /\ i = rxch.recv_tail => End = rxch.recv_tail
      /\ i # End => Off(bd[i].next) = e + m + 1 /\ bd[i].next \in Bds
  BY <1>1, EngineMoves
<1>3. /\ k \in Nat /\ e \in Nat /\ m \in Nat /\ s \in Frames /\ h \in Bds /\ k <= e
      /\ m \in 0 .. NumBds /\ m < NumBds
      /\ bd \in [Bds -> BdTypes] /\ dma.frame = Plus(s, m) /\ rxch.recv_tail \in Bds
      /\ dma.burst \in Nat /\ NextFrame(dma.frame) \in Frames
  <2>1. /\ k \in Nat /\ e \in Nat /\ m \in Nat /\ s \in Frames /\ h \in Bds
        /\ bd \in [Bds -> BdTypes] /\ dma.frame = Plus(s, m) /\ rxch.recv_tail \in Bds
        /\ dma.burst \in Nat /\ rxch.free_num \in Nat /\ dma.frame \in Frames
    BY <1>1, TypeFacts
  <2>2. k <= e
    BY <2>1 DEF Emptied
  <2>3. m \in 0 .. NumBds /\ m < NumBds
    BY <1>2, <2>1, Sizes
  <2>4. NextFrame(dma.frame) \in Frames
    BY <2>1, <2>3, Counting
  <2> QED BY <2>1, <2>2, <2>3, <2>4
<1>4. UNCHANGED <<rxch, cpu, stack>>
  BY DEF Receive
<1>5. /\ bd' \in [Bds -> BdTypes] /\ Layout(bd', h, k, e, m + 1, s)
      /\ bd'[i].eoq = x /\ ~bd'[i].owner
      /\ \A j \in Bds : bd'[j].next = bd[j].next /\ bd'[j].pbuf = bd[j].pbuf
      /\ \A j \in Bds \ {i} : bd'[j] = bd[j]
  <2> DEFINE got == [bd[i] EXCEPT !.owner = FALSE, !.eoq = x,
                                  !.frame = NextFrame(dma.frame)]
  <2>1. bd' = [bd EXCEPT ![i] = got]
    <3>1. bd' = [bd EXCEPT ![i].owner = FALSE, ![i].eoq = x,
                           ![i].frame = NextFrame(dma.frame)]
      BY DEF Receive
    <3>2. bd[i] \in BdTypes
      BY <1>2, <1>3
    <3> HIDE DEF i, x
    <3> QED BY <1>2, <1>3, <3>1, <3>2 DEF BdTypes
  <2>2. NextFrame(dma.frame) = Plus(s, m + 1)
    <3>1. s \in Frames /\ m \in 0 .. NumBds /\ m < NumBds /\ dma.frame = Plus(s, m)
      BY <1>3
    <3> HIDE DEF s, m
    <3>2. NextFrame(Plus(s, m)) = Plus(s, m + 1)
      BY <3>1, Counting
    <3> QED BY <3>1, <3>2
  <2>3. /\ got \in BdTypes /\ got.pbuf = bd[i].pbuf /\ ~got.owner
        /\ got.next = bd[i].next /\ got.frame = Plus(s, m + 1) /\ got.eoq = x
    <3>1. bd[i] \in BdTypes /\ x \in BOOLEAN
      BY <1>2, <1>3
    <3> HIDE DEF i, x, s, m
    <3> QED BY <1>3, <2>2, <3>1 DEF BdTypes
  <2>4. /\ bd \in [Bds -> BdTypes] /\ h \in Bds /\ i \in Bds /\ k \in Nat /\ e \in Nat
        /\ m \in Nat /\ k <= e /\ e + m < NumBds /\ OffFrom(h, i) = e + m
        /\ Layout(bd, h, k, e, m, s)
    BY <1>1, <1>2, <1>3 DEF Off
  <2> HIDE DEF got, i, x, h, k, e, m, s
  <2>5. /\ bd' \in [Bds -> BdTypes] /\ Layout(bd', h, k, e, m + 1, s)
        /\ \A j \in Bds : bd'[j].next = bd[j].next /\ bd'[j].pbuf = bd[j].pbuf
    BY <2>1, <2>3, <2>4, LayoutReceive
  <2>6. bd'[i] = got /\ \A j \in Bds \ {i} : bd'[j] = bd[j]
    BY <2>1, <2>4
  <2> QED BY <2>3, <2>5, <2>6
<1>6. /\ dma'.hdp = bd[i].next /\ dma'.done = i /\ dma'.irq
      /\ dma'.frame = NextFrame(dma.frame)
      /\ dma'.burst = IF Linking THEN dma.burst + 1 ELSE 0
      /\ dma' \in [hdp : 0 .. NumBds, done : 0 .. NumBds, irq : BOOLEAN,
                   frame : Frames, burst : Nat, missed : BOOLEAN]
  <2> DEFINE burst == IF Linking THEN dma.burst + 1 ELSE 0
  <2>1. dma' = [dma EXCEPT !.hdp = bd[i].next, !.done = i, !.irq = TRUE,
                           !.frame = NextFrame(dma.frame), !.burst = burst]
    BY DEF Receive, Linking
  <2>2. burst \in Nat
    BY <1>3
  <2>3. i \in 0 .. NumBds
    BY <1>2, Sizes DEF Bds
  <2>4. dma \in [hdp : 0 .. NumBds, done : 0 .. NumBds, irq : BOOLEAN,
                 frame : Frames, burst : Nat, missed : BOOLEAN]
    BY <1>1 DEF Types
  <2> HIDE DEF burst
  <2>5. /\ dma'.hdp = bd[i].next /\ dma'.done = i /\ dma'.irq
        /\ dma'.frame = NextFrame(dma.frame) /\ dma'.burst = burst
        /\ dma' \in [hdp : 0 .. NumBds, done : 0 .. NumBds, irq : BOOLEAN,
                     frame : Frames, burst : Nat, missed : BOOLEAN]
    BY <1>2, <1>3, <2>1, <2>2, <2>3, <2>4
  <2> QED BY <2>5 DEF burst
<1>7. Types'
  BY <1>1, <1>4, <1>5, <1>6 DEF Types, BdTypes
<1>8. /\ Filled' = k /\ Emptied' = e /\ Pending' = m + 1 /\ End' = End
      /\ (Linking' <=> Linking) /\ (WholeRing' <=> WholeRing)
  <2>1. Pending' = m + 1
    BY <1>1, <1>3, <1>4, <1>6, TypeFacts, PendingCounts DEF Pending
  <2> QED BY <1>4, <2>1 DEF Filled, Emptied, End, Linking, WholeRing, Off
<1>9. Chain'
  BY <1>1, <1>4, <1>5, <1>8 DEF Chain
<1>10. Layout(bd, rxch.free_head, Filled, Emptied, Pending, stack.frame)'
  BY <1>4, <1>5, <1>8
<1>11. Handlers'
  BY <1>1, <1>4, <1>8 DEF Handlers, Off, Linking
<1>12. Linking => cpu.tail \in Bds
  BY <1>1 DEF Handlers
<1>13. Off(cpu.tail)' = Off(cpu.tail)
  BY <1>4 DEF Off
<1>14. Engine'
  <2>1. Emptied' + Pending' <= NumBds /\ Emptied' + Pending' = e + m + 1
        /\ Emptied' + Pending' - 1 = e + m /\ Pending' > 0
    BY <1>2, <1>3, <1>8, Sizes
  <2>2. dma'.hdp # NULL => Off(dma.hdp)' = Emptied' + Pending' /\ i # End
    <3>1. dma'.hdp # NULL => i # End
      BY <1>2, <1>6
    <3>2. Off(dma.hdp)' = Off(bd[i].next)
      BY <1>4, <1>6 DEF Off
    <3> QED BY <1>2, <2>1, <3>1, <3>2
  <2>3. dma'.done # NULL /\ Off(dma.done)' = Emptied' + Pending' - 1
    <3>1. Off(dma.done)' = Off(i)
      BY <1>4, <1>6 DEF Off
    <3> QED BY <1>1, <1>2, <1>6, <2>1, <3>1
  <2>4. bd'[rxch.recv_tail].eoq => dma'.hdp = NULL /\ e + m + 1 = NumBds
    <3>1. CASE i = rxch.recv_tail
      <4>1. e + m = NumBds - 1
        BY <1>1, <1>2, <3>1, Positions
      <4>2. dma'.hdp = NULL
        BY <1>2, <1>6, <3>1
      <4> QED BY <1>3, <4>1, <4>2, Sizes
    <3>2. CASE i # rxch.recv_tail
      <4>1. bd'[rxch.recv_tail] = bd[rxch.recv_tail]
        BY <1>3, <1>5, <3>2
      <4> QED BY <1>1, <4>1 DEF Engine
    <3> QED BY <3>1, <3>2
  <2>5. Linking => dma'.burst <= Burst
    BY <1>1, <1>3, <1>6, Sizes
  <2>6. ASSUME Linking, bd'[cpu.tail].eoq
        PROVE  dma'.hdp = NULL /\ e + m + 1 = Off(cpu.tail) + 1
    <3>1. i = cpu.tail
      <4> SUFFICES ASSUME i # cpu.tail PROVE FALSE
        OBVIOUS
      <4>1. bd'[cpu.tail] = bd[cpu.tail]
        BY <1>5, <1>12, <2>6
      <4> QED BY <1>1, <2>6, <4>1 DEF Engine
    <3>2. dma'.hdp = NULL
      BY <1>5, <1>6, <2>6, <3>1
    <3> QED BY <1>2, <3>1, <3>2
  <2>7. WholeRing => rxch.free_num = 0 /\ m + 1 <= dma'.burst
    <3>1. WholeRing => Linking
      BY DEF WholeRing
    <3> QED BY <1>1, <1>3, <1>6, <3>1 DEF Engine
  <2>8. ASSUME cpu.at = "link"
        PROVE  /\ e + m + 1 <= Off(cpu.tail) + 1
               /\ dma'.hdp # NULL => Off(dma.hdp)' <= Off(cpu.tail)
    <3>1. e + m <= Off(cpu.tail) /\ cpu.tail \in Bds /\ Off(cpu.tail) \in Nat /\ End = cpu.tail
      BY <1>1, <1>2, <1>12, <2>8, Positions DEF Engine, Linking, End
    <3>2. i # cpu.tail => e + m # Off(cpu.tail)
      BY <1>1, <1>2, <3>1, Positions
    <3>3. i # cpu.tail => e + m + 1 <= Off(cpu.tail)
      BY <1>3, <3>1, <3>2
    <3> QED BY <1>3, <2>1, <2>2, <3>1, <3>3
  <2>9. /\ Linking' /\ bd'[cpu'.tail].eoq =>
             dma'.hdp = NULL /\ Emptied' + Pending' = Off(cpu.tail)' + 1
        /\ cpu'.at = "link" => /\ Emptied' + Pending' <= Off(cpu.tail)' + 1
                               /\ dma'.hdp # NULL => Off(dma.hdp)' <= Off(cpu.tail)'
    BY <1>4, <1>8, <1>13, <2>1, <2>6, <2>8
  <2>10. bd'[rxch'.recv_tail].eoq => dma'.hdp = NULL /\ Emptied' + Pending' = NumBds
    BY <1>4, <2>1, <2>4
  <2>11. /\ Linking' => dma'.burst <= Burst
         /\ WholeRing' => rxch'.free_num = 0 /\ Pending' <= dma'.burst
    BY <1>4, <1>8, <2>5, <2>7
  <2>12. dma'.irq <=> Pending' > 0
    BY <1>6, <2>1
  <2> QED BY <2>1, <2>2, <2>3, <2>9, <2>10, <2>11, <2>12 DEF Engine
<1>15. Pbufs'
  <2>1. Armed' = Armed
    BY <1>5 DEF Armed
  <2> QED BY <1>1, <1>4, <2>1 DEF Pbufs
<1>16. ~dma'.missed => Flow'
  <2>2. ASSUME dma'.hdp = NULL
        PROVE  \/ e + m + 1 = NumBds /\ bd'[rxch.recv_tail].eoq
               \/ Linking /\ ~WholeRing /\ bd'[cpu.tail].eoq
    <3>1. i = End /\ bd'[i].eoq
      BY <1>2, <1>5, <1>6, <2>2, Sizes DEF Bds, NULL
    <3>2. CASE End = rxch.recv_tail
      <4>1. e + m = NumBds - 1
        BY <1>1, <1>2, <3>1, <3>2, Positions
      <4> QED BY <1>3, <3>1, <3>2, <4>1, Sizes
    <3>3. CASE End # rxch.recv_tail
      BY <3>1, <3>3 DEF End, Linking, WholeRing
    <3> QED BY <3>2, <3>3
  <2>3. Emptied' + Pending' = e + m + 1
    BY <1>3, <1>8
  <2> QED BY <1>4, <1>8, <2>2, <2>3 DEF Flow
<1> QED BY <1>7, <1>9, <1>10, <1>11, <1>14, <1>15, <1>16 DEF IInv

-----------------------------------------------------------------------------
(* The theorems.                                                            *)

LEMMA NextKeepsIInv == IInv /\ [Next]_vars => IInv'
<1> SUFFICES ASSUME IInv, [Next]_vars PROVE IInv'
  OBVIOUS
<1>1. CASE UNCHANGED vars
  BY <1>1 DEF vars, IInv, Types, Chain, Handlers, Layout, Engine, Pbufs, Flow, Armed,
              Linking, WholeRing, End, Emptied, Filled, Pending, Off
<1>2. CASE Next
  BY <1>2, KeepsRxInterrupt, KeepsProcessFrame, KeepsToAlloc, KeepsFillBd,
     KeepsEndWhole, KeepsEndAppend, KeepsNothingFilled, KeepsLinkBds, KeepsCheckEoq,
     KeepsReceive, KeepsFreePbuf DEF Next
<1> QED BY <1>1, <1>2

\* The order of the chain, the frames in it and the pbufs keep to the invariant,
\* wherever the engine is between the steps of the handlers.
THEOREM RxRingInvariant == Spec => []IInv
<1> QED BY InitIInv, NextKeepsIInv, PTL DEF Spec

LEMMA InvariantIsSafe == IInv => BuffersSafe
<1> SUFFICES ASSUME IInv PROVE BuffersSafe
  OBVIOUS
<1>1. ASSUME dma.hdp # NULL
      PROVE  dma.hdp \in Armed /\ bd[dma.hdp].owner
  <2> DEFINE o == OffFrom(rxch.free_head, dma.hdp)
  <2>1. /\ dma.hdp \in Bds /\ o = Emptied + Pending /\ Types
        /\ Emptied \in Nat /\ Pending \in Nat
    BY <1>1, EngineMoves, TypeFacts DEF IInv, Off
  <2>2. /\ bd[dma.hdp].pbuf <=> ~(Filled <= o /\ o < Emptied)
        /\ bd[dma.hdp].owner <=> ~(Emptied <= o /\ o < Emptied + Pending)
    BY <2>1 DEF IInv, Layout
  <2>3. ~(o < Emptied) /\ ~(o < Emptied + Pending)
    BY <2>1
  <2> QED BY <2>1, <2>2, <2>3 DEF Armed
<1> QED BY <1>1 DEF IInv, Pbufs, BuffersSafe

\* The engine never points to a descriptor without a buffer or with a frame in
\* it, and no pbuf is lost or in two places, for every ring and pool
\* (cpswif_rxbd_alloc, cpswif_rx_inthandler).
THEOREM RxBuffersSafe == Spec => []BuffersSafe
<1> QED BY RxRingInvariant, InvariantIsSafe, PTL

LEMMA InOrderStep ==
  ASSUME IInv, [Next]_vars, stack'.frame # stack.frame
  PROVE  stack'.frame = NextFrame(stack.frame)
<1>1. Types /\ Chain /\ Handlers
      /\ Layout(bd, rxch.free_head, Filled, Emptied, Pending, stack.frame)
  BY DEF IInv
<1>2. CASE ProcessFrame
  <2> DEFINE o == OffFrom(rxch.free_head, cpu.curr)
  <2>1. /\ cpu.curr = rxch.recv_head /\ cpu.curr \in Bds /\ ~bd[cpu.curr].owner
        /\ stack.frame \in Frames
    BY <1>1, <1>2, TypeFacts DEF ProcessFrame, Handlers
  <2>2. Emptied <= o /\ o < Emptied + Pending /\ bd[cpu.curr].frame = Plus(stack.frame, o - Emptied + 1)
    BY <1>1, <2>1 DEF Layout
  <2>3. o = Emptied
    <3>1. Emptied + Pending <= NumBds /\ Emptied \in Nat /\ Pending \in Nat
      BY <1>1, TypeFacts DEF IInv, Engine
    <3>2. o = Off(cpu.curr) /\ o \in 0 .. NumBds - 1
      BY <1>1, <2>1, Positions DEF Off
    <3>3. Emptied < NumBds
      BY <2>2, <3>1, <3>2, Sizes
    <3> QED BY <1>1, <2>1, <3>2, <3>3 DEF Handlers
  <2>4. Emptied \in Nat
    BY <1>1, TypeFacts
  <2>5. bd[cpu.curr].frame = Plus(stack.frame, 1)
    BY <2>2, <2>3, <2>4
  <2>6. bd[cpu.curr].frame = NextFrame(stack.frame)
    <3>1. 0 \in 0 .. NumBds
      BY Sizes
    <3> QED BY <2>1, <2>5, <3>1, Counting
  <2>7. stack'.frame = bd[cpu.curr].frame
    BY <1>1, <1>2 DEF ProcessFrame, HandOver, Types
  <2> QED BY <2>6, <2>7
<1>3. CASE FillBd \/ FreePbuf
  BY <1>1, <1>3 DEF FillBd, FreePbuf, Types
<1>4. CASE UNCHANGED stack
  BY <1>4
<1> QED BY <1>2, <1>3, <1>4 DEF Next, vars, RxInterrupt, NoMoreFrames, TxInterrupt,
           EndFill, NothingFilled, LinkBds, CheckEoq, Receive

\* The stack gets the frames in the order the engine has received them, without a
\* gap and none twice, for every ring (cpswif_rx_inthandler).
THEOREM RxFramesInOrder == Spec => FramesInOrder
<1>1. IInv /\ [Next]_vars =>
        [stack'.frame # stack.frame => stack'.frame = NextFrame(stack.frame)]_vars
  BY InOrderStep
<1> QED BY <1>1, RxRingInvariant, PTL DEF FramesInOrder, Spec

LEMMA StoppedStep ==
  ASSUME IInv, [Next]_vars, dma.hdp # NULL, dma'.hdp # dma.hdp
  PROVE  dma'.hdp = bd[dma.hdp].next
<1>1. Types /\ dma.hdp \in Bds
  BY TypeFacts DEF IInv
<1>2. CASE Receive
  BY <1>1, <1>2 DEF Receive, Types
<1>3. CASE CheckEoq
  <2>1. ~bd[cpu.tail].eoq
    BY <1>3, StoppedAtTheTail DEF CheckEoq, Linking
  <2> QED BY <1>3, <2>1 DEF CheckEoq, Restart
<1>4. CASE EndFill
  <2>1. cpu.curr # NULL
    <3> SUFFICES ASSUME cpu.curr = NULL PROVE FALSE
      OBVIOUS
    <3>1. /\ cpu.last = rxch.recv_tail /\ cpu.last \in Bds /\ Filled = Off(cpu.last) + 1
          /\ Chain /\ Emptied = rxch.free_num + Filled /\ rxch.free_num \in Nat
          /\ Pending \in Nat
      BY <1>1, <1>4, EndsBehind, Positions
    <3>2. Filled = NumBds
      BY <1>1, <3>1, Positions, Sizes
    <3>3. Emptied + Pending < NumBds
      BY EngineMoves
    <3> QED BY <3>1, <3>2, <3>3, Sizes
  <2>2. dma' = [dma EXCEPT !.burst = 0, !.hdp = dma.hdp]
    BY <1>4, <2>1 DEF EndFill
  <2> QED BY <1>1, <2>2 DEF Types
<1>5. CASE ProcessFrame
  BY <1>1, <1>5 DEF ProcessFrame, Types
<1>6. CASE UNCHANGED dma
  BY <1>6
<1> QED BY <1>2, <1>3, <1>4, <1>5, <1>6 DEF Next, vars, RxInterrupt, NoMoreFrames,
           TxInterrupt, FillBd, NothingFilled, LinkBds, FreePbuf

\* The head descriptor pointer is never written under an engine that is on its
\* way, for every ring (cpswif_rxbd_alloc).
THEOREM RxHdpOnlyWhenStopped == Spec => HdpOnlyWhenStopped
<1>1. IInv /\ [Next]_vars =>
        [dma.hdp # NULL /\ dma'.hdp # dma.hdp => dma'.hdp = bd[dma.hdp].next]_vars
  BY StoppedStep
<1> QED BY <1>1, RxRingInvariant, PTL DEF HdpOnlyWhenStopped, Spec

LEMMA InvariantGoesOn == IInv => ReceptionGoesOn
<1> SUFFICES ASSUME IInv, cpu.at = "idle", ~dma.irq, dma.hdp = NULL, ~dma.missed
             PROVE  Armed = {}
  BY DEF ReceptionGoesOn
<1>1. /\ Filled = 0 /\ Pending \in Nat /\ ~(Pending > 0)
      /\ Emptied + Pending = NumBds
  BY TypeFacts DEF IInv, Flow, Linking, Engine, Filled
<1>2. Cardinality(Armed) = 0
  <2>1. Cardinality(Armed) = NumBds - rxch.free_num /\ rxch.free_num \in Nat
    BY TypeFacts DEF IInv, Pbufs
  <2> QED BY <1>1, <2>1, Sizes DEF Emptied
<1>3. IsFiniteSet(Armed)
  <2>1. IsFiniteSet(Bds)
    BY FS_Interval, Sizes DEF Bds
  <2>2. Armed \in SUBSET Bds
    BY DEF Armed
  <2> QED BY <2>1, <2>2, FS_Subset
<1> QED BY <1>2, <1>3, FS_EmptySet

\* The engine never stands still for good with descriptors it could use, for
\* every ring and however many pbufs the stack keeps, as long as no refill has
\* left a part of a free ring empty (cpswif_rxbd_alloc).
THEOREM RxReceptionGoesOn == Spec => []ReceptionGoesOn
<1> QED BY RxRingInvariant, InvariantGoesOn, PTL

-----------------------------------------------------------------------------
(* Both rings: what the transmit ring does to the pbufs the rings share.     *)

TxFlags == {"SOP", "EOP", "OWNER", "EOQ"}
TxBdTypes == [next : 0 .. NumTx, flags : SUBSET TxFlags, packet : 0 .. NumTx,
              pool : BOOLEAN]

TxTypes ==
  /\ txbd \in [TxBds -> TxBdTypes]
  /\ txch \in [free_head : 0 .. NumTx, send_head : 0 .. NumTx,
               send_tail : 0 .. NumTx, free_num : Nat]
  /\ tdma \in [hdp : 0 .. NumTx, done : 0 .. NumTx, irq : BOOLEAN,
               packet : 0 .. NumTx]
  /\ tx \in [at : {"idle", "check", "reap", "late"}, head : 0 .. NumTx, end : 0 .. NumTx,
             queued : 0 .. NumTx, freed : 0 .. NumTx, lost : Nat,
             late : BOOLEAN]

\* The descriptors that send a received pbuf: a packet each.
FromPool == {i \in TxBds : txbd[i].pool /\ "SOP" \in txbd[i].flags}

\* The stack keeps every pbuf that is being sent or that sending has lost, and
\* the receive handler does not run within the other.
Kept ==
  /\ \A i \in TxBds : txbd[i].pool => {"SOP", "EOP"} \subseteq txbd[i].flags
  /\ Cardinality(FromPool) + tx.lost <= stack.held
  /\ tx.at = "reap" => cpu.at = "idle"

CpswIInv == IInv /\ TxTypes /\ Kept

LEMMA TxSizes == NumTx \in Nat /\ NumTx >= 1 /\ MaxChain \in Nat /\ MaxChain >= 1
  BY TxAssumption

LEMMA TxBdsFinite ==
  ASSUME NEW S \in SUBSET TxBds
  PROVE  /\ IsFiniteSet(S) /\ Cardinality(S) \in Nat
         /\ \A T \in SUBSET S : Cardinality(T) <= Cardinality(S)
         /\ \A i \in S : Cardinality(S \ {i}) = Cardinality(S) - 1
         /\ \A i \in TxBds : Cardinality(S \cup {i}) <= Cardinality(S) + 1
<1>1. IsFiniteSet(TxBds)
  BY TxSizes, FS_Interval DEF TxBds
<1>2. IsFiniteSet(S)
  BY <1>1, FS_Subset
<1>3. Cardinality(S) \in Nat
  BY <1>2, FS_CardinalityType
<1>4. \A T \in SUBSET S : Cardinality(T) <= Cardinality(S)
  BY <1>2, FS_Subset
<1>5. \A i \in S : Cardinality(S \ {i}) = Cardinality(S) - 1
  BY <1>2, FS_RemoveElement
<1>6. \A i \in TxBds : Cardinality(S \cup {i}) <= Cardinality(S) + 1
  <2> SUFFICES ASSUME NEW i \in TxBds
               PROVE  Cardinality(S \cup {i}) <= Cardinality(S) + 1
    OBVIOUS
  <2>1. CASE i \in S
    <3>1. S \cup {i} = S
      BY <2>1
    <3>2. Cardinality(S \cup {i}) = Cardinality(S)
      BY <3>1
    <3> QED BY <1>3, <3>2
  <2>2. CASE i \notin S
    <3>1. Cardinality(S \cup {i}) = Cardinality(S) + 1
      BY <1>2, <2>2, FS_AddElement
    <3> QED BY <1>3, <3>1
  <2> QED BY <2>1, <2>2
<1> QED BY <1>2, <1>3, <1>4, <1>5, <1>6

\* The numbers of packets.
LEMMA PacketNumbers ==
  ASSUME NEW q \in 0 .. NumTx
  PROVE  NextPacket(q) \in 0 .. NumTx
  BY TxSizes DEF NextPacket

LEMMA RunFacts ==
  ASSUME NEW i, NEW n \in Nat, n >= 1, NEW p \in Run(i, n)
  PROVE  /\ p \in [1 .. n -> TxBds] /\ Len(p) = n /\ p[1] = i /\ i \in TxBds
         /\ Last(p) = p[n] /\ Last(p) \in TxBds
<1>1. p \in [1 .. n -> TxBds] /\ p[1] = i
  BY DEF Run
<1>2. Len(p) = n
  BY <1>1, LenProperties
<1> QED BY <1>1, <1>2 DEF Last

LEMMA PacketFacts ==
  ASSUME NEW i, NEW p \in Packet(i)
  PROVE  /\ Len(p) \in Nat /\ Len(p) >= 1 /\ p \in [1 .. Len(p) -> TxBds]
         /\ p[1] = i /\ i \in TxBds /\ Last(p) = p[Len(p)] /\ Last(p) \in TxBds
         /\ "EOP" \in txbd[i].flags <=> i = Last(p) /\ Len(p) = 1
         /\ "EOP" \in txbd[Last(p)].flags
<1>1. PICK n \in 1 .. NumTx : p \in Run(i, n)
  BY DEF Packet
<1>2. n \in Nat /\ n >= 1
  BY <1>1, TxSizes
<1>3. /\ p \in [1 .. n -> TxBds] /\ Len(p) = n /\ p[1] = i /\ i \in TxBds
      /\ Last(p) = p[n] /\ Last(p) \in TxBds
  BY <1>1, <1>2, RunFacts
<1>4. \A k \in 1 .. n : "EOP" \in txbd[p[k]].flags <=> k = n
  BY <1>3 DEF Packet
<1>5. "EOP" \in txbd[i].flags <=> n = 1
  BY <1>2, <1>3, <1>4
<1>6. "EOP" \in txbd[Last(p)].flags
  BY <1>2, <1>3, <1>4
<1> QED BY <1>2, <1>3, <1>5, <1>6

LEMMA CpswInitIInv == CpswInit => CpswIInv
<1> SUFFICES ASSUME CpswInit PROVE CpswIInv
  OBVIOUS
<1> USE TxSizes
<1>1. IInv
  BY InitIInv DEF CpswInit
<1>2. TxTypes
  <2>1. \A i \in TxBds : (i % NumTx) + 1 \in 0 .. NumTx
    BY DEF TxBds
  <2>2. txbd \in [TxBds -> TxBdTypes]
    BY <2>1 DEF CpswInit, TxBdTypes
  <2> QED BY <2>2 DEF CpswInit, TxTypes, NULL
<1>3. Kept
  <2>1. FromPool = {}
    BY DEF CpswInit, FromPool
  <2>2. Cardinality({}) = 0
    BY FS_EmptySet
  <2>3. \A i \in TxBds : ~txbd[i].pool
    BY DEF CpswInit
  <2> QED BY <2>1, <2>2, <2>3 DEF CpswInit, Init, Kept
<1> QED BY <1>1, <1>2, <1>3 DEF CpswIInv

\* A step that leaves the transmit ring alone.
LEMMA KeptByRx ==
  ASSUME TxTypes, Kept, UNCHANGED txvars, stack'.held >= stack.held,
         stack.held \in Nat, stack'.held \in Nat, tx.at # "reap" \/ cpu'.at = cpu.at
  PROVE  TxTypes' /\ Kept'
<1>1. TxTypes' /\ FromPool' = FromPool
  BY DEF TxTypes, txvars, FromPool
<1>2. Cardinality(FromPool) \in Nat /\ tx.lost \in Nat
  BY TxBdsFinite DEF FromPool, TxTypes
<1>3. Cardinality(FromPool') + tx'.lost <= stack'.held
  BY <1>1, <1>2 DEF Kept, txvars
<1> QED BY <1>1, <1>3 DEF Kept, txvars

LEMMA CpswKeepsTransmit ==
  ASSUME CpswIInv, NEW n \in 1 .. MaxChain, NEW pool \in BOOLEAN, Transmit(n, pool)
  PROVE  UNCHANGED vars /\ TxTypes' /\ Kept'
<1>1. PICK p \in Run(txch.free_head, n) : TransmitIn(p, pool)
  BY DEF Transmit
<1>2. /\ n \in Nat /\ n >= 1 /\ n <= txch.free_num
      /\ pool => n = 1 /\ stack.held > Cardinality(FromPool) + tx.lost
      /\ tx.at = "idle" /\ TxTypes /\ Kept
  BY TxSizes DEF Transmit, CpswIInv, Sending, FromPool
<1>3. /\ p \in [1 .. n -> TxBds] /\ Len(p) = n /\ p[1] = txch.free_head
      /\ p[1] \in TxBds /\ Last(p) = p[n] /\ Last(p) \in TxBds
  BY <1>1, <1>2, RunFacts
<1> DEFINE bds == Queued(p, NextPacket(tx.queued), pool)
           filled(i) == \E k \in 1 .. Len(p) : i = p[k]
<1>4. ASSUME NEW i \in TxBds
      PROVE  /\ bds[i] \in TxBdTypes
             /\ filled(i) => /\ bds[i].pool <=> i = Last(p) /\ pool
                             /\ bds[i].pool => {"SOP", "EOP"} \subseteq bds[i].flags
             /\ ~filled(i) => bds[i] = txbd[i]
  <2>1. txbd[i] \in TxBdTypes
    BY <1>2 DEF TxTypes
  <2>2. CASE ~filled(i)
    BY <2>1, <2>2 DEF Queued
  <2>3. CASE filled(i)
    <3> DEFINE new == [next |-> IF i = Last(p) THEN NULL ELSE txbd[i].next,
                       flags |-> Flags(i, p),
                       packet |-> IF i = Last(p) THEN NextPacket(tx.queued) ELSE 0,
                       pool |-> i = Last(p) /\ pool]
    <3>1. bds[i] = new
      BY <2>3 DEF Queued
    <3>2. Flags(i, p) \in SUBSET TxFlags
      BY <2>1 DEF Flags, TxFlags, TxBdTypes
    <3>3. (IF i = Last(p) THEN NULL ELSE txbd[i].next) \in 0 .. NumTx
      BY <2>1, TxSizes DEF TxBdTypes, NULL
    <3>4. (IF i = Last(p) THEN NextPacket(tx.queued) ELSE 0) \in 0 .. NumTx
      BY <1>2, PacketNumbers, TxSizes DEF TxTypes
    <3>5. new \in TxBdTypes
      BY <3>2, <3>3, <3>4 DEF TxBdTypes
    <3>6. i = Last(p) /\ pool => {"SOP", "EOP"} \subseteq Flags(i, p)
      <4> SUFFICES ASSUME i = Last(p), pool PROVE {"SOP", "EOP"} \subseteq Flags(i, p)
        OBVIOUS
      <4>1. i = p[1]
        BY <1>2, <1>3
      <4> QED BY <4>1 DEF Flags
    <3>7. (new.pool <=> i = Last(p) /\ pool) /\ new.flags = Flags(i, p)
      OBVIOUS
    <3>8. new.pool => {"SOP", "EOP"} \subseteq new.flags
      BY <3>6, <3>7
    <3> HIDE DEF new
    <3> QED BY <2>3, <3>1, <3>5, <3>7, <3>8
  <2> QED BY <2>2, <2>3
<1>5. bds \in [TxBds -> TxBdTypes]
  BY <1>4 DEF Queued
<1> HIDE DEF bds
<1>6. /\ txbd' \in [TxBds -> TxBdTypes]
      /\ \A i \in TxBds : txbd'[i].pool = bds[i].pool /\ txbd'[i].flags = bds[i].flags
  <2>1. CASE txch.send_tail = NULL
    <3>1. txbd' = bds
      BY <1>1, <2>1 DEF TransmitIn, bds
    <3> QED BY <1>5, <3>1
  <2>2. CASE txch.send_tail # NULL
    <3> DEFINE t == txch.send_tail
               new == [bds[t] EXCEPT !.next = txch.free_head]
    <3>1. txbd' = [bds EXCEPT ![t] = new]
      BY <1>1, <2>2 DEF TransmitIn, bds
    <3>2. t \in TxBds /\ txch.free_head \in 0 .. NumTx
      BY <1>2, <2>2, TxSizes DEF TxTypes, TxBds, NULL
    <3>3. bds[t] \in TxBdTypes
      BY <1>5, <3>2
    <3>4. new \in TxBdTypes /\ new.pool = bds[t].pool /\ new.flags = bds[t].flags
      BY <3>2, <3>3 DEF TxBdTypes
    <3> HIDE DEF t, new
    <3> QED BY <1>5, <3>1, <3>2, <3>4
  <2> QED BY <2>1, <2>2
<1>7. /\ UNCHANGED vars /\ tx'.lost = tx.lost /\ tx'.at # "reap"
      /\ tx' \in [at : {"idle", "check", "reap", "late"}, head : 0 .. NumTx, end : 0 .. NumTx,
                  queued : 0 .. NumTx, freed : 0 .. NumTx, lost : Nat,
             late : BOOLEAN]
  <2> DEFINE at == IF txch.send_tail = NULL THEN "idle" ELSE "check"
             head == IF txch.send_tail = NULL THEN NULL ELSE txch.free_head
             end == IF txch.send_tail = NULL THEN NULL ELSE Last(p)
  <2>1. tx' = [tx EXCEPT !.at = at, !.head = head, !.end = end,
                         !.queued = NextPacket(tx.queued)] /\ UNCHANGED vars
    BY <1>1 DEF TransmitIn
  <2>2. /\ at \in {"idle", "check"} /\ head \in 0 .. NumTx /\ end \in 0 .. NumTx
        /\ NextPacket(tx.queued) \in 0 .. NumTx
    BY <1>2, <1>3, PacketNumbers, TxSizes DEF TxTypes, TxBds, NULL
  <2>3. tx \in [at : {"idle", "check", "reap", "late"}, head : 0 .. NumTx, end : 0 .. NumTx,
                queued : 0 .. NumTx, freed : 0 .. NumTx, lost : Nat,
             late : BOOLEAN]
    BY <1>2 DEF TxTypes
  <2> HIDE DEF at, head, end
  <2> QED BY <2>1, <2>2, <2>3
<1>8. txch' \in [free_head : 0 .. NumTx, send_head : 0 .. NumTx,
                 send_tail : 0 .. NumTx, free_num : Nat]
  <2> DEFINE tail == IF txch.send_tail = NULL THEN Last(p) ELSE txch.send_tail
  <2>1. txch' = [txch EXCEPT !.free_head = txbd[Last(p)].next,
                             !.free_num = txch.free_num - n, !.send_tail = tail]
    BY <1>1, <1>3 DEF TransmitIn
  <2>2. tail \in 0 .. NumTx /\ txbd[Last(p)].next \in 0 .. NumTx
        /\ txch.free_num - n \in Nat
    <3>1. txbd[Last(p)] \in TxBdTypes
      BY <1>2, <1>3 DEF TxTypes
    <3>2. txbd[Last(p)].next \in 0 .. NumTx
      BY <3>1 DEF TxBdTypes
    <3>3. txch.send_tail \in 0 .. NumTx /\ txch.free_num \in Nat
      BY <1>2 DEF TxTypes
    <3>4. Last(p) \in 0 .. NumTx
      BY <1>3, TxSizes DEF TxBds
    <3> QED BY <1>2, <3>2, <3>3, <3>4
  <2>3. txch \in [free_head : 0 .. NumTx, send_head : 0 .. NumTx,
                  send_tail : 0 .. NumTx, free_num : Nat]
    BY <1>2 DEF TxTypes
  <2> HIDE DEF tail
  <2> QED BY <2>1, <2>2, <2>3
<1>9. tdma' \in [hdp : 0 .. NumTx, done : 0 .. NumTx, irq : BOOLEAN,
                 packet : 0 .. NumTx]
  <2>1. tdma' = [tdma EXCEPT !.hdp = txch.free_head] \/ tdma' = tdma
    BY <1>1 DEF TransmitIn
  <2>2. txch.free_head \in 0 .. NumTx
    BY <1>2 DEF TxTypes
  <2> QED BY <1>2, <2>1, <2>2 DEF TxTypes
<1>10. TxTypes'
  BY <1>6, <1>7, <1>8, <1>9 DEF TxTypes
<1>11. \A i \in TxBds : txbd'[i].pool => {"SOP", "EOP"} \subseteq txbd'[i].flags
  <2> SUFFICES ASSUME NEW i \in TxBds, txbd'[i].pool
               PROVE  {"SOP", "EOP"} \subseteq txbd'[i].flags
    OBVIOUS
  <2>1. bds[i].pool /\ txbd'[i].flags = bds[i].flags
    BY <1>6
  <2>2. CASE filled(i)
    BY <1>4, <2>1, <2>2
  <2>3. CASE ~filled(i)
    <3>1. bds[i] = txbd[i]
      BY <1>4, <2>3
    <3> QED BY <1>2, <2>1, <3>1 DEF Kept
  <2> QED BY <2>2, <2>3
<1>12. Cardinality(FromPool') + tx'.lost <= stack'.held
  <2>1. \A i \in FromPool' : i \in FromPool \/ (i = Last(p) /\ pool)
    <3> SUFFICES ASSUME NEW i \in TxBds, txbd'[i].pool, "SOP" \in txbd'[i].flags
                 PROVE  i \in FromPool \/ (i = Last(p) /\ pool)
      BY DEF FromPool
    <3>1. bds[i].pool /\ "SOP" \in bds[i].flags
      BY <1>6
    <3>2. CASE filled(i)
      BY <1>4, <3>1, <3>2
    <3>3. CASE ~filled(i)
      <4>1. bds[i] = txbd[i]
        BY <1>4, <3>3
      <4> QED BY <3>1, <4>1 DEF FromPool
    <3> QED BY <3>2, <3>3
  <2>2. /\ FromPool \in SUBSET TxBds /\ Cardinality(FromPool) \in Nat
        /\ Cardinality(FromPool') \in Nat /\ FromPool' \in SUBSET TxBds
        /\ tx.lost \in Nat /\ stack'.held = stack.held /\ stack.held \in Nat
    BY <1>2, <1>7, TxBdsFinite, TypeFacts DEF FromPool, TxTypes, vars, CpswIInv, IInv
  <2>3. CASE pool
    <3>1. FromPool' \in SUBSET (FromPool \cup {Last(p)})
      BY <2>1
    <3>2. FromPool \cup {Last(p)} \in SUBSET TxBds
      BY <1>3, <2>2
    <3>3. Cardinality(FromPool') <= Cardinality(FromPool \cup {Last(p)})
          /\ Cardinality(FromPool \cup {Last(p)}) <= Cardinality(FromPool) + 1
          /\ Cardinality(FromPool \cup {Last(p)}) \in Nat
      BY <1>3, <2>2, <3>1, <3>2, TxBdsFinite
    <3> QED BY <1>2, <1>7, <2>2, <2>3, <3>3
  <2>4. CASE ~pool
    <3>1. FromPool' \in SUBSET FromPool
      BY <2>1, <2>4
    <3>2. Cardinality(FromPool') <= Cardinality(FromPool)
      BY <2>2, <3>1, TxBdsFinite
    <3> QED BY <1>2, <1>7, <2>2, <3>2 DEF Kept
  <2> QED BY <2>3, <2>4
<1> QED BY <1>7, <1>10, <1>11, <1>12 DEF Kept

TxLocals == [at : {"idle", "check", "reap", "late"}, head : 0 .. NumTx, end : 0 .. NumTx,
             queued : 0 .. NumTx, freed : 0 .. NumTx, lost : Nat,
             late : BOOLEAN]

\* What a step takes that changes no descriptor.
LEMMA KeptByTx ==
  ASSUME TxTypes, Kept, txbd' = txbd, tx' \in TxLocals,
         tdma' \in [hdp : 0 .. NumTx, done : 0 .. NumTx, irq : BOOLEAN,
                    packet : 0 .. NumTx],
         txch' \in [free_head : 0 .. NumTx, send_head : 0 .. NumTx,
                    send_tail : 0 .. NumTx, free_num : Nat],
         Cardinality(FromPool) + tx'.lost <= stack'.held,
         tx'.at = "reap" => cpu'.at = "idle"
  PROVE  TxTypes' /\ Kept'
<1>1. TxTypes'
  BY DEF TxTypes, TxLocals
<1>2. FromPool' = FromPool
  BY DEF FromPool
<1> QED BY <1>1, <1>2 DEF Kept

LEMMA CpswKeepsQuiet ==
  ASSUME CpswIInv, TransmitRefused \/ CheckTail \/ EnterTx \/ LastLook \/ TryAgain
  PROVE  UNCHANGED vars /\ TxTypes' /\ Kept'
<1>1. /\ TxTypes /\ Kept /\ UNCHANGED vars /\ txbd' = txbd
      /\ tx \in TxLocals
  BY DEF CpswIInv, TransmitRefused, CheckTail, EnterTx, LastLook, TryAgain, TxTypes,
         TxLocals
<1>2. stack' = stack /\ cpu' = cpu
  BY <1>1 DEF vars
<1>3. CASE TransmitRefused
  <2>1. tx' = [tx EXCEPT !.lost = @ + 1] /\ tx.at = "idle" /\ tdma' = tdma /\ txch' = txch
        /\ stack.held > Cardinality(FromPool) + tx.lost
    BY <1>3 DEF TransmitRefused, Sending, FromPool
  <2>2. tx.lost \in Nat /\ stack.held \in Nat /\ Cardinality(FromPool) \in Nat
    BY <1>1, TxBdsFinite, TypeFacts DEF TxLocals, FromPool, CpswIInv, IInv
  <2>3. tx.lost + 1 \in Nat
    BY <2>2
  <2>4. tx' \in TxLocals /\ tx'.lost = tx.lost + 1 /\ tx'.at = "idle"
    BY <1>1, <2>1, <2>3 DEF TxLocals
  <2>5. Cardinality(FromPool) + tx'.lost <= stack'.held
    BY <1>2, <2>1, <2>2, <2>4
  <2> QED BY <1>1, <2>1, <2>4, <2>5, KeptByTx DEF TxTypes
<1>4. CASE CheckTail
  <2>1. /\ tx' = [tx EXCEPT !.at = "idle", !.head = NULL, !.end = NULL]
        /\ txch' = [txch EXCEPT !.send_tail = tx.end]
        /\ tdma' = [tdma EXCEPT !.hdp = tx.head] \/ tdma' = tdma
    BY <1>4 DEF CheckTail, RestartTx
  <2>2. tx.end \in 0 .. NumTx /\ tx.head \in 0 .. NumTx /\ NULL \in 0 .. NumTx
    BY <1>1, TxSizes DEF TxLocals, NULL
  <2>3. tx' \in TxLocals /\ tx'.lost = tx.lost /\ tx'.at = "idle"
    BY <1>1, <2>1, <2>2 DEF TxLocals
  <2>4. tdma' \in [hdp : 0 .. NumTx, done : 0 .. NumTx, irq : BOOLEAN,
                   packet : 0 .. NumTx]
    BY <1>1, <2>1, <2>2 DEF TxTypes
  <2>5. txch' \in [free_head : 0 .. NumTx, send_head : 0 .. NumTx,
                   send_tail : 0 .. NumTx, free_num : Nat]
    BY <1>1, <2>1, <2>2 DEF TxTypes
  <2> QED BY <1>1, <1>2, <2>3, <2>4, <2>5, KeptByTx DEF Kept
<1>5. CASE EnterTx
  <2>1. /\ tx' = [tx EXCEPT !.at = "reap"] /\ tdma' = tdma /\ txch' = txch
        /\ cpu.at = "idle"
    BY <1>5 DEF EnterTx
  <2>2. tx' \in TxLocals /\ tx'.lost = tx.lost
    BY <1>1, <2>1 DEF TxLocals
  <2> QED BY <1>1, <1>2, <2>1, <2>2, KeptByTx DEF Kept, TxTypes
<1>6. CASE LastLook
  <2>1. tx' = [tx EXCEPT !.at = "late"] /\ tdma' = tdma /\ txch' = txch
    BY <1>6 DEF LastLook
  <2>2. tx' \in TxLocals /\ tx'.lost = tx.lost /\ tx'.at = "late"
    BY <1>1, <2>1 DEF TxLocals
  <2> QED BY <1>1, <1>2, <2>1, <2>2, KeptByTx DEF Kept, TxTypes
<1>7. CASE TryAgain
  <2>1. /\ tx' = [tx EXCEPT !.at = "idle", !.late = TRUE] /\ txch' = txch
        /\ tdma' = [tdma EXCEPT !.hdp = txch.send_head]
    BY <1>7 DEF TryAgain
  <2>2. tx' \in TxLocals /\ tx'.lost = tx.lost /\ tx'.at = "idle"
    BY <1>1, <2>1 DEF TxLocals
  <2>3. txch.send_head \in 0 .. NumTx
    BY <1>1 DEF TxTypes
  <2>4. tdma' \in [hdp : 0 .. NumTx, done : 0 .. NumTx, irq : BOOLEAN,
                   packet : 0 .. NumTx]
    BY <1>1, <2>1, <2>3 DEF TxTypes
  <2> QED BY <1>1, <1>2, <2>1, <2>2, <2>4, KeptByTx DEF Kept, TxTypes
<1> QED BY <1>1, <1>3, <1>4, <1>5, <1>6, <1>7

LEMMA CpswKeepsLeaveTx ==
  ASSUME CpswIInv, LeaveTx
  PROVE  TxInterrupt /\ TxTypes' /\ Kept'
<1>1. /\ TxTypes /\ Kept /\ TxInterrupt /\ txbd' = txbd /\ tdma' = tdma /\ txch' = txch
      /\ tx' = [tx EXCEPT !.at = "idle"] /\ tx \in TxLocals
  BY DEF CpswIInv, LeaveTx, TxTypes, TxLocals
<1>2. stack' = stack
  BY <1>1 DEF TxInterrupt
<1>3. tx' \in TxLocals /\ tx'.lost = tx.lost /\ tx'.at = "idle"
  BY <1>1 DEF TxLocals
<1> QED BY <1>1, <1>2, <1>3, KeptByTx DEF Kept, TxTypes

\* The receive handler lets the stack keep pbufs, and frees none of those kept.
LEMMA CpswKeepsRx ==
  ASSUME CpswIInv, RxHandler \/ (Receive /\ UNCHANGED txvars)
  PROVE  Next /\ TxTypes' /\ Kept'
<1>1. /\ TxTypes /\ Kept /\ Types /\ UNCHANGED txvars
      /\ stack.held \in Nat /\ stack.free \in Nat
  BY TypeFacts DEF CpswIInv, IInv, RxHandler
<1>2. Next
  BY DEF RxHandler, Next
<1>3. stack'.held >= stack.held /\ stack'.held \in Nat
  <2>1. CASE ProcessFrame
    <3>1. CASE stack'.held = stack.held
      BY <1>1, <3>1
    <3>2. CASE stack'.held = stack.held + 1
      BY <1>1, <3>2
    <3>3. stack'.held = stack.held \/ stack'.held = stack.held + 1
      BY <1>1, <2>1 DEF ProcessFrame, HandOver, Types
    <3> QED BY <3>1, <3>2, <3>3
  <2>2. CASE FillBd
    <3>1. stack'.held = stack.held
      BY <1>1, <2>2 DEF FillBd, Types
    <3> QED BY <1>1, <3>1
  <2>3. CASE UNCHANGED stack
    BY <1>1, <2>3
  <2> QED BY <2>1, <2>2, <2>3 DEF RxHandler, RxInterrupt, NoMoreFrames, EndFill,
             NothingFilled, LinkBds, CheckEoq, Receive
<1>4. tx.at # "reap" \/ cpu'.at = cpu.at
  BY DEF RxHandler, Receive
<1> QED BY <1>1, <1>2, <1>3, <1>4, KeptByRx

LEMMA CpswKeepsFreeKept ==
  ASSUME CpswIInv, FreeKept
  PROVE  FreePbuf /\ TxTypes' /\ Kept'
<1>1. /\ TxTypes /\ Kept /\ Types /\ FreePbuf /\ UNCHANGED txvars
      /\ stack.held > Cardinality(FromPool) + tx.lost /\ tx.at = "idle"
      /\ stack.held \in Nat /\ stack.free \in Nat /\ tx.lost \in Nat
      /\ Cardinality(FromPool) \in Nat
  BY TypeFacts, TxBdsFinite DEF CpswIInv, IInv, FreeKept, Sending, FromPool, TxTypes
<1>2. stack'.held = stack.held - 1
  BY <1>1 DEF FreePbuf, Types
<1>3. Cardinality(FromPool) + tx.lost <= stack'.held
  BY <1>1, <1>2
<1>4. tx' = tx /\ txbd' = txbd /\ tdma' = tdma /\ txch' = txch
  BY <1>1 DEF txvars
<1> QED BY <1>1, <1>3, <1>4, KeptByTx DEF TxTypes, TxLocals

LEMMA CpswKeepsSendPacket ==
  ASSUME CpswIInv, SendPacket
  PROVE  UNCHANGED vars /\ TxTypes' /\ Kept'
<1>1. TxTypes /\ Kept /\ UNCHANGED <<vars, txch, tx>>
  BY DEF CpswIInv, SendPacket
<1>2. PICK p \in Packet(tdma.hdp) :
        LET end  == Last(p)
            next == txbd[end].next
            sent == [txbd EXCEPT ![tdma.hdp].flags = @ \ {"OWNER"}]
        IN  /\ txbd' = IF next = NULL
                         THEN [sent EXCEPT ![end].flags = @ \cup {"EOQ"}] ELSE sent
            /\ tdma' = [hdp |-> next, done |-> end, irq |-> TRUE,
                        packet |-> txbd[end].packet]
  BY DEF SendPacket
<1> DEFINE head == tdma.hdp
           end == Last(p)
           started == [txbd[head] EXCEPT !.flags = txbd[head].flags \ {"OWNER"}]
           sent == [txbd EXCEPT ![head] = started]
           stopped == [sent[end] EXCEPT !.flags = sent[end].flags \cup {"EOQ"}]
<1>3. head \in TxBds /\ end \in TxBds
  BY PacketFacts
<1>4. txbd[head] \in TxBdTypes /\ txbd[end] \in TxBdTypes
  BY <1>1, <1>3 DEF TxTypes
<1>5. /\ started \in TxBdTypes /\ started.pool = txbd[head].pool
      /\ started.flags = txbd[head].flags \ {"OWNER"}
  BY <1>4 DEF TxBdTypes
<1>6. /\ sent \in [TxBds -> TxBdTypes]
      /\ \A i \in TxBds : /\ sent[i].pool = txbd[i].pool
                          /\ sent[i].flags \ {"OWNER", "EOQ"} = txbd[i].flags \ {"OWNER", "EOQ"}
  <2> HIDE DEF started, head
  <2> QED BY <1>1, <1>3, <1>5 DEF TxTypes
<1>7. txbd' = (IF txbd[end].next = NULL THEN [sent EXCEPT ![end] = stopped] ELSE sent)
  BY <1>2
<1> HIDE DEF sent, head, started
<1>8. sent[end] \in TxBdTypes
  BY <1>3, <1>6
<1>9. /\ stopped \in TxBdTypes /\ stopped.pool = sent[end].pool
      /\ stopped.flags = sent[end].flags \cup {"EOQ"}
  BY <1>8 DEF TxBdTypes, TxFlags
<1>10. /\ txbd' \in [TxBds -> TxBdTypes]
       /\ \A i \in TxBds : /\ txbd'[i].pool = txbd[i].pool
                           /\ txbd'[i].flags \ {"OWNER", "EOQ"} = txbd[i].flags \ {"OWNER", "EOQ"}
  <2> HIDE DEF stopped, end
  <2>1. CASE txbd[end].next = NULL
    <3>1. txbd' = [sent EXCEPT ![end] = stopped]
      BY <1>7, <2>1
    <3>2. txbd'[end] = stopped /\ \A i \in TxBds \ {end} : txbd'[i] = sent[i]
      BY <1>3, <1>6, <3>1
    <3>3. stopped.flags \ {"OWNER", "EOQ"} = sent[end].flags \ {"OWNER", "EOQ"}
      BY <1>9
    <3>4. txbd' \in [TxBds -> TxBdTypes]
      BY <1>6, <1>9, <3>1
    <3> QED BY <1>3, <1>6, <1>9, <3>2, <3>3, <3>4
  <2>2. CASE txbd[end].next # NULL
    BY <1>6, <1>7, <2>2
  <2> QED BY <2>1, <2>2
<1>11. tdma' \in [hdp : 0 .. NumTx, done : 0 .. NumTx, irq : BOOLEAN,
                  packet : 0 .. NumTx]
  <2>1. txbd[end].next \in 0 .. NumTx /\ txbd[end].packet \in 0 .. NumTx
    BY <1>4 DEF TxBdTypes
  <2>2. end \in 0 .. NumTx
    BY <1>3, TxSizes DEF TxBds
  <2>3. tdma' = [hdp |-> txbd[end].next, done |-> end, irq |-> TRUE,
                 packet |-> txbd[end].packet]
    BY <1>2
  <2> QED BY <2>1, <2>2, <2>3
<1>12. TxTypes'
  BY <1>1, <1>10, <1>11 DEF TxTypes
<1>13. \A i \in TxBds : txbd'[i].pool => {"SOP", "EOP"} \subseteq txbd'[i].flags
  BY <1>1, <1>10 DEF Kept
<1>14. FromPool' = FromPool
  <2>1. \A i \in TxBds : "SOP" \in txbd'[i].flags <=> "SOP" \in txbd[i].flags
    BY <1>10
  <2> QED BY <1>10, <2>1 DEF FromPool
<1>15. UNCHANGED vars /\ stack' = stack /\ cpu' = cpu /\ tx' = tx
  BY <1>1 DEF vars
<1> QED BY <1>1, <1>12, <1>13, <1>14, <1>15 DEF Kept

\* A pbuf that has been sent is one that the stack has kept.
LEMMA CpswKeepsReapPacket ==
  ASSUME CpswIInv, ReapPacket
  PROVE  (FreePbuf \/ UNCHANGED vars) /\ TxTypes' /\ Kept'
<1>1. /\ TxTypes /\ Kept /\ Types /\ tx.at = "reap" /\ cpu.at = "idle"
      /\ UNCHANGED <<bd, rxch, dma, cpu>>
      /\ stack.held \in Nat /\ stack.free \in Nat
  BY TypeFacts DEF CpswIInv, IInv, ReapPacket, Kept
<1> DEFINE head == txch.send_head
<1>2. PICK p \in Packet(head) :
        LET end  == Last(p)
            next == txbd[end].next
            seen == [txbd EXCEPT ![head].flags = @ \ {"SOP"}]
        IN  /\ txbd' = [seen EXCEPT ![end] = Reaped(@)]
            /\ txch' = [txch EXCEPT
                          !.free_num = @ + Len(p),
                          !.send_head = IF next = NULL THEN txch.free_head
                                        ELSE next]
            /\ tdma' = [tdma EXCEPT !.irq = @ /\ tdma.done # end]
            /\ tx' = [tx EXCEPT !.freed = txbd[end].packet]
            /\ stack' = IF txbd[end].pool
                          THEN [stack EXCEPT !.held = @ - 1, !.free = @ + 1]
                          ELSE stack
  BY DEF ReapPacket
<1> DEFINE end == Last(p)
           begun == [txbd[head] EXCEPT !.flags = txbd[head].flags \ {"SOP"}]
           mid == [txbd EXCEPT ![head] = begun]
           done == Reaped(mid[end])
<1>3. /\ head \in TxBds /\ end \in TxBds /\ Len(p) \in Nat
      /\ "EOP" \in txbd[head].flags => head = end
      /\ "EOP" \in txbd[end].flags
  BY PacketFacts
<1>4. txbd[head] \in TxBdTypes /\ txbd[end] \in TxBdTypes
  BY <1>1, <1>3 DEF TxTypes
<1>5. /\ begun \in TxBdTypes /\ begun.pool = txbd[head].pool
      /\ begun.flags = txbd[head].flags \ {"SOP"}
  BY <1>4 DEF TxBdTypes
<1>6. /\ mid \in [TxBds -> TxBdTypes] /\ mid[head] = begun
      /\ \A i \in TxBds \ {head} : mid[i] = txbd[i]
  <2> HIDE DEF begun, head
  <2> QED BY <1>1, <1>3, <1>5 DEF TxTypes
<1>7. txbd' = [mid EXCEPT ![end] = done]
  BY <1>2
<1> HIDE DEF mid, begun
<1>8. mid[end] \in TxBdTypes
  BY <1>3, <1>6
<1>9. done \in TxBdTypes /\ ~done.pool
  <2>1. mid[end].flags \ {"EOP"} \in SUBSET TxFlags /\ 0 \in 0 .. NumTx
    BY <1>8, TxSizes DEF TxBdTypes
  <2> HIDE DEF end
  <2> QED BY <1>8, <2>1 DEF TxBdTypes, Reaped
<1> HIDE DEF done
<1>10. /\ txbd' \in [TxBds -> TxBdTypes] /\ txbd'[end] = done
       /\ \A i \in TxBds \ {end} : txbd'[i] = mid[i]
  BY <1>3, <1>6, <1>7, <1>9
<1>11. \A i \in TxBds \ {head, end} : txbd'[i] = txbd[i]
  BY <1>6, <1>10
<1>12. head # end => txbd'[head].pool = txbd[head].pool /\ ~txbd[head].pool
  <2> SUFFICES ASSUME head # end
               PROVE  txbd'[head].pool = txbd[head].pool /\ ~txbd[head].pool
    OBVIOUS
  <2>1. "EOP" \notin txbd[head].flags
    BY <1>3
  <2>2. ~txbd[head].pool
    BY <1>1, <1>3, <2>1 DEF Kept
  <2> QED BY <1>3, <1>5, <1>6, <1>10, <2>2
<1>13. \A i \in TxBds : txbd'[i].pool => {"SOP", "EOP"} \subseteq txbd'[i].flags
  BY <1>1, <1>9, <1>10, <1>11, <1>12 DEF Kept
<1>14. FromPool' \in SUBSET (FromPool \ {end})
  BY <1>9, <1>10, <1>11, <1>12 DEF FromPool
<1>15. /\ Cardinality(FromPool) \in Nat /\ Cardinality(FromPool') \in Nat
       /\ FromPool \in SUBSET TxBds /\ FromPool \ {end} \in SUBSET TxBds
       /\ Cardinality(FromPool') <= Cardinality(FromPool \ {end})
       /\ end \in FromPool => Cardinality(FromPool \ {end}) = Cardinality(FromPool) - 1
       /\ end \notin FromPool => FromPool \ {end} = FromPool
  <2>1. /\ FromPool \in SUBSET TxBds /\ FromPool' \in SUBSET TxBds
        /\ FromPool \ {end} \in SUBSET TxBds
    BY DEF FromPool
  <2>2. end \notin FromPool => FromPool \ {end} = FromPool
    OBVIOUS
  <2> HIDE DEF end
  <2> QED BY <1>14, <2>1, <2>2, TxBdsFinite
<1>16. tx' \in TxLocals /\ tx'.lost = tx.lost /\ tx'.at = tx.at
  <2>1. tx' = [tx EXCEPT !.freed = txbd[end].packet]
    BY <1>2
  <2>2. txbd[end].packet \in 0 .. NumTx
    BY <1>4 DEF TxBdTypes
  <2>3. tx \in TxLocals
    BY <1>1 DEF TxTypes, TxLocals
  <2> QED BY <2>1, <2>2, <2>3 DEF TxLocals
<1>17. txch' \in [free_head : 0 .. NumTx, send_head : 0 .. NumTx,
                  send_tail : 0 .. NumTx, free_num : Nat]
  <2> DEFINE next == IF txbd[end].next = NULL THEN txch.free_head ELSE txbd[end].next
  <2>1. txch' = [txch EXCEPT !.free_num = txch.free_num + Len(p), !.send_head = next]
    BY <1>2
  <2>2. txbd[end].next \in 0 .. NumTx
    BY <1>4 DEF TxBdTypes
  <2>3. next \in 0 .. NumTx /\ txch.free_num + Len(p) \in Nat
    BY <1>1, <1>3, <2>2 DEF TxTypes
  <2>4. txch \in [free_head : 0 .. NumTx, send_head : 0 .. NumTx,
                  send_tail : 0 .. NumTx, free_num : Nat]
    BY <1>1 DEF TxTypes
  <2> HIDE DEF next
  <2> QED BY <2>1, <2>3, <2>4
<1>18. tdma' \in [hdp : 0 .. NumTx, done : 0 .. NumTx, irq : BOOLEAN,
                  packet : 0 .. NumTx]
  <2>1. tdma' = [tdma EXCEPT !.irq = tdma.irq /\ tdma.done # end]
    BY <1>2
  <2>2. (tdma.irq /\ tdma.done # end) \in BOOLEAN
    OBVIOUS
  <2>3. tdma \in [hdp : 0 .. NumTx, done : 0 .. NumTx, irq : BOOLEAN,
                  packet : 0 .. NumTx]
    BY <1>1 DEF TxTypes
  <2> QED BY <2>1, <2>2, <2>3
<1>19. TxTypes'
  BY <1>10, <1>16, <1>17, <1>18 DEF TxTypes, TxLocals
<1>20. /\ FreePbuf \/ UNCHANGED vars
       /\ Cardinality(FromPool') + tx'.lost <= stack'.held
  <2>1. tx.lost \in Nat /\ Cardinality(FromPool) + tx.lost <= stack.held
    BY <1>1 DEF TxTypes, Kept
  <2>2. CASE txbd[end].pool
    <3>1. end \in FromPool
      BY <1>1, <1>3, <2>2 DEF FromPool, Kept
    <3>2. stack.held > 0
      <4>1. FromPool # {} /\ IsFiniteSet(FromPool)
        BY <1>15, <3>1, TxBdsFinite
      <4>2. Cardinality(FromPool) # 0
        BY <4>1, FS_EmptySet
      <4> QED BY <1>1, <1>15, <2>1, <4>2
    <3>3. stack' = [stack EXCEPT !.held = @ - 1, !.free = @ + 1]
      BY <1>2, <2>2
    <3>4. stack'.held = stack.held - 1
      BY <1>1, <3>3 DEF Types
    <3>5. FreePbuf
      BY <1>1, <3>2, <3>3 DEF FreePbuf
    <3> QED BY <1>1, <1>15, <1>16, <2>1, <3>1, <3>4, <3>5
  <2>3. CASE ~txbd[end].pool
    <3>1. stack' = stack
      BY <1>2, <2>3
    <3>2. end \notin FromPool
      BY <2>3 DEF FromPool
    <3>3. Cardinality(FromPool') <= Cardinality(FromPool)
      BY <1>15, <3>2
    <3>4. UNCHANGED vars
      BY <1>1, <3>1 DEF vars
    <3> QED BY <1>1, <1>15, <1>16, <2>1, <3>1, <3>3, <3>4
  <2> QED BY <2>2, <2>3
<1> QED BY <1>1, <1>13, <1>16, <1>19, <1>20 DEF Kept

LEMMA CpswNextKeeps ==
  ASSUME CpswIInv, [CpswNext]_allvars
  PROVE  [Next]_vars /\ CpswIInv'
<1>1. [Next]_vars /\ TxTypes' /\ Kept'
  <2>1. CASE UNCHANGED allvars
    <3>1. UNCHANGED vars /\ UNCHANGED txvars /\ stack' = stack /\ cpu' = cpu
      BY <2>1 DEF allvars, vars
    <3> QED BY <3>1 DEF CpswIInv, TxTypes, Kept, FromPool, txvars
  <2>2. CASE \E n \in 1 .. MaxChain, pool \in BOOLEAN : Transmit(n, pool)
    BY <2>2, CpswKeepsTransmit
  <2>3. CASE TransmitRefused \/ CheckTail \/ EnterTx \/ LastLook \/ TryAgain
    BY <2>3, CpswKeepsQuiet
  <2>4. CASE ReapPacket
    BY <2>4, CpswKeepsReapPacket DEF Next
  <2>5. CASE LeaveTx
    BY <2>5, CpswKeepsLeaveTx DEF Next
  <2>6. CASE SendPacket
    BY <2>6, CpswKeepsSendPacket
  <2>7. CASE RxHandler \/ (Receive /\ UNCHANGED txvars)
    BY <2>7, CpswKeepsRx
  <2>8. CASE FreeKept
    BY <2>8, CpswKeepsFreeKept DEF Next
  <2> QED BY <2>1, <2>2, <2>3, <2>4, <2>5, <2>6, <2>7, <2>8 DEF CpswNext
<1>2. IInv'
  BY <1>1, NextKeepsIInv DEF CpswIInv
<1> QED BY <1>1, <1>2 DEF CpswIInv

\* The transmit ring has no part in a received pbuf but one the stack has kept: it
\* is freed once, after it has been sent (cpswif_transmit, cpswif_tx_inthandler).
THEOREM CpswInvariant == CpswSpec => []CpswIInv
<1>1. CpswIInv /\ [CpswNext]_allvars => CpswIInv'
  BY CpswNextKeeps
<1> QED BY <1>1, CpswInitIInv, PTL DEF CpswSpec

\* With the transmit ring the receive ring does what it does alone: whatever the
\* stack sends, also from the pbufs it has received, is to it a stutter, a call of
\* cpswif_rxbd_alloc or a pbuf freed (cpswif_transmit, cpswif_tx_inthandler).
THEOREM CpswImplementsRx == CpswSpec => Spec
<1>1. CpswInit => Init
  BY DEF CpswInit
<1>2. CpswIInv /\ [CpswNext]_allvars => [Next]_vars
  BY CpswNextKeeps
<1> QED BY <1>1, <1>2, CpswInvariant, PTL DEF CpswSpec, Spec

\* Therefore the buffers of both rings are safe (cpswif_rxbd_alloc,
\* cpswif_rx_inthandler).
THEOREM CpswBuffersSafe == CpswSpec => []BuffersSafe
<1> QED BY CpswImplementsRx, RxBuffersSafe, PTL

\* The stack gets the frames in order while it sends (cpswif_rx_inthandler).
THEOREM CpswFramesInOrder == CpswSpec => FramesInOrder
<1> QED BY CpswImplementsRx, RxFramesInOrder, PTL

\* The receive HDP is written under no moving engine while the stack sends
\* (cpswif_rxbd_alloc).
THEOREM CpswHdpOnlyWhenStopped == CpswSpec => HdpOnlyWhenStopped
<1> QED BY CpswImplementsRx, RxHdpOnlyWhenStopped, PTL

\* Reception goes on although pbufs are kept until they have been sent, or lost
\* (cpswif_rxbd_alloc).
THEOREM CpswReceptionGoesOn == CpswSpec => []ReceptionGoesOn
<1> QED BY CpswImplementsRx, RxReceptionGoesOn, PTL

-----------------------------------------------------------------------------
(* The transmit ring: every packet is sent once and in order, and all are.   *)
(*                                                                         *)
(* The descriptors are looked at in the order of the chain from the send      *)
(* head on.  They hold m packets, s of which have been sent; packet k is the   *)
(* descriptors from q[k - 1] to before q[k].                                *)

TxSucc(i) == IF i = NumTx THEN 1 ELSE i + 1
TxOffFrom(h, i) == IF i >= h THEN i - h ELSE i - h + NumTx

\* The number of the packet n after f.
TxPlus(f, n) == IF f + n <= NumTx THEN f + n ELSE f + n - (NumTx + 1)

\* The end of the chain, also where the driver has not yet noted it; and the
\* descriptors of packets.
TxTail == IF tx.at = "check" THEN tx.end ELSE txch.send_tail
TxUsed == NumTx - txch.free_num

\* Every packet has a descriptor at least.
Cuts(q, m) ==
  /\ q[0] = 0
  /\ \A a, b \in 0 .. m : a <= b => b - a <= q[b] - q[a]

TxChain ==
  /\ txch.send_head \in TxBds /\ txch.free_head \in TxBds
  /\ TxUsed \in 0 .. NumTx
  /\ TxTail = NULL => TxUsed = 0
  /\ TxTail # NULL => TxTail \in TxBds /\ txch.free_head = TxSucc(TxTail)
  /\ \A i \in TxBds : txbd[i].next = IF i = TxTail THEN NULL ELSE TxSucc(i)
  /\ TxUsed < NumTx => TxOffFrom(txch.send_head, txch.free_head) = TxUsed
  /\ TxUsed = NumTx => txch.free_head = txch.send_head

\* What the descriptors say of the packets that follow packet f.
TxLayout(b, h, q, m, s, f) ==
  \A i \in TxBds :
    /\ "SOP" \in b[i].flags <=> \E k \in 0 .. m - 1 : TxOffFrom(h, i) = q[k]
    /\ "EOP" \in b[i].flags <=> \E k \in 1 .. m : TxOffFrom(h, i) = q[k] - 1
    /\ "OWNER" \in b[i].flags <=> \E k \in s .. m - 1 : TxOffFrom(h, i) = q[k]
    /\ \A k \in 1 .. m : TxOffFrom(h, i) = q[k] - 1 => b[i].packet = TxPlus(f, k)

\* The engine is at the first packet not sent, or it has stopped at a tail that
\* says so and that the driver is about to look at.
TxEngine(q, m, s) ==
  /\ tdma.hdp # NULL => s < m /\ TxOffFrom(txch.send_head, tdma.hdp) = q[s]
  /\ tdma.hdp = NULL /\ s # m =>
       /\ tx.at = "check" /\ s = m - 1
       /\ "EOQ" \in txbd[txch.send_tail].flags
  /\ TxTail # NULL => ("EOQ" \in txbd[TxTail].flags <=> s = m)
  /\ tdma.irq <=> s > 0
  /\ s > 0 => /\ tdma.done \in TxBds
              /\ TxOffFrom(txch.send_head, tdma.done) = q[s] - 1
  /\ tdma.packet = TxPlus(tx.freed, s) /\ tx.queued = TxPlus(tx.freed, m)

\* A packet has been linked behind the old tail.
TxCheck(q, m, s) ==
  tx.at = "check" =>
    /\ m > 0 /\ tx.head \in TxBds /\ TxOffFrom(txch.send_head, tx.head) = q[m - 1]
    /\ txch.send_tail \in TxBds /\ tx.end \in TxBds /\ txch.send_tail # tx.end
    /\ "EOQ" \in txbd[txch.send_tail].flags => tdma.hdp = NULL /\ s = m - 1

TxRing(q, m, s) ==
  /\ q \in [0 .. NumTx -> 0 .. NumTx] /\ m \in 0 .. NumTx /\ s \in 0 .. m
  /\ q[m] = TxUsed /\ Cuts(q, m)
  /\ TxLayout(txbd, txch.send_head, q, m, s, tx.freed)
  /\ TxEngine(q, m, s) /\ TxCheck(q, m, s)

\* The inductive invariant of the transmit ring, with TxTypes, until the handler
\* gives the engine a packet for the second time.
TxInd == TxChain /\ \E q, m, s : TxRing(q, m, s)
TxIInv == ~tx.late => TxInd

\* What a step says of the numbers and of HDP.
TxMoves ==
  /\ tdma'.packet # tdma.packet => tdma'.packet = NextPacket(tdma.packet)
  /\ tx'.freed # tx.freed => tx.freed # tdma.packet /\ tx'.freed = NextPacket(tx.freed)
  /\ tdma.hdp # NULL /\ tdma'.hdp # tdma.hdp => SendPacket

\* Every set of numbers has a least one: what induction amounts to here.
LEMMA LeastNat ==
  ASSUME NEW S \in SUBSET Nat, S # {}
  PROVE  \E m \in S : \A k \in S : m <= k
  <1> DEFINE R == OpToRel(<, Nat)
  <1>1. IsWellFoundedOn(R, Nat) BY NatLessThanWellFounded, Zenon
  <1>2. \A x, y \in Nat : x < y => <<x, y>> \in R BY DEF OpToRel
  <1> HIDE DEF R
  <1>3. PICK m \in S : \A k \in S : ~ (<<k, m>> \in R) BY <1>1, WFMin
  <1>4. \A k \in S : ~ (k < m) BY <1>2, <1>3
  <1> QED BY <1>4

LEMMA TxOffsets ==
  ASSUME NEW h \in TxBds, NEW i \in TxBds
  PROVE  /\ TxOffFrom(h, i) \in 0 .. NumTx - 1 /\ TxOffFrom(h, h) = 0
         /\ TxOffFrom(h, i) = 0 <=> i = h
         /\ TxSucc(i) \in TxBds
         /\ h = TxSucc(i) <=> TxOffFrom(h, i) = NumTx - 1
         /\ h # TxSucc(i) => TxOffFrom(h, TxSucc(i)) = TxOffFrom(h, i) + 1
         /\ \A j \in TxBds : TxOffFrom(h, i) = TxOffFrom(h, j) => i = j
  BY TxSizes DEF TxBds, TxOffFrom, TxSucc

LEMMA TxSamePlace ==
  ASSUME NEW h \in TxBds, NEW i \in TxBds, NEW j \in TxBds
  PROVE  TxOffFrom(h, i) = TxOffFrom(h, j) <=> i = j
  BY TxSizes DEF TxBds, TxOffFrom

\* The order of the chain after the send head has moved to the descriptor after l.
LEMMA TxRebase ==
  ASSUME NEW h \in TxBds, NEW l \in TxBds, NEW i \in TxBds
  PROVE  TxOffFrom(TxSucc(l), i) =
           IF TxOffFrom(h, i) <= TxOffFrom(h, l)
             THEN TxOffFrom(h, i) + NumTx - (TxOffFrom(h, l) + 1)
             ELSE TxOffFrom(h, i) - (TxOffFrom(h, l) + 1)
  BY TxSizes DEF TxBds, TxOffFrom, TxSucc

LEMMA TxCounting ==
  ASSUME NEW f \in 0 .. NumTx, NEW n \in 0 .. NumTx
  PROVE  /\ TxPlus(f, n) \in 0 .. NumTx /\ TxPlus(f, 0) = f
         /\ NextPacket(f) = TxPlus(f, 1)
         /\ n < NumTx => NextPacket(TxPlus(f, n)) = TxPlus(f, n + 1)
         /\ n > 0 => TxPlus(f, n) # f
         /\ n > 0 => TxPlus(TxPlus(f, 1), n - 1) = TxPlus(f, n)
  BY TxSizes DEF TxPlus, NextPacket

\* The cuts are in order.
LEMMA CutsGrow ==
  ASSUME NEW m \in 0 .. NumTx, NEW q \in [0 .. NumTx -> 0 .. NumTx], Cuts(q, m)
  PROVE  /\ \A a, b \in 0 .. m : a < b <=> q[a] < q[b]
         /\ \A a, b \in 0 .. m : q[a] = q[b] => a = b
         /\ \A a \in 0 .. m : a <= q[a] /\ q[a] \in 0 .. NumTx /\ q[a] <= q[m]
<1>1. \A a \in 0 .. m : a \in Int /\ q[a] \in 0 .. NumTx /\ q[a] \in Int
  BY TxSizes
<1>2. ASSUME NEW a \in 0 .. m, NEW b \in 0 .. m, a < b
      PROVE  q[a] < q[b]
  <2>1. a \in Int /\ b \in Int /\ q[a] \in Int /\ q[b] \in Int
    BY <1>1
  <2>2. b - a <= q[b] - q[a]
    BY <1>2, <2>1 DEF Cuts
  <2> QED BY <1>2, <2>1, <2>2
<1>3. ASSUME NEW a \in 0 .. m, NEW b \in 0 .. m, ~(a < b)
      PROVE  ~(q[a] < q[b]) /\ (q[a] = q[b] => a = b)
  <2>1. a \in Int /\ b \in Int /\ q[a] \in Int /\ q[b] \in Int
    BY <1>1
  <2>2. a = b \/ b < a
    BY <1>3, <2>1
  <2>3. b < a => q[b] < q[a]
    BY <1>2
  <2> QED BY <2>1, <2>2, <2>3
<1>4. \A a, b \in 0 .. m : q[a] = q[b] => a = b
  BY <1>1, <1>2, <1>3
<1>5. ASSUME NEW a \in 0 .. m PROVE a <= q[a] /\ q[a] <= q[m]
  <2>1. 0 \in 0 .. m /\ m \in 0 .. m /\ a <= m /\ 0 <= a
    BY <1>1
  <2>2. a - 0 <= q[a] - q[0] /\ m - a <= q[m] - q[a] /\ q[0] = 0
    BY <2>1 DEF Cuts
  <2> QED BY <1>1, <2>1, <2>2
<1> QED BY <1>1, <1>2, <1>3, <1>4, <1>5

\* The tail is the last descriptor of a packet.
LEMMA TailLast ==
  ASSUME TxChain, TxUsed > 0
  PROVE  /\ TxTail \in TxBds /\ TxOffFrom(txch.send_head, TxTail) = TxUsed - 1
         /\ \A i \in TxBds : i = TxTail <=> TxOffFrom(txch.send_head, i) = TxUsed - 1
<1>1. /\ txch.send_head \in TxBds /\ TxTail \in TxBds /\ txch.free_head = TxSucc(TxTail)
      /\ TxUsed \in 0 .. NumTx
  BY DEF TxChain
<1>2. TxOffFrom(txch.send_head, TxTail) = TxUsed - 1
  <2>1. CASE TxUsed < NumTx
    <3>1. TxOffFrom(txch.send_head, TxSucc(TxTail)) = TxUsed
      BY <1>1, <2>1 DEF TxChain
    <3>2. txch.send_head # TxSucc(TxTail)
      BY <3>1, <1>1, TxOffsets
    <3> QED BY <1>1, <3>1, <3>2, TxOffsets, TxSizes
  <2>2. CASE TxUsed = NumTx
    <3>1. txch.send_head = TxSucc(TxTail)
      BY <1>1, <2>2 DEF TxChain
    <3> QED BY <1>1, <2>2, <3>1, TxOffsets
  <2> QED BY <1>1, <2>1, <2>2, TxSizes
<1>3. ASSUME NEW i \in TxBds, TxOffFrom(txch.send_head, i) = TxUsed - 1
      PROVE  i = TxTail
  BY <1>1, <1>2, <1>3, TxOffsets
<1> QED BY <1>1, <1>2, <1>3

\* The n descriptors p lie one after the other from place o on, before place e.
InOrder(h, p, n, o, e) ==
  \A k \in 1 .. n : TxOffFrom(h, p[k]) = o + k - 1 /\ o + k - 1 < e

\* Descriptors linked one after the other lie one after the other, as far as they
\* stay before the descriptor e.
LEMMA LinkedInOrder ==
  ASSUME NEW h \in TxBds, \A i \in TxBds : txbd[i].next \in {NULL, TxSucc(i)},
         NEW n \in Nat, NEW p \in [1 .. n -> TxBds], n >= 1,
         \A k \in 1 .. n - 1 : p[k + 1] = txbd[p[k]].next,
         NEW o \in Nat, TxOffFrom(h, p[1]) = o, NEW e \in 0 .. NumTx, o < e,
         \A k \in 1 .. n - 1 : TxOffFrom(h, p[k]) = o + k - 1 /\ o + k - 1 < e => o + k < e
  PROVE  InOrder(h, p, n, o, e)
<1> DEFINE Right(k) == TxOffFrom(h, p[k]) = o + k - 1 /\ o + k - 1 < e
           Wrong == {k \in 1 .. n : ~Right(k)}
<1>1. Right(1)
  OBVIOUS
<1>2. ASSUME NEW k \in 1 .. n - 1, Right(k)
      PROVE  Right(k + 1)
  <2>1. k \in 1 .. n /\ k + 1 \in 1 .. n /\ o + k < e /\ o + k \in Nat
    BY <1>2
  <2>2. p[k] \in TxBds /\ p[k + 1] \in TxBds /\ p[k + 1] # NULL
    BY <2>1, TxSizes DEF TxBds, NULL
  <2>3. p[k + 1] = TxSucc(p[k])
    BY <2>2
  <2>4. TxOffFrom(h, p[k]) # NumTx - 1
    BY <1>2, <2>1, TxSizes
  <2>5. TxOffFrom(h, TxSucc(p[k])) = TxOffFrom(h, p[k]) + 1
    BY <2>2, <2>4, TxOffsets
  <2> QED BY <1>2, <2>1, <2>3, <2>5
<1>3. ASSUME Wrong # {} PROVE FALSE
  <2>1. Wrong \in SUBSET Nat
    OBVIOUS
  <2> HIDE DEF Wrong
  <2>2. PICK j \in Wrong : \A k \in Wrong : j <= k
    BY <1>3, <2>1, LeastNat
  <2> USE DEF Wrong
  <2> HIDE DEF Right
  <2>3. j \in 1 .. n /\ ~Right(j) /\ j # 1 /\ \A k \in 1 .. n : ~Right(k) => j <= k
    BY <1>1, <2>2
  <2>4. j - 1 \in 1 .. n - 1 /\ j - 1 \in 1 .. n /\ j - 1 < j /\ (j - 1) + 1 = j
    BY <2>3
  <2>5. Right(j - 1)
    BY <2>3, <2>4
  <2>6. Right((j - 1) + 1)
    BY <1>2, <2>4, <2>5
  <2> QED BY <2>3, <2>4, <2>6
<1>4. ASSUME NEW k \in 1 .. n PROVE Right(k)
  <2> HIDE DEF Right
  <2> QED BY <1>3
<1> QED BY <1>4 DEF InOrder

\* What the ring says of a descriptor.
LEMMA TxReads ==
  ASSUME TxChain, NEW q, NEW m, NEW s, TxRing(q, m, s), NEW i \in TxBds
  PROVE  LET o == TxOffFrom(txch.send_head, i)
         IN  /\ \A k \in 0 .. m - 1 : o = q[k] =>
                  "SOP" \in txbd[i].flags /\ ("OWNER" \in txbd[i].flags <=> s <= k)
             /\ \A k \in 1 .. m : o = q[k] - 1 =>
                  "EOP" \in txbd[i].flags /\ txbd[i].packet = TxPlus(tx.freed, k)
             /\ o >= q[m] => {"SOP", "EOP", "OWNER"} \cap txbd[i].flags = {}
             /\ txbd[i].next \in {NULL, TxSucc(i)}
<1> DEFINE o == TxOffFrom(txch.send_head, i)
<1>1. /\ q \in [0 .. NumTx -> 0 .. NumTx] /\ m \in 0 .. NumTx /\ s \in 0 .. m
      /\ Cuts(q, m) /\ TxLayout(txbd, txch.send_head, q, m, s, tx.freed)
  BY DEF TxRing
<1>2. o \in 0 .. NumTx - 1
  BY TxOffsets DEF TxChain
<1>3. /\ "SOP" \in txbd[i].flags <=> \E k \in 0 .. m - 1 : o = q[k]
      /\ "EOP" \in txbd[i].flags <=> \E k \in 1 .. m : o = q[k] - 1
      /\ "OWNER" \in txbd[i].flags <=> \E k \in s .. m - 1 : o = q[k]
      /\ \A k \in 1 .. m : o = q[k] - 1 => txbd[i].packet = TxPlus(tx.freed, k)
  BY <1>1 DEF TxLayout
<1>4. txbd[i].next \in {NULL, TxSucc(i)}
  BY DEF TxChain
<1> HIDE DEF o
<1>5. \A k \in 0 .. m - 1 : o = q[k] =>
        "SOP" \in txbd[i].flags /\ ("OWNER" \in txbd[i].flags <=> s <= k)
  <2> SUFFICES ASSUME NEW k \in 0 .. m - 1, o = q[k]
               PROVE  "SOP" \in txbd[i].flags /\ ("OWNER" \in txbd[i].flags <=> s <= k)
    OBVIOUS
  <2>1. "SOP" \in txbd[i].flags
    BY <1>3
  <2>2. ASSUME s <= k PROVE "OWNER" \in txbd[i].flags
    <3>1. k \in s .. m - 1
      BY <2>2, <1>1, TxSizes
    <3> QED BY <1>3, <3>1
  <2>3. ASSUME "OWNER" \in txbd[i].flags PROVE s <= k
    <3>1. PICK j \in s .. m - 1 : o = q[j]
      BY <1>3, <2>3
    <3>2. j \in 0 .. m /\ k \in 0 .. m /\ s <= j
      BY <1>1, <3>1, TxSizes
    <3>3. j = k
      BY <1>1, <3>1, <3>2, CutsGrow
    <3> QED BY <3>2, <3>3
  <2> QED BY <2>1, <2>2, <2>3
<1>6. \A k \in 1 .. m : o = q[k] - 1 =>
        "EOP" \in txbd[i].flags /\ txbd[i].packet = TxPlus(tx.freed, k)
  BY <1>3
<1>7. o >= q[m] => {"SOP", "EOP", "OWNER"} \cap txbd[i].flags = {}
  <2> SUFFICES ASSUME o >= q[m] PROVE {"SOP", "EOP", "OWNER"} \cap txbd[i].flags = {}
    OBVIOUS
  <2>1. ASSUME NEW k \in 0 .. m - 1 PROVE o # q[k]
    <3>1. k \in 0 .. m /\ m \in 0 .. m /\ k < m
      BY <1>1, TxSizes
    <3>2. q[k] < q[m] /\ q[k] \in 0 .. NumTx /\ q[m] \in 0 .. NumTx
      BY <1>1, <3>1, CutsGrow
    <3> QED BY <1>2, <3>2, TxSizes
  <2>2. ASSUME NEW k \in 1 .. m PROVE o # q[k] - 1
    <3>1. k \in 0 .. m
      BY <1>1, TxSizes
    <3>2. q[k] <= q[m] /\ q[k] \in 0 .. NumTx /\ q[m] \in 0 .. NumTx
      BY <1>1, <3>1, CutsGrow, TxSizes
    <3> QED BY <1>2, <3>2, TxSizes
  <2>3. \A k \in s .. m - 1 : k \in 0 .. m - 1
    BY <1>1, TxSizes
  <2>4. "SOP" \notin txbd[i].flags /\ "EOP" \notin txbd[i].flags /\ "OWNER" \notin txbd[i].flags
    BY <1>3, <2>1, <2>2, <2>3
  <2> QED BY <2>4
<1> QED BY <1>4, <1>5, <1>6, <1>7 DEF o

\* A packet has the descriptors from its cut to before the next.
LEMMA PacketSpans ==
  ASSUME TxChain, NEW q, NEW m, NEW s, TxRing(q, m, s), NEW j \in 0 .. m - 1,
         NEW i, TxOffFrom(txch.send_head, i) = q[j], NEW p \in Packet(i)
  PROVE  /\ Len(p) = q[j + 1] - q[j] /\ Last(p) \in TxBds
         /\ TxOffFrom(txch.send_head, Last(p)) = q[j + 1] - 1
         /\ txbd[Last(p)].packet = TxPlus(tx.freed, j + 1)
         /\ i = Last(p) <=> q[j] = q[j + 1] - 1
<1> DEFINE h == txch.send_head
           n == Len(p)
<1>1. /\ n \in Nat /\ n >= 1 /\ p \in [1 .. n -> TxBds] /\ p[1] = i /\ i \in TxBds
      /\ Last(p) = p[n] /\ Last(p) \in TxBds
  BY PacketFacts
<1>2. /\ q \in [0 .. NumTx -> 0 .. NumTx] /\ m \in 0 .. NumTx /\ Cuts(q, m)
      /\ j \in 0 .. m /\ j + 1 \in 0 .. m /\ j + 1 \in 1 .. m
      /\ h \in TxBds
  <2>1. q \in [0 .. NumTx -> 0 .. NumTx] /\ m \in 0 .. NumTx /\ Cuts(q, m) /\ h \in TxBds
    BY DEF TxRing, TxChain
  <2>2. j \in 0 .. m /\ j + 1 \in 0 .. m /\ j + 1 \in 1 .. m
    BY <2>1, TxSizes
  <2> QED BY <2>1, <2>2
<1>3. q[j] < q[j + 1] /\ q[j] \in 0 .. NumTx /\ q[j + 1] \in 0 .. NumTx
  <2>1. j < j + 1
    OBVIOUS
  <2> QED BY <1>2, <2>1, CutsGrow
<1>4. \A k \in 1 .. n - 1 : p[k + 1] = txbd[p[k]].next
  <2>1. PICK l \in 1 .. NumTx : p \in Run(i, l)
    BY DEF Packet
  <2>2. l \in Nat /\ l >= 1
    BY TxSizes
  <2>3. n = l
    BY <2>1, <2>2, RunFacts
  <2> QED BY <2>1, <2>3 DEF Run
<1>5. \A k \in 1 .. n : "EOP" \in txbd[p[k]].flags <=> k = n
  BY DEF Packet
<1>6. ASSUME NEW k \in 1 .. n - 1, TxOffFrom(h, p[k]) = q[j] + k - 1,
             q[j] + k - 1 < q[j + 1]
      PROVE  q[j] + k < q[j + 1]
  <2> HIDE DEF n
  <2>1. k \in 1 .. n /\ k # n /\ p[k] \in TxBds
    BY <1>1
  <2>2. "EOP" \notin txbd[p[k]].flags
    BY <1>5, <2>1
  <2>3. TxOffFrom(h, p[k]) # q[j + 1] - 1
    BY <1>2, <2>1, <2>2, TxReads
  <2> QED BY <1>3, <1>6, <2>3
<1>7. \A k \in 1 .. n : TxOffFrom(h, p[k]) = q[j] + k - 1 /\ q[j] + k - 1 < q[j + 1]
  <2>1. \A b \in TxBds : txbd[b].next \in {NULL, TxSucc(b)}
    BY TxReads
  <2>2. q[j] \in Nat
    BY <1>3
  <2>3. TxOffFrom(h, p[1]) = q[j]
    BY <1>1
  <2> HIDE DEF n, h
  <2>4. PICK o \in Nat : o = q[j]
    BY <2>2
  <2>5. PICK e \in 0 .. NumTx : e = q[j + 1]
    BY <1>3
  <2>6. \A k \in 1 .. n - 1 : TxOffFrom(h, p[k]) = o + k - 1 /\ o + k - 1 < e => o + k < e
    BY <1>6, <2>4, <2>5
  <2>7. TxOffFrom(h, p[1]) = o /\ o < e
    BY <1>3, <2>3, <2>4, <2>5
  <2>8. InOrder(h, p, n, o, e)
    BY <1>1, <1>2, <1>4, <2>1, <2>6, <2>7, LinkedInOrder
  <2> QED BY <2>4, <2>5, <2>8 DEF InOrder
<1>8. n \in 1 .. n /\ TxOffFrom(h, p[n]) = q[j] + n - 1 /\ q[j] + n - 1 < q[j + 1]
  BY <1>1, <1>7
<1>9. TxOffFrom(h, p[n]) = q[j + 1] - 1
  <2>1. "EOP" \in txbd[p[n]].flags
    BY <1>5, <1>8
  <2>2. PICK k \in 1 .. m : TxOffFrom(h, p[n]) = q[k] - 1
    BY <1>1, <2>1 DEF TxRing, TxLayout
  <2>3. k \in 0 .. m /\ q[k] \in 0 .. NumTx
    BY <1>2, CutsGrow, TxSizes
  <2>4. q[j] < q[k] /\ q[k] <= q[j + 1]
    BY <1>1, <1>3, <1>8, <2>2, <2>3
  <2>5. j < k
    BY <1>2, <2>3, <2>4, CutsGrow
  <2>6. ~(j + 1 < k)
    <3>1. j + 1 < k => q[j + 1] < q[k]
      BY <1>2, <2>3, CutsGrow
    <3> QED BY <1>3, <2>3, <2>4, <3>1
  <2>7. k = j + 1
    BY <1>2, <2>3, <2>5, <2>6
  <2> QED BY <2>2, <2>7
<1>10. n = q[j + 1] - q[j]
  BY <1>1, <1>3, <1>8, <1>9
<1>11. txbd[Last(p)].packet = TxPlus(tx.freed, j + 1)
  <2> DEFINE end == Last(p)
  <2>1. end \in TxBds /\ TxOffFrom(txch.send_head, end) = q[j + 1] - 1
    BY <1>1, <1>9
  <2> HIDE DEF end
  <2>2. txbd[end].packet = TxPlus(tx.freed, j + 1)
    BY <1>2, <2>1, TxReads
  <2> QED BY <2>2 DEF end
<1>12. i = Last(p) <=> q[j] = q[j + 1] - 1
  <2>1. TxOffFrom(h, i) = q[j] /\ TxOffFrom(h, Last(p)) = q[j + 1] - 1
    BY <1>1, <1>9
  <2>2. TxOffFrom(h, i) = TxOffFrom(h, Last(p)) <=> i = Last(p)
    BY <1>1, <1>2, TxSamePlace
  <2> QED BY <2>1, <2>2
<1> QED BY <1>1, <1>9, <1>10, <1>11, <1>12

\* A packet of n descriptors is added to m.
CutMore(q, m, n, r) ==
  /\ r \in [0 .. NumTx -> 0 .. NumTx] /\ m + 1 \in 0 .. NumTx
  /\ r[m + 1] = q[m] + n /\ (\A k \in 0 .. m : r[k] = q[k])
  /\ Cuts(r, m + 1)

LEMMA CutsMore ==
  ASSUME NEW m \in 0 .. NumTx, NEW q \in [0 .. NumTx -> 0 .. NumTx], Cuts(q, m),
         NEW n \in Nat, n >= 1, q[m] + n <= NumTx,
         NEW r, r = [q EXCEPT ![m + 1] = q[m] + n]
  PROVE  CutMore(q, m, n, r)
<1>1. m \in 0 .. m /\ m <= q[m] /\ q[m] \in 0 .. NumTx
  BY CutsGrow, TxSizes
<1>2. m + 1 \in 0 .. NumTx
  BY <1>1, TxSizes
<1>3. ASSUME NEW k \in 0 .. m
      PROVE  k \in 0 .. NumTx /\ k # m + 1 /\ q[k] \in 0 .. NumTx
  <2>1. m \in Int /\ NumTx \in Int /\ m <= NumTx
    BY TxSizes
  <2>2. k \in 0 .. NumTx /\ k # m + 1
    BY <2>1
  <2> QED BY <2>2
<1>4. q[m] + n \in 0 .. NumTx
  <2>1. PICK x \in 0 .. NumTx : x = q[m]
    BY <1>1
  <2>2. x + n <= NumTx /\ x \in Int /\ 0 <= x
    BY <2>1, TxSizes
  <2>3. x + n \in Int /\ 0 <= x + n
    BY <2>2
  <2>4. q[m] + n = x + n
    BY <2>1
  <2> QED BY <2>2, <2>3, <2>4, TxSizes
<1>5. /\ r \in [0 .. NumTx -> 0 .. NumTx] /\ r[m + 1] = q[m] + n
      /\ \A k \in 0 .. m : r[k] = q[k]
  BY <1>2, <1>3, <1>4
<1>6. r[0] = 0
  BY <1>1, <1>5 DEF Cuts
<1>7. ASSUME NEW a \in 0 .. m + 1, NEW b \in 0 .. m + 1, a <= b
      PROVE  b - a <= r[b] - r[a]
  <2>1. CASE b <= m
    <3>1. a \in 0 .. m /\ b \in 0 .. m
      BY <1>7, <2>1, TxSizes
    <3>2. b - a <= q[b] - q[a]
      BY <1>7, <3>1 DEF Cuts
    <3> QED BY <1>5, <3>1, <3>2
  <2>2. CASE b > m /\ a <= m
    <3>1. a \in 0 .. m /\ b = m + 1
      BY <1>7, <2>2, TxSizes
    <3>2. a <= m /\ a \in Int /\ m \in Int /\ q[a] \in Int /\ q[m] \in Int
      <4>1. q[a] \in 0 .. NumTx /\ q[m] \in 0 .. NumTx
        BY <1>1, <1>3, <3>1
      <4>2. a <= m /\ a \in Int /\ m \in Int
        BY <2>2, TxSizes
      <4> QED BY <4>1, <4>2
    <3>3. m - a <= q[m] - q[a]
      BY <1>1, <3>1, <3>2 DEF Cuts
    <3>4. r[a] = q[a] /\ r[b] = q[m] + n
      BY <1>5, <3>1
    <3>5. b - a = (m - a) + 1 /\ r[b] - r[a] = (q[m] - q[a]) + n
      BY <3>1, <3>2, <3>4
    <3> QED BY <3>2, <3>3, <3>5
  <2>3. CASE b > m /\ a > m
    <3>1. a = m + 1 /\ b = m + 1
      BY <1>7, <2>3, TxSizes
    <3> QED BY <1>1, <1>5, <3>1
  <2> QED BY <1>7, <2>1, <2>2, <2>3
<1> QED BY <1>2, <1>5, <1>6, <1>7 DEF Cuts, CutMore

LEMMA LayoutMore ==
  ASSUME NEW h \in TxBds, NEW b, NEW c, NEW f,
         NEW m \in 0 .. NumTx, NEW q \in [0 .. NumTx -> 0 .. NumTx], Cuts(q, m),
         NEW s \in 0 .. m, NEW n \in Nat, n >= 1, q[m] + n <= NumTx,
         NEW r, r = [q EXCEPT ![m + 1] = q[m] + n],
         TxLayout(b, h, q, m, s, f),
         \A i \in TxBds :
           LET o == TxOffFrom(h, i)
           IN  /\ "SOP" \in c[i].flags <=> "SOP" \in b[i].flags \/ o = q[m]
               /\ "EOP" \in c[i].flags <=> "EOP" \in b[i].flags \/ o = q[m] + n - 1
               /\ "OWNER" \in c[i].flags <=> "OWNER" \in b[i].flags \/ o = q[m]
               /\ o = q[m] + n - 1 => c[i].packet = TxPlus(f, m + 1)
               /\ o < q[m] => c[i].packet = b[i].packet
  PROVE  TxLayout(c, h, r, m + 1, s, f)
<1> SUFFICES ASSUME NEW i \in TxBds
             PROVE  LET o == TxOffFrom(h, i)
                    IN  /\ "SOP" \in c[i].flags <=> \E k \in 0 .. m : o = r[k]
                        /\ "EOP" \in c[i].flags <=> \E k \in 1 .. m + 1 : o = r[k] - 1
                        /\ "OWNER" \in c[i].flags <=> \E k \in s .. m : o = r[k]
                        /\ \A k \in 1 .. m + 1 : o = r[k] - 1 => c[i].packet = TxPlus(f, k)
  <2>1. (m + 1) - 1 = m
    BY TxSizes
  <2> QED BY <2>1 DEF TxLayout
<1> DEFINE o == TxOffFrom(h, i)
<1>1. o \in 0 .. NumTx - 1
  BY TxOffsets
<1>2. /\ r[m + 1] = q[m] + n /\ \A k \in 0 .. m : r[k] = q[k]
      /\ m + 1 \in 0 .. NumTx
  <2>1. CutMore(q, m, n, r)
    BY CutsMore
  <2> QED BY <2>1 DEF CutMore
<1>3. /\ "SOP" \in b[i].flags <=> \E k \in 0 .. m - 1 : o = q[k]
      /\ "EOP" \in b[i].flags <=> \E k \in 1 .. m : o = q[k] - 1
      /\ "OWNER" \in b[i].flags <=> \E k \in s .. m - 1 : o = q[k]
      /\ \A k \in 1 .. m : o = q[k] - 1 => b[i].packet = TxPlus(f, k)
  BY DEF TxLayout
<1>4. /\ "SOP" \in c[i].flags <=> "SOP" \in b[i].flags \/ o = q[m]
      /\ "EOP" \in c[i].flags <=> "EOP" \in b[i].flags \/ o = q[m] + n - 1
      /\ "OWNER" \in c[i].flags <=> "OWNER" \in b[i].flags \/ o = q[m]
      /\ o = q[m] + n - 1 => c[i].packet = TxPlus(f, m + 1)
      /\ o < q[m] => c[i].packet = b[i].packet
  OBVIOUS
<1> HIDE DEF o
<1>5. /\ \A k \in 0 .. m : k \in 0 .. m - 1 \/ k = m
      /\ \A k \in s .. m : k \in s .. m - 1 \/ k = m
      /\ \A k \in 1 .. m + 1 : k \in 1 .. m \/ k = m + 1
      /\ \A k \in 0 .. m - 1 : k \in 0 .. m
      /\ \A k \in s .. m - 1 : k \in 0 .. m /\ k \in s .. m
      /\ \A k \in 1 .. m : k \in 0 .. m /\ k \in 1 .. m + 1
      /\ m \in 0 .. m /\ m \in s .. m /\ m + 1 \in 1 .. m + 1
  <2>1. m \in Int /\ s \in Int /\ 0 <= s /\ s <= m
    BY TxSizes
  <2> QED BY <2>1
<1>6. "SOP" \in c[i].flags <=> \E k \in 0 .. m : o = r[k]
  BY <1>2, <1>3, <1>4, <1>5
<1>7. "OWNER" \in c[i].flags <=> \E k \in s .. m : o = r[k]
  BY <1>2, <1>3, <1>4, <1>5
<1>8. "EOP" \in c[i].flags <=> \E k \in 1 .. m + 1 : o = r[k] - 1
  BY <1>2, <1>3, <1>4, <1>5
<1>9. ASSUME NEW k \in 1 .. m + 1, o = r[k] - 1
      PROVE  c[i].packet = TxPlus(f, k)
  <2>1. CASE k = m + 1
    BY <1>2, <1>4, <1>9, <2>1
  <2>2. CASE k \in 1 .. m
    <3>1. k \in 0 .. m /\ q[k] <= q[m] /\ q[k] \in 0 .. NumTx /\ q[m] \in 0 .. NumTx
      BY <1>5, <2>2, CutsGrow
    <3>2. o = q[k] - 1 /\ o < q[m]
      BY <1>1, <1>2, <1>9, <3>1, TxSizes
    <3> QED BY <1>3, <1>4, <2>2, <3>2
  <2> QED BY <1>5, <2>1, <2>2
<1> QED BY <1>6, <1>7, <1>8, <1>9 DEF o

\* The first packet that has not been sent is sent.
LEMMA LayoutSend ==
  ASSUME NEW h \in TxBds, NEW b, NEW c, NEW f,
         NEW m \in 0 .. NumTx, NEW q \in [0 .. NumTx -> 0 .. NumTx], Cuts(q, m),
         NEW s \in 0 .. m, s < m, TxLayout(b, h, q, m, s, f),
         \A i \in TxBds :
           /\ "SOP" \in c[i].flags <=> "SOP" \in b[i].flags
           /\ "EOP" \in c[i].flags <=> "EOP" \in b[i].flags
           /\ "OWNER" \in c[i].flags <=> "OWNER" \in b[i].flags /\ TxOffFrom(h, i) # q[s]
           /\ c[i].packet = b[i].packet
  PROVE  TxLayout(c, h, q, m, s + 1, f)
<1> SUFFICES ASSUME NEW i \in TxBds
             PROVE  "OWNER" \in c[i].flags <=> \E k \in s + 1 .. m - 1 : TxOffFrom(h, i) = q[k]
  BY DEF TxLayout
<1>1. "OWNER" \in b[i].flags <=> \E k \in s .. m - 1 : TxOffFrom(h, i) = q[k]
  BY DEF TxLayout
<1>2. ASSUME NEW k \in s .. m - 1, k # s
      PROVE  k \in s + 1 .. m - 1
  BY <1>2, TxSizes
<1>3. ASSUME NEW k \in s + 1 .. m - 1
      PROVE  k \in s .. m - 1 /\ q[k] # q[s]
  <2>1. k \in 0 .. m /\ s \in 0 .. m /\ k # s /\ k \in s .. m - 1
    BY TxSizes
  <2> QED BY <2>1, CutsGrow
<1> QED BY <1>1, <1>2, <1>3

\* The first of m packets is taken away.
CutLess(q, m, r) ==
  /\ r \in [0 .. NumTx -> 0 .. NumTx] /\ m - 1 \in 0 .. NumTx
  /\ \A k \in 0 .. m - 1 : r[k] = q[k + 1] - q[1]
  /\ Cuts(r, m - 1)

LEMMA CutsLess ==
  ASSUME NEW m \in 1 .. NumTx, NEW q \in [0 .. NumTx -> 0 .. NumTx], Cuts(q, m),
         NEW r, r = [k \in 0 .. NumTx |-> IF k < m THEN q[k + 1] - q[1] ELSE 0]
  PROVE  CutLess(q, m, r)
<1>1. m \in Int /\ m >= 1 /\ m <= NumTx /\ m \in 0 .. NumTx /\ m - 1 \in 0 .. NumTx
  BY TxSizes
<1>2. \A k \in 0 .. m - 1 : /\ k \in 0 .. NumTx /\ k < m /\ k + 1 \in 0 .. m
                            /\ k \in Int /\ 1 \in 0 .. m
  BY <1>1, TxSizes
<1>3. ASSUME NEW k \in 0 .. m - 1
      PROVE  /\ q[k + 1] \in Int /\ q[1] \in Int /\ q[1] <= q[k + 1]
             /\ q[k + 1] - q[1] \in 0 .. NumTx
  <2>1. q[k + 1] \in 0 .. NumTx /\ q[1] \in 0 .. NumTx
    BY <1>1, <1>2, CutsGrow
  <2>2. 1 <= k + 1
    BY <1>2
  <2>3. k + 1 - 1 <= q[k + 1] - q[1]
    BY <1>2, <2>2 DEF Cuts
  <2>4. k \in Int /\ k >= 0 /\ k + 1 - 1 = k
    BY <1>2
  <2>5. q[k + 1] \in Int /\ q[1] \in Int /\ 0 <= q[1] /\ q[k + 1] <= NumTx
    BY <2>1, TxSizes
  <2>6. q[1] <= q[k + 1]
    BY <2>3, <2>4, <2>5
  <2>7. PICK x \in Int, y \in Int : x = q[k + 1] /\ y = q[1]
    BY <2>5
  <2>8. 0 <= y /\ x <= NumTx /\ y <= x /\ NumTx \in Int
    BY <2>5, <2>6, <2>7, TxSizes
  <2>9. x - y \in 0 .. NumTx
    BY <2>8
  <2> QED BY <2>5, <2>6, <2>7, <2>9
<1>4. \A k \in 0 .. m - 1 : r[k] = q[k + 1] - q[1]
  BY <1>2
<1>5. r \in [0 .. NumTx -> 0 .. NumTx]
  <2>1. ASSUME NEW k \in 0 .. NumTx PROVE (IF k < m THEN q[k + 1] - q[1] ELSE 0) \in 0 .. NumTx
    <3>1. k < m => k \in 0 .. m - 1
      BY <1>1
    <3> QED BY <1>3, <3>1, TxSizes
  <2> QED BY <2>1
<1>6. r[0] = 0
  <2>1. 0 \in 0 .. m - 1 /\ 0 + 1 = 1
    BY <1>1
  <2>2. r[0] = q[1] - q[1] /\ q[1] \in Int
    BY <1>3, <1>4, <2>1
  <2> QED BY <2>2
<1>7. ASSUME NEW a \in 0 .. m - 1, NEW b \in 0 .. m - 1, a <= b
      PROVE  b - a <= r[b] - r[a]
  <2>1. a + 1 \in 0 .. m /\ b + 1 \in 0 .. m /\ a + 1 <= b + 1 /\ a \in Int /\ b \in Int
    BY <1>2, <1>7
  <2>2. (b + 1) - (a + 1) <= q[b + 1] - q[a + 1]
    BY <2>1 DEF Cuts
  <2>3. q[b + 1] \in Int /\ q[a + 1] \in Int /\ q[1] \in Int
    BY <1>3
  <2>4. r[a] = q[a + 1] - q[1] /\ r[b] = q[b + 1] - q[1]
    BY <1>4
  <2>5. r[b] - r[a] = q[b + 1] - q[a + 1] /\ b - a = (b + 1) - (a + 1)
    BY <2>1, <2>3, <2>4
  <2> QED BY <2>2, <2>5
<1> QED BY <1>1, <1>4, <1>5, <1>6, <1>7 DEF Cuts, CutLess

\* What is left when the packet that ends in l, the first, has been reaped.
LEMMA LayoutReap ==
  ASSUME NEW h \in TxBds, NEW l \in TxBds, NEW b, NEW c, NEW f \in 0 .. NumTx,
         NEW m \in 1 .. NumTx, NEW q \in [0 .. NumTx -> 0 .. NumTx], Cuts(q, m),
         NEW s \in 1 .. m, TxOffFrom(h, l) = q[1] - 1, TxLayout(b, h, q, m, s, f),
         \A i \in TxBds :
           /\ "SOP" \in c[i].flags <=> "SOP" \in b[i].flags /\ i # h
           /\ "EOP" \in c[i].flags <=> "EOP" \in b[i].flags /\ i # l
           /\ "OWNER" \in c[i].flags <=> "OWNER" \in b[i].flags
           /\ i # l => c[i].packet = b[i].packet,
         NEW r, CutLess(q, m, r)
  PROVE  TxLayout(c, TxSucc(l), r, m - 1, s - 1, TxPlus(f, 1))
<1> SUFFICES ASSUME NEW i \in TxBds
             PROVE  LET o == TxOffFrom(TxSucc(l), i)
                    IN  /\ "SOP" \in c[i].flags <=> \E k \in 0 .. m - 2 : o = r[k]
                        /\ "EOP" \in c[i].flags <=> \E k \in 1 .. m - 1 : o = r[k] - 1
                        /\ "OWNER" \in c[i].flags <=> \E k \in s - 1 .. m - 2 : o = r[k]
                        /\ \A k \in 1 .. m - 1 :
                             o = r[k] - 1 => c[i].packet = TxPlus(TxPlus(f, 1), k)
  <2>1. (m - 1) - 1 = m - 2
    BY TxSizes
  <2> QED BY <2>1 DEF TxLayout
<1> DEFINE o == TxOffFrom(TxSucc(l), i)
           was == TxOffFrom(h, i)
<1>1. was \in 0 .. NumTx - 1 /\ (was = 0 <=> i = h) /\ (was = q[1] - 1 <=> i = l)
  <2>1. was \in 0 .. NumTx - 1 /\ (was = 0 <=> i = h)
    BY TxOffsets
  <2>2. was = TxOffFrom(h, l) <=> i = l
    BY TxSamePlace
  <2> QED BY <2>1, <2>2
<1>2. /\ m \in Int /\ s \in Int /\ 1 <= s /\ s <= m /\ m <= NumTx /\ m \in 0 .. NumTx
      /\ 1 \in 0 .. m /\ NumTx \in Int
  BY TxSizes
<1>3. o = IF was < q[1] THEN was + NumTx - q[1] ELSE was - q[1]
  <2>1. q[1] \in 0 .. NumTx
    BY <1>2, CutsGrow
  <2>2. o = IF was <= q[1] - 1 THEN was + NumTx - ((q[1] - 1) + 1)
                               ELSE was - ((q[1] - 1) + 1)
    BY TxRebase
  <2> HIDE DEF o, was
  <2>3. q[1] \in Int /\ was \in Int /\ NumTx \in Int
    BY <1>1, <1>2, <2>1
  <2>4. PICK x \in Int, w \in Int : x = q[1] /\ w = was
    BY <2>3
  <2>5. (x - 1) + 1 = x /\ (w <= x - 1 <=> w < x)
    OBVIOUS
  <2> QED BY <2>2, <2>4, <2>5
<1>4. /\ "SOP" \in b[i].flags <=> \E k \in 0 .. m - 1 : was = q[k]
      /\ "EOP" \in b[i].flags <=> \E k \in 1 .. m : was = q[k] - 1
      /\ "OWNER" \in b[i].flags <=> \E k \in s .. m - 1 : was = q[k]
      /\ \A k \in 1 .. m : was = q[k] - 1 => b[i].packet = TxPlus(f, k)
  BY DEF TxLayout
<1> HIDE DEF o, was
<1>5. \A k \in 0 .. m - 1 : /\ k + 1 \in 0 .. m /\ q[k + 1] \in Int /\ q[1] \in Int
                            /\ q[1] <= q[k + 1] /\ q[k + 1] <= NumTx /\ 0 <= q[1]
                            /\ r[k] = q[k + 1] - q[1] /\ k \in Int
  <2> SUFFICES ASSUME NEW k \in 0 .. m - 1
               PROVE  /\ k + 1 \in 0 .. m /\ q[k + 1] \in Int /\ q[1] \in Int
                      /\ q[1] <= q[k + 1] /\ q[k + 1] <= NumTx /\ 0 <= q[1]
                      /\ r[k] = q[k + 1] - q[1] /\ k \in Int
    OBVIOUS
  <2>1. k + 1 \in 0 .. m /\ k \in Int /\ (k = 0 \/ 1 < k + 1)
    BY <1>2
  <2>2. q[k + 1] \in 0 .. NumTx /\ q[1] \in 0 .. NumTx
    BY <1>2, <2>1, CutsGrow
  <2>3. 1 < k + 1 => q[1] < q[k + 1]
    BY <1>2, <2>1, CutsGrow
  <2>4. k = 0 => q[1] <= q[k + 1]
    BY <2>2
  <2>5. q[1] <= q[k + 1]
    BY <2>1, <2>2, <2>3, <2>4
  <2> QED BY <2>1, <2>2, <2>5 DEF CutLess
<1>6. ASSUME NEW k \in 0 .. m - 2
      PROVE  o = r[k] <=> was = q[k + 1]
  <2>0. k \in Int /\ 0 <= k /\ k <= m - 2
    BY <1>2
  <2>1. k \in 0 .. m - 1 /\ k + 1 \in 0 .. m /\ m \in 0 .. m /\ k + 1 < m
    BY <1>2, <2>0
  <2>2. q[k + 1] < q[m] /\ q[m] \in 0 .. NumTx
    BY <1>2, <2>1, CutsGrow
  <2>3. q[k + 1] < NumTx
    BY <1>2, <1>5, <2>1, <2>2
  <2>4. was \in Int /\ 0 <= was /\ NumTx \in Int
    BY <1>1, <1>2
  <2>5. /\ q[k + 1] \in Int /\ q[1] \in Int /\ q[1] <= q[k + 1]
        /\ r[k] = q[k + 1] - q[1]
    BY <1>5, <2>1
  <2>6. PICK w \in Int, x \in Int, z \in Int : w = was /\ x = q[1] /\ z = q[k + 1]
    BY <2>4, <2>5
  <2>7. o = IF w < x THEN w + NumTx - x ELSE w - x
    BY <1>3, <2>6
  <2>8. x <= z /\ z < NumTx /\ 0 <= w /\ NumTx \in Int
    BY <2>3, <2>4, <2>5, <2>6
  <2>9. o = z - x <=> w = z
    BY <2>7, <2>8, SMTT(30)
  <2> QED BY <2>5, <2>6, <2>9
<1>7. ASSUME NEW k \in 1 .. m - 1
      PROVE  o = r[k] - 1 <=> was = q[k + 1] - 1
  <2>1. k \in 0 .. m - 1 /\ k + 1 \in 0 .. m /\ 1 < k + 1
    BY <1>2
  <2>2. q[1] < q[k + 1]
    BY <1>2, <2>1, CutsGrow
  <2>4. was \in Int /\ 0 <= was /\ NumTx \in Int
    BY <1>1, <1>2
  <2>5. /\ q[k + 1] \in Int /\ q[1] \in Int /\ q[k + 1] <= NumTx
        /\ r[k] = q[k + 1] - q[1]
    BY <1>5, <2>1
  <2>6. PICK w \in Int, x \in Int, z \in Int : w = was /\ x = q[1] /\ z = q[k + 1]
    BY <2>4, <2>5
  <2>7. o = IF w < x THEN w + NumTx - x ELSE w - x
    BY <1>3, <2>6
  <2>8. x < z /\ z <= NumTx /\ 0 <= w /\ NumTx \in Int
    BY <2>2, <2>4, <2>5, <2>6
  <2>9. o = (z - x) - 1 <=> w = z - 1
    BY <2>7, <2>8, SMTT(30)
  <2> QED BY <2>5, <2>6, <2>9
<1>8. /\ \A k \in 0 .. m - 2 : k + 1 \in 0 .. m - 1 /\ k + 1 # 0 /\ k + 1 \in 0 .. m
      /\ \A k \in s - 1 .. m - 2 : k + 1 \in s .. m - 1 /\ k \in 0 .. m - 2
      /\ \A k \in 1 .. m - 1 : k + 1 \in 1 .. m /\ k + 1 # 1 /\ k + 1 \in 0 .. m
  <2>1. m \in Int /\ s \in Int /\ 1 <= s /\ s <= m
    BY <1>2
  <2>2. \A k \in 0 .. m - 2 : k + 1 \in 0 .. m - 1 /\ k + 1 # 0 /\ k + 1 \in 0 .. m
    BY <2>1
  <2>3. \A k \in s - 1 .. m - 2 : k + 1 \in s .. m - 1 /\ k \in 0 .. m - 2
    BY <2>1
  <2>4. \A k \in 1 .. m - 1 : k + 1 \in 1 .. m /\ k + 1 # 1 /\ k + 1 \in 0 .. m
    BY <2>1
  <2> QED BY <2>2, <2>3, <2>4
<1>9. /\ \A k \in 0 .. m - 1 : k = 0 \/ \E j \in 0 .. m - 2 : k = j + 1
      /\ \A k \in s .. m - 1 : \E j \in s - 1 .. m - 2 : k = j + 1
      /\ \A k \in 1 .. m : k = 1 \/ \E j \in 1 .. m - 1 : k = j + 1
  <2>1. \A k \in 0 .. m - 1 : k = 0 \/ (k - 1 \in 0 .. m - 2 /\ k = (k - 1) + 1)
    BY <1>2
  <2>2. \A k \in s .. m - 1 : k - 1 \in s - 1 .. m - 2 /\ k = (k - 1) + 1
    BY <1>2
  <2>3. \A k \in 1 .. m : k = 1 \/ (k - 1 \in 1 .. m - 1 /\ k = (k - 1) + 1)
    BY <1>2
  <2> QED BY <2>1, <2>2, <2>3
<1>10. q[0] = 0 /\ 0 \in 0 .. m /\ \A k \in 0 .. m : \A j \in 0 .. m : q[k] = q[j] => k = j
  <2>1. \A k, j \in 0 .. m : q[k] = q[j] => k = j
    BY <1>2, CutsGrow
  <2> QED BY <1>2, <2>1 DEF Cuts
<1>11. "SOP" \in c[i].flags <=> \E k \in 0 .. m - 2 : o = r[k]
  <2>1. "SOP" \in c[i].flags <=> "SOP" \in b[i].flags /\ i # h
    OBVIOUS
  <2>2. ASSUME NEW k \in 0 .. m - 2, was = q[k + 1] PROVE i # h
    <3>1. q[k + 1] # q[0]
      BY <1>8, <1>10
    <3> QED BY <1>1, <1>10, <2>2, <3>1
  <2>3. (\E k \in 0 .. m - 1 : was = q[k]) /\ i # h => \E k \in 0 .. m - 2 : was = q[k + 1]
    BY <1>1, <1>9, <1>10
  <2> QED BY <1>4, <1>6, <1>8, <2>1, <2>2, <2>3
<1>12. "EOP" \in c[i].flags <=> \E k \in 1 .. m - 1 : o = r[k] - 1
  <2>1. "EOP" \in c[i].flags <=> "EOP" \in b[i].flags /\ i # l
    OBVIOUS
  <2>2. ASSUME NEW k \in 1 .. m - 1, was = q[k + 1] - 1 PROVE i # l
    <3>1. q[k + 1] # q[1] /\ k \in 0 .. m - 1
      BY <1>2, <1>8, <1>10
    <3>2. q[k + 1] \in Int /\ q[1] \in Int
      BY <1>5, <3>1
    <3> QED BY <1>1, <2>2, <3>1, <3>2
  <2>3. (\E k \in 1 .. m : was = q[k] - 1) /\ i # l => \E k \in 1 .. m - 1 : was = q[k + 1] - 1
    BY <1>1, <1>9
  <2> QED BY <1>4, <1>7, <1>8, <2>1, <2>2, <2>3
<1>13. "OWNER" \in c[i].flags <=> \E k \in s - 1 .. m - 2 : o = r[k]
  <2>1. "OWNER" \in c[i].flags <=> "OWNER" \in b[i].flags
    OBVIOUS
  <2>2. (\E k \in s .. m - 1 : was = q[k]) <=> \E k \in s - 1 .. m - 2 : was = q[k + 1]
    BY <1>8, <1>9
  <2> QED BY <1>4, <1>6, <1>8, <2>1, <2>2
<1>14. ASSUME NEW k \in 1 .. m - 1, o = r[k] - 1
       PROVE  c[i].packet = TxPlus(TxPlus(f, 1), k)
  <2>1. was = q[k + 1] - 1 /\ k + 1 \in 1 .. m /\ k + 1 # 1
    BY <1>7, <1>8, <1>14
  <2>2. b[i].packet = TxPlus(f, k + 1)
    BY <1>4, <2>1
  <2>3. i # l
    <3>1. q[k + 1] # q[1] /\ k \in 0 .. m - 1
      BY <1>2, <1>8, <1>10
    <3>2. q[k + 1] \in Int /\ q[1] \in Int
      BY <1>5, <3>1
    <3> QED BY <1>1, <2>1, <3>1, <3>2
  <2>4. TxPlus(TxPlus(f, 1), k) = TxPlus(f, k + 1)
    <3>1. k + 1 \in 0 .. NumTx /\ k + 1 > 0 /\ (k + 1) - 1 = k
      BY <1>2
    <3>2. TxPlus(TxPlus(f, 1), (k + 1) - 1) = TxPlus(f, k + 1)
      BY <3>1, TxCounting
    <3> QED BY <3>1, <3>2
  <2> QED BY <2>2, <2>3, <2>4
<1> QED BY <1>11, <1>12, <1>13, <1>14 DEF o


\* The engine sends a packet.
LEMMA RingSendPacket ==
  ASSUME TxTypes, TxInd, SendPacket
  PROVE  TxInd' /\ TxMoves
<1>1. PICK q, m, s : TxRing(q, m, s)
  BY DEF TxInd
<1>2. PICK hdp : hdp = tdma.hdp
  OBVIOUS
<1>3. PICK p \in Packet(hdp) :
        LET end  == Last(p)
            next == txbd[end].next
            sent == [txbd EXCEPT ![hdp].flags = @ \ {"OWNER"}]
        IN  /\ txbd' = IF next = NULL
                         THEN [sent EXCEPT ![end].flags = @ \cup {"EOQ"}] ELSE sent
            /\ tdma' = [hdp |-> next, done |-> end, irq |-> TRUE,
                        packet |-> txbd[end].packet]
  BY <1>2 DEF SendPacket
<1>4. PICK end : end = Last(p)
  OBVIOUS
<1>5. PICK h : h = txch.send_head
  OBVIOUS
<1>6. /\ q \in [0 .. NumTx -> 0 .. NumTx] /\ m \in 0 .. NumTx /\ s \in 0 .. m
      /\ q[m] = TxUsed /\ Cuts(q, m) /\ TxLayout(txbd, h, q, m, s, tx.freed)
      /\ TxEngine(q, m, s) /\ TxCheck(q, m, s) /\ TxChain
  BY <1>1, <1>5 DEF TxRing, TxInd
<1>7. hdp # NULL /\ s < m /\ TxOffFrom(h, hdp) = q[s] /\ UNCHANGED <<txch, tx>> /\ h \in TxBds
  BY <1>2, <1>5, <1>6 DEF SendPacket, TxEngine, TxChain
<1>8. /\ m \in Int /\ s \in Int /\ 0 <= s /\ s \in 0 .. m - 1 /\ s + 1 \in 0 .. m
      /\ s + 1 \in 1 .. m /\ m \in 0 .. m /\ NumTx \in Int
  BY <1>6, <1>7, TxSizes
<1>9. /\ end \in TxBds /\ TxOffFrom(h, end) = q[s + 1] - 1
      /\ txbd[end].packet = TxPlus(tx.freed, s + 1)
      /\ hdp \in TxBds
  <2>1. TxChain /\ TxOffFrom(txch.send_head, hdp) = q[s]
    BY <1>5, <1>6, <1>7
  <2>2. Last(p) \in TxBds /\ TxOffFrom(txch.send_head, Last(p)) = q[s + 1] - 1
    BY <1>1, <1>8, <2>1, PacketSpans
  <2>3. txbd[Last(p)].packet = TxPlus(tx.freed, s + 1)
    BY <1>1, <1>8, <2>1, PacketSpans
  <2> QED BY <1>4, <1>5, <2>2, <2>3, PacketFacts
<1>10. /\ TxUsed > 0 /\ TxTail \in TxBds /\ TxTail # NULL
       /\ \A i \in TxBds : i = TxTail <=> TxOffFrom(h, i) = TxUsed - 1
  <2>1. m <= q[m] /\ q[m] \in 0 .. NumTx
    BY <1>6, <1>8, CutsGrow
  <2>2. TxUsed > 0
    BY <1>6, <1>7, <1>8, <2>1
  <2>3. TxTail \in TxBds /\ \A i \in TxBds : i = TxTail <=> TxOffFrom(h, i) = TxUsed - 1
    BY <1>5, <1>6, <2>2, TailLast
  <2> QED BY <2>2, <2>3, TxSizes DEF TxBds, NULL
<1>11. end = TxTail <=> s + 1 = m
  <2>1. q[s + 1] \in 0 .. NumTx /\ q[m] \in 0 .. NumTx /\ (q[s + 1] = q[m] => s + 1 = m)
    BY <1>6, <1>8, CutsGrow
  <2>2. end = TxTail <=> TxOffFrom(h, end) = TxUsed - 1
    BY <1>9, <1>10
  <2>3. PICK x \in Int, y \in Int : x = q[s + 1] /\ y = q[m]
    BY <2>1
  <2>4. x - 1 = y - 1 <=> x = y
    OBVIOUS
  <2> QED BY <1>6, <1>9, <2>1, <2>2, <2>3, <2>4
<1>12. txbd[end].next = IF end = TxTail THEN NULL ELSE TxSucc(end)
  BY <1>6, <1>9 DEF TxChain
<1>13. /\ TxSucc(end) \in TxBds /\ TxSucc(end) # NULL
       /\ end # TxTail => TxOffFrom(h, TxSucc(end)) = q[s + 1] /\ s + 1 < m
  <2>1. TxSucc(end) \in TxBds
    BY <1>9, TxOffsets
  <2>2. ASSUME end # TxTail PROVE TxOffFrom(h, TxSucc(end)) = q[s + 1] /\ s + 1 < m
    <3>1. s + 1 < m
      BY <1>8, <1>11, <2>2
    <3>2. q[s + 1] < q[m] /\ q[s + 1] \in 0 .. NumTx /\ q[m] \in 0 .. NumTx
      BY <1>6, <1>8, <3>1, CutsGrow
    <3>3. PICK x \in Int : x = q[s + 1]
      BY <3>2
    <3>4. x < NumTx
      BY <3>2, <3>3, <1>8
    <3>5. x - 1 # NumTx - 1 /\ (x - 1) + 1 = x
      BY <3>4, <1>8
    <3>6. TxOffFrom(h, end) # NumTx - 1
      BY <1>9, <3>3, <3>5
    <3>7. TxOffFrom(h, TxSucc(end)) = TxOffFrom(h, end) + 1
      BY <1>7, <1>9, <3>6, TxOffsets
    <3> QED BY <1>9, <3>1, <3>3, <3>5, <3>7
  <2> QED BY <2>1, <2>2, TxSizes DEF TxBds, NULL
<1>14. DOMAIN txbd = TxBds /\ \A i \in TxBds : txbd[i] \in TxBdTypes
  BY DEF TxTypes
<1>15. ASSUME NEW i \in TxBds
       PROVE  /\ txbd'[i].next = txbd[i].next /\ txbd'[i].packet = txbd[i].packet
              /\ "SOP" \in txbd'[i].flags <=> "SOP" \in txbd[i].flags
              /\ "EOP" \in txbd'[i].flags <=> "EOP" \in txbd[i].flags
              /\ "OWNER" \in txbd'[i].flags <=> "OWNER" \in txbd[i].flags /\ i # hdp
              /\ "EOQ" \in txbd'[i].flags <=>
                   "EOQ" \in txbd[i].flags \/ (i = end /\ end = TxTail)
  <2> DEFINE sent == [txbd EXCEPT ![hdp].flags = @ \ {"OWNER"}]
  <2>1. DOMAIN sent = TxBds
    BY <1>14
  <2>2. /\ sent[i].next = txbd[i].next /\ sent[i].packet = txbd[i].packet
        /\ sent[i].flags = IF i = hdp THEN txbd[i].flags \ {"OWNER"} ELSE txbd[i].flags
    BY <1>9, <1>14 DEF TxBdTypes
  <2>3. sent[i] \in TxBdTypes
    BY <1>9, <1>14 DEF TxBdTypes
  <2>4. txbd' = IF end = TxTail THEN [sent EXCEPT ![end].flags = @ \cup {"EOQ"}] ELSE sent
    BY <1>3, <1>4, <1>12, <1>13
  <2> HIDE DEF sent
  <2>5. /\ txbd'[i].next = sent[i].next /\ txbd'[i].packet = sent[i].packet
        /\ txbd'[i].flags = IF i = end /\ end = TxTail THEN sent[i].flags \cup {"EOQ"}
                                                       ELSE sent[i].flags
    BY <2>1, <2>3, <2>4, <1>9 DEF TxBdTypes
  <2> QED BY <2>2, <2>5
<1>16. /\ tdma'.hdp = txbd[end].next /\ tdma'.done = end /\ tdma'.irq
       /\ tdma'.packet = txbd[end].packet
  BY <1>3, <1>4
<1>17. TxTail' = TxTail /\ TxUsed' = TxUsed
  BY <1>7 DEF TxTail, TxUsed
<1>18. TxChain'
  <2>1. \A i \in TxBds : txbd'[i].next = txbd[i].next
    BY <1>15
  <2> QED BY <1>6, <1>7, <1>17, <2>1 DEF TxChain
<1>19. TxLayout(txbd', h, q, m, s + 1, tx.freed)
  <2>1. ASSUME NEW i \in TxBds PROVE i # hdp <=> TxOffFrom(h, i) # q[s]
    BY <1>7, <1>9, TxSamePlace
  <2> QED BY <1>6, <1>7, <1>15, <2>1, LayoutSend
<1>20. TxEngine(q, m, s + 1)'
  <2>1. ("EOQ" \in txbd[TxTail].flags <=> s = m) /\ s # m
    BY <1>6, <1>7, <1>8, <1>10 DEF TxEngine
  <2>2. "EOQ" \in txbd'[TxTail].flags <=> s + 1 = m
    BY <1>10, <1>11, <1>15, <2>1
  <2>3. tdma'.hdp # NULL => s + 1 < m /\ TxOffFrom(h, tdma'.hdp) = q[s + 1]
    BY <1>12, <1>13, <1>16
  <2>4. tdma'.hdp = NULL => s + 1 = m
    BY <1>11, <1>12, <1>13, <1>16
  <2>5. s + 1 > 0
    BY <1>8
  <2>6. tx'.queued = TxPlus(tx'.freed, m) /\ tx' = tx /\ txch' = txch
    BY <1>6, <1>7 DEF TxEngine
  <2> QED BY <1>5, <1>9, <1>16, <1>17, <2>2, <2>3, <2>4, <2>5, <2>6 DEF TxEngine
<1>21. TxCheck(q, m, s + 1)'
  <2> SUFFICES ASSUME tx.at = "check"
               PROVE  "EOQ" \notin txbd'[txch.send_tail].flags
    BY <1>6, <1>7 DEF TxCheck
  <2>1. /\ "EOQ" \notin txbd[txch.send_tail].flags
        /\ txch.send_tail \in TxBds /\ txch.send_tail # TxTail
    BY <1>2, <1>6, <1>7 DEF TxCheck, TxTail
  <2> QED BY <1>15, <2>1
<1>22. TxRing(q, m, s + 1)'
  BY <1>5, <1>6, <1>7, <1>8, <1>17, <1>19, <1>20, <1>21 DEF TxRing
<1>23. TxMoves
  <2>1. tdma.packet = TxPlus(tx.freed, s) /\ tdma'.packet = TxPlus(tx.freed, s + 1)
    BY <1>6, <1>9, <1>16 DEF TxEngine
  <2>2. tx.freed \in 0 .. NumTx /\ s \in 0 .. NumTx /\ s < NumTx
    BY <1>6, <1>7, <1>8 DEF TxTypes
  <2> QED BY <1>7, <2>1, <2>2, TxCounting DEF TxMoves
<1> QED BY <1>18, <1>22, <1>23 DEF TxInd

\* How far a descriptor is from the head after the packet that ends in l is taken
\* away, x descriptors.
LEMMA TxRebased ==
  ASSUME NEW h \in TxBds, NEW l \in TxBds, NEW i \in TxBds, NEW x \in Int,
         TxOffFrom(h, l) = x - 1
  PROVE  TxOffFrom(TxSucc(l), i) = IF TxOffFrom(h, i) < x THEN TxOffFrom(h, i) + NumTx - x
                                                        ELSE TxOffFrom(h, i) - x
<1>1. TxOffFrom(h, i) \in 0 .. NumTx - 1
  BY TxOffsets
<1>2. PICK w \in Int : w = TxOffFrom(h, i)
  BY <1>1
<1>3. (x - 1) + 1 = x /\ (w <= x - 1 <=> w < x)
  OBVIOUS
<1>4. TxOffFrom(TxSucc(l), i) = IF TxOffFrom(h, i) <= x - 1
        THEN TxOffFrom(h, i) + NumTx - ((x - 1) + 1) ELSE TxOffFrom(h, i) - ((x - 1) + 1)
  BY TxRebase
<1> QED BY <1>2, <1>3, <1>4

LEMMA RingReapPacket ==
  ASSUME TxTypes, TxInd, ReapPacket
  PROVE  TxInd' /\ TxMoves
<1>1. PICK q, m, s : TxRing(q, m, s)
  BY DEF TxInd
<1>2. PICK h : h = txch.send_head
  OBVIOUS
<1>3. PICK p \in Packet(h) :
        LET end  == Last(p)
            next == txbd[end].next
            seen == [txbd EXCEPT ![h].flags = @ \ {"SOP"}]
        IN  /\ txbd' = [seen EXCEPT ![end] = Reaped(@)]
            /\ txch' = [txch EXCEPT !.free_num = @ + Len(p),
                                    !.send_head = IF next = NULL THEN txch.free_head ELSE next]
            /\ tdma' = [tdma EXCEPT !.irq = @ /\ tdma.done # end]
            /\ tx' = [tx EXCEPT !.freed = txbd[end].packet]
  BY <1>2 DEF ReapPacket
<1>4. PICK l : l = Last(p)
  OBVIOUS
<1>5. PICK f : f = tx.freed
  OBVIOUS
<1>6. /\ q \in [0 .. NumTx -> 0 .. NumTx] /\ m \in 0 .. NumTx /\ s \in 0 .. m
      /\ q[m] = TxUsed /\ Cuts(q, m) /\ TxLayout(txbd, h, q, m, s, f)
      /\ TxEngine(q, m, s) /\ TxChain /\ h \in TxBds /\ q[0] = 0
  BY <1>1, <1>2, <1>5 DEF TxRing, TxInd, TxChain, Cuts
<1>7. /\ tx.at = "reap" /\ "SOP" \in txbd[h].flags /\ "OWNER" \notin txbd[h].flags
      /\ f \in 0 .. NumTx
  BY <1>2, <1>5 DEF ReapPacket, TxTypes
<1>8. m > 0 /\ s > 0
  <2>1. TxOffFrom(h, h) = q[0] /\ q[0] = 0
    BY <1>6, TxOffsets
  <2>2. PICK k \in 0 .. m - 1 : TxOffFrom(h, h) = q[k]
    BY <1>6, <1>7 DEF TxLayout
  <2>3. m > 0
    BY <1>6, <2>2, TxSizes
  <2>4. s = 0 => 0 \in s .. m - 1
    BY <1>6, <2>3, TxSizes
  <2>5. s # 0
    BY <1>6, <1>7, <2>1, <2>4 DEF TxLayout
  <2> QED BY <1>6, <2>3, <2>5, TxSizes
<1>9. /\ m \in Int /\ s \in Int /\ 1 <= s /\ s <= m /\ m \in 1 .. NumTx /\ s \in 1 .. m
      /\ 0 \in 0 .. m - 1 /\ 0 + 1 = 1 /\ 1 \in 0 .. m /\ m \in 0 .. m /\ s \in 0 .. m
      /\ 0 \in 0 .. m /\ NumTx \in Int
      /\ s - 1 \in 0 .. m - 1 /\ m - 1 \in 0 .. m - 1 /\ (s - 1) + 1 = s /\ (m - 1) + 1 = m
  BY <1>6, <1>8, TxSizes
<1>10. /\ q[1] \in 0 .. NumTx /\ q[s] \in 0 .. NumTx /\ q[m] \in 0 .. NumTx
       /\ 1 <= q[1] /\ q[1] <= q[s] /\ q[1] <= q[m] /\ q[s] <= q[m]
       /\ q[1] = q[s] <=> s = 1
  <2>1. q[1] \in 0 .. NumTx /\ q[s] \in 0 .. NumTx /\ q[m] \in 0 .. NumTx
    BY <1>6, <1>9, CutsGrow
  <2>2. 1 <= q[1] /\ q[1] <= q[m] /\ q[s] <= q[m]
    BY <1>6, <1>9, CutsGrow
  <2>3. q[1] = q[s] <=> s = 1
    BY <1>6, <1>9, CutsGrow
  <2>4. 1 < s => q[1] < q[s]
    BY <1>6, <1>9, CutsGrow
  <2>5. 1 = s \/ 1 < s
    BY <1>9
  <2>6. q[1] <= q[s]
    BY <2>1, <2>4, <2>5
  <2> QED BY <2>1, <2>2, <2>3, <2>6
<1>11. PICK x \in Int, y \in Int, z \in Int : x = q[1] /\ y = q[s] /\ z = q[m]
  BY <1>10
<1>12. /\ 1 <= x /\ x <= y /\ x <= z /\ y <= z /\ z <= NumTx /\ (x = y <=> s = 1)
  BY <1>10, <1>11
<1>13. /\ l \in TxBds /\ TxOffFrom(h, l) = x - 1 /\ Len(p) = x
       /\ txbd[l].packet = TxPlus(f, 1)
  <2>1. TxOffFrom(txch.send_head, h) = q[0]
    BY <1>2, <1>6, TxOffsets
  <2> PICK j \in 0 .. m - 1 : j = 0
    BY <1>9
  <2>5. TxOffFrom(txch.send_head, h) = q[j] /\ TxChain
    BY <1>6, <2>1
  <2>6. Len(p) = q[j + 1] - q[j] /\ Last(p) \in TxBds
    BY <1>1, <2>5, PacketSpans
  <2>7. /\ TxOffFrom(txch.send_head, Last(p)) = q[j + 1] - 1
        /\ txbd[Last(p)].packet = TxPlus(tx.freed, j + 1)
    BY <1>1, <2>5, PacketSpans
  <2>2. /\ Len(p) = q[j + 1] - q[j] /\ Last(p) \in TxBds
        /\ TxOffFrom(txch.send_head, Last(p)) = q[j + 1] - 1
        /\ txbd[Last(p)].packet = TxPlus(tx.freed, j + 1)
    BY <2>6, <2>7
  <2>3. j + 1 = 1
    BY <1>9
  <2>4. Len(p) = x - 0 /\ x - 0 = x
    BY <1>6, <1>11, <2>2, <2>3
  <2> QED BY <1>2, <1>4, <1>5, <1>11, <2>2, <2>3, <2>4
<1>14. TxTail \in TxBds /\ TxTail # NULL /\ txch.free_head = TxSucc(TxTail)
  <2>1. TxUsed > 0
    BY <1>6, <1>11, <1>12
  <2>2. TxTail \in TxBds
    BY <1>6, <2>1, TailLast
  <2> QED BY <1>6, <2>2, TxSizes DEF TxBds, NULL, TxChain
<1>15. PICK g : g = TxSucc(l)
  OBVIOUS
<1>16. g \in TxBds /\ g # NULL
  BY <1>13, <1>15, TxOffsets, TxSizes DEF TxBds, NULL
<1>17. /\ txch'.send_head = g /\ txch'.free_head = txch.free_head
       /\ txch'.send_tail = txch.send_tail /\ txch'.free_num = txch.free_num + x
  <2>1. txbd[l].next = IF l = TxTail THEN NULL ELSE TxSucc(l)
    BY <1>6, <1>13 DEF TxChain
  <2>2. (IF txbd[l].next = NULL THEN txch.free_head ELSE txbd[l].next) = g
    BY <1>14, <1>15, <1>16, <2>1
  <2>3. txch' = [txch EXCEPT !.free_num = @ + x, !.send_head = g]
    BY <1>3, <1>4, <1>13, <2>2
  <2> QED BY <2>3 DEF TxTypes
<1>18. /\ tdma'.hdp = tdma.hdp /\ tdma'.done = tdma.done /\ tdma'.packet = tdma.packet
       /\ tdma'.irq <=> tdma.irq /\ tdma.done # l
  BY <1>3, <1>4 DEF TxTypes
<1>19. tx'.at = "reap" /\ tx'.end = tx.end /\ tx'.queued = tx.queued /\ tx'.freed = TxPlus(f, 1)
  BY <1>3, <1>4, <1>7, <1>13 DEF TxTypes
<1>20. TxTail' = TxTail /\ TxUsed' = z - x
  <2>1. TxUsed' = NumTx - (txch.free_num + x) /\ txch.free_num \in Int
    BY <1>17 DEF TxUsed, TxTypes
  <2>2. NumTx - txch.free_num = z
    BY <1>6, <1>11 DEF TxUsed
  <2>3. NumTx - (txch.free_num + x) = (NumTx - txch.free_num) - x
    BY <1>9, <2>1
  <2> QED BY <1>7, <1>17, <1>19, <2>1, <2>2, <2>3 DEF TxTail
<1>21. ASSUME NEW i \in TxBds
       PROVE  /\ txbd'[i].next = txbd[i].next
              /\ "SOP" \in txbd'[i].flags <=> "SOP" \in txbd[i].flags /\ i # h
              /\ "EOP" \in txbd'[i].flags <=> "EOP" \in txbd[i].flags /\ i # l
              /\ "OWNER" \in txbd'[i].flags <=> "OWNER" \in txbd[i].flags
              /\ "EOQ" \in txbd'[i].flags <=> "EOQ" \in txbd[i].flags
              /\ i # l => txbd'[i].packet = txbd[i].packet
  <2> DEFINE seen == [txbd EXCEPT ![h].flags = @ \ {"SOP"}]
  <2>1. txbd[i] \in TxBdTypes /\ DOMAIN txbd = TxBds
    BY DEF TxTypes
  <2>2. /\ DOMAIN seen = TxBds
        /\ seen[i].next = txbd[i].next /\ seen[i].packet = txbd[i].packet
        /\ seen[i].flags = IF i = h THEN txbd[i].flags \ {"SOP"} ELSE txbd[i].flags
    BY <1>6, <2>1 DEF TxBdTypes
  <2>3. seen[i] \in TxBdTypes
    BY <1>6, <2>1 DEF TxBdTypes
  <2>4. txbd' = [seen EXCEPT ![l] = Reaped(@)]
    BY <1>3, <1>4
  <2> HIDE DEF seen
  <2>5. /\ i = l => txbd'[i] = Reaped(seen[i])
        /\ i # l => txbd'[i] = seen[i]
    BY <1>13, <2>2, <2>4
  <2>6. Reaped(seen[i]).next = seen[i].next /\ Reaped(seen[i]).flags = seen[i].flags \ {"EOP"}
    BY <2>3 DEF Reaped, TxBdTypes
  <2> QED BY <2>2, <2>5, <2>6
<1>22. ASSUME NEW i \in TxBds
       PROVE  TxOffFrom(g, i) = IF TxOffFrom(h, i) < x THEN TxOffFrom(h, i) + NumTx - x
                                                       ELSE TxOffFrom(h, i) - x
  BY <1>6, <1>13, <1>15, TxRebased
<1>23. TxChain'
  <2>1. \A i \in TxBds : txbd'[i].next = txbd[i].next
    BY <1>21
  <2>2. z - x \in 0 .. NumTx /\ z - x # NumTx
    BY <1>9, <1>12
  <2>3. txch.free_head \in TxBds
    BY <1>6 DEF TxChain
  <2>4. TxOffFrom(g, txch.free_head) = z - x
    <3>1. CASE z = NumTx
      <4>1. TxOffFrom(h, txch.free_head) = 0
        BY <1>2, <1>6, <1>11, <3>1, TxOffsets DEF TxChain
      <4> QED BY <1>9, <1>12, <1>22, <2>3, <3>1, <4>1
    <3>2. CASE z # NumTx
      <4>1. TxOffFrom(h, txch.free_head) = z
        BY <1>2, <1>6, <1>9, <1>11, <1>12, <3>2 DEF TxChain
      <4> QED BY <1>9, <1>12, <1>22, <2>3, <4>1
    <3> QED BY <3>1, <3>2
  <2> QED BY <1>6, <1>14, <1>16, <1>17, <1>20, <2>1, <2>2, <2>3, <2>4 DEF TxChain
<1>24. PICK r : r = [k \in 0 .. NumTx |-> IF k < m THEN q[k + 1] - q[1] ELSE 0]
  OBVIOUS
<1>25. CutLess(q, m, r)
  BY <1>6, <1>9, <1>24, CutsLess
<1>26. /\ r \in [0 .. NumTx -> 0 .. NumTx] /\ m - 1 \in 0 .. NumTx /\ Cuts(r, m - 1)
       /\ r[m - 1] = z - x /\ r[s - 1] = y - x
  BY <1>9, <1>11, <1>25 DEF CutLess
<1>27. TxLayout(txbd', g, r, m - 1, s - 1, TxPlus(f, 1))
  <2>1. TxOffFrom(h, l) = q[1] - 1
    BY <1>11, <1>13
  <2>2. PICK b, c : b = txbd /\ c = txbd'
    OBVIOUS
  <2>3. TxLayout(b, h, q, m, s, f)
    BY <1>6, <2>2
  <2>4. \A i \in TxBds :
           /\ "SOP" \in c[i].flags <=> "SOP" \in b[i].flags /\ i # h
           /\ "EOP" \in c[i].flags <=> "EOP" \in b[i].flags /\ i # l
           /\ "OWNER" \in c[i].flags <=> "OWNER" \in b[i].flags
           /\ i # l => c[i].packet = b[i].packet
    BY <1>21, <2>2
  <2>5. TxLayout(c, TxSucc(l), r, m - 1, s - 1, TxPlus(f, 1))
    BY <1>6, <1>7, <1>9, <1>13, <1>25, <2>1, <2>3, <2>4, LayoutReap
  <2> QED BY <1>15, <2>2, <2>5
<1>28. TxEngine(r, m - 1, s - 1)'
  <2>1. /\ tdma.hdp # NULL => s < m /\ TxOffFrom(h, tdma.hdp) = y
        /\ tdma.hdp = NULL => s = m
        /\ "EOQ" \in txbd[TxTail].flags <=> s = m
        /\ tdma.irq /\ tdma.done \in TxBds /\ TxOffFrom(h, tdma.done) = y - 1
        /\ tdma.packet = TxPlus(f, s) /\ tx.queued = TxPlus(f, m)
    BY <1>2, <1>5, <1>6, <1>7, <1>8, <1>11, <1>14 DEF TxEngine
  <2>2. s - 1 < m - 1 <=> s < m
    BY <1>9
  <2>3. s - 1 = m - 1 <=> s = m
    BY <1>9
  <2>4. ASSUME tdma.hdp # NULL PROVE TxOffFrom(g, tdma.hdp) = r[s - 1]
    <3>1. tdma.hdp \in TxBds
      BY <2>4, TxSizes DEF TxTypes, TxBds, NULL
    <3>2. TxOffFrom(g, tdma.hdp) = y - x
      BY <1>12, <1>22, <2>1, <2>4, <3>1
    <3> QED BY <1>26, <3>2
  <2>5. "EOQ" \in txbd'[TxTail].flags <=> s - 1 = m - 1
    BY <1>14, <1>21, <2>1, <2>3
  <2>6. tdma'.irq <=> s - 1 > 0
    <3>1. tdma.done # l <=> TxOffFrom(h, tdma.done) # TxOffFrom(h, l)
      BY <1>6, <1>13, <2>1, TxSamePlace
    <3>2. y - 1 # x - 1 <=> s - 1 > 0
      BY <1>9, <1>12
    <3> QED BY <1>13, <1>18, <2>1, <3>1, <3>2
  <2>7. ASSUME s - 1 > 0 PROVE TxOffFrom(g, tdma.done) = r[s - 1] - 1
    <3>1. y - 1 >= x /\ (y - 1) - x = (y - x) - 1
      BY <1>9, <1>12, <2>7
    <3>2. TxOffFrom(g, tdma.done) = (y - x) - 1
      BY <1>22, <2>1, <3>1
    <3> QED BY <1>26, <3>2
  <2>8. TxPlus(TxPlus(f, 1), s - 1) = TxPlus(f, s) /\ TxPlus(TxPlus(f, 1), m - 1) = TxPlus(f, m)
    <3>1. s \in 0 .. NumTx /\ m \in 0 .. NumTx /\ s > 0 /\ m > 0
      BY <1>9
    <3> QED BY <1>7, <3>1, TxCounting
  <2> QED BY <1>17, <1>18, <1>19, <1>20, <2>1, <2>2, <2>3, <2>4, <2>5, <2>6, <2>7, <2>8 DEF TxEngine
<1>29. TxCheck(r, m - 1, s - 1)'
  BY <1>19 DEF TxCheck
<1>30. TxRing(r, m - 1, s - 1)'
  BY <1>9, <1>17, <1>19, <1>20, <1>26, <1>27, <1>28, <1>29 DEF TxRing
<1>31. TxMoves
  <2>1. tdma.packet = TxPlus(f, s)
    BY <1>5, <1>6 DEF TxEngine
  <2>2. s \in 0 .. NumTx /\ s > 0
    BY <1>9
  <2>3. TxPlus(f, s) # f /\ NextPacket(f) = TxPlus(f, 1)
    BY <1>7, <2>2, TxCounting
  <2> QED BY <1>5, <1>18, <1>19, <2>1, <2>3 DEF TxMoves
<1> QED BY <1>23, <1>30, <1>31 DEF TxInd

\* The descriptors of a new packet: the n after those of packets, not the tail.
LEMMA NewPacket ==
  ASSUME TxTypes, TxChain, tx.at = "idle", NEW n \in 1 .. MaxChain, n <= txch.free_num,
         NEW p \in Run(txch.free_head, n)
  PROVE  LET h == txch.send_head
         IN  /\ \A k \in 1 .. n : TxOffFrom(h, p[k]) = TxUsed + k - 1 /\ p[k] # TxTail
             /\ TxOffFrom(h, Last(p)) = TxUsed + n - 1 /\ TxOffFrom(h, p[1]) = TxUsed
             /\ TxUsed + n <= NumTx
<1>1. /\ n \in Nat /\ n >= 1 /\ n \in Int /\ n < NumTx /\ NumTx \in Int
      /\ TxUsed \in 0 .. NumTx /\ TxUsed + n <= NumTx /\ TxUsed < NumTx
  <2>1. n \in Int /\ n >= 1 /\ n < NumTx /\ NumTx \in Int
    BY TxAssumption
  <2>2. txch.free_num \in Int /\ NumTx - txch.free_num \in 0 .. NumTx
    BY DEF TxTypes, TxChain, TxUsed
  <2> QED BY <2>1, <2>2 DEF TxUsed
<1>2. /\ p \in [1 .. n -> TxBds] /\ p[1] = txch.free_head /\ Last(p) = p[n]
      /\ \A k \in 1 .. n - 1 : p[k + 1] = txbd[p[k]].next
  <2>1. p \in [1 .. n -> TxBds] /\ p[1] = txch.free_head /\ Last(p) = p[n]
    BY <1>1, RunFacts
  <2>2. \A k \in 1 .. n - 1 : p[k + 1] = txbd[p[k]].next
    BY DEF Run
  <2> QED BY <2>1, <2>2
<1>3. PICK h \in TxBds, o \in Nat, e \in 0 .. NumTx :
        h = txch.send_head /\ o = TxUsed /\ e = NumTx
  BY <1>1 DEF TxChain
<1>4. TxOffFrom(h, p[1]) = o
  BY <1>1, <1>2, <1>3 DEF TxChain
<1>5. \A k \in 1 .. n - 1 : TxOffFrom(h, p[k]) = o + k - 1 /\ o + k - 1 < e => o + k < e
  BY <1>1, <1>3
<1>6. \A i \in TxBds : txbd[i].next \in {NULL, TxSucc(i)}
  BY DEF TxChain
<1>7. InOrder(h, p, n, o, e)
  <2>1. o < e
    BY <1>1, <1>3
  <2> QED BY <1>1, <1>2, <1>4, <1>5, <1>6, <2>1, LinkedInOrder
<1>8. ASSUME NEW k \in 1 .. n PROVE TxOffFrom(h, p[k]) = o + k - 1 /\ p[k] # TxTail
  <2>1. TxOffFrom(h, p[k]) = o + k - 1 /\ p[k] \in TxBds /\ p[k] # NULL
    BY <1>2, <1>7, TxSizes DEF InOrder, TxBds, NULL
  <2>2. CASE o > 0
    <3>1. TxOffFrom(h, TxTail) = o - 1
      BY <1>3, <2>2, TailLast
    <3> QED BY <2>1, <3>1
  <2>3. CASE o = 0 /\ TxTail # NULL
    <3>1. p[1] = h
      BY <1>1, <1>2, <1>3, <1>4, <2>3, TxOffsets
    <3>2. TxTail \in TxBds /\ h = TxSucc(TxTail)
      BY <1>2, <2>3, <3>1 DEF TxChain
    <3>3. TxOffFrom(h, TxTail) = NumTx - 1
      BY <1>3, <3>2, TxOffsets
    <3> QED BY <1>1, <2>1, <2>3, <3>3
  <2> QED BY <2>1, <2>2, <2>3
<1>9. n \in 1 .. n /\ p[n] \in TxBds
  BY <1>1, <1>2
<1> QED BY <1>1, <1>2, <1>3, <1>4, <1>8, <1>9

LEMMA RingTransmit ==
  ASSUME TxTypes, TxInd, NEW n \in 1 .. MaxChain, NEW pool \in BOOLEAN, Transmit(n, pool)
  PROVE  TxInd' /\ TxMoves
<1>1. PICK q, m, s : TxRing(q, m, s)
  BY DEF TxInd
<1>2. PICK p \in Run(txch.free_head, n) : TransmitIn(p, pool)
  BY DEF Transmit
<1>3. PICK h, t, f, l, first, u :
        /\ h = txch.send_head /\ t = txch.send_tail /\ f = tx.freed
        /\ l = Last(p) /\ first = txch.free_head /\ u = TxUsed
  OBVIOUS
<1>4. /\ q \in [0 .. NumTx -> 0 .. NumTx] /\ m \in 0 .. NumTx /\ s \in 0 .. m
      /\ q[m] = u /\ Cuts(q, m) /\ TxLayout(txbd, h, q, m, s, f)
      /\ TxEngine(q, m, s) /\ TxChain /\ h \in TxBds /\ q[0] = 0
  BY <1>1, <1>3 DEF TxRing, TxInd, TxChain, Cuts
<1>5. tx.at = "idle" /\ n <= txch.free_num /\ f \in 0 .. NumTx /\ TxTail = t
  BY <1>3 DEF Transmit, TxTypes, TxTail
<1>6. /\ n \in Nat /\ n >= 1 /\ n \in Int /\ n < NumTx /\ NumTx \in Int
      /\ p \in [1 .. n -> TxBds] /\ p[1] = first /\ l = p[n] /\ Len(p) = n
      /\ first \in TxBds /\ l \in TxBds /\ 1 \in 1 .. n /\ n \in 1 .. n
  <2>1. n \in Nat /\ n >= 1 /\ n \in Int /\ n < NumTx /\ NumTx \in Int
    BY TxAssumption
  <2>2. p \in [1 .. n -> TxBds] /\ p[1] = first /\ l = p[n] /\ Len(p) = n
    BY <1>3, <2>1, RunFacts
  <2> QED BY <2>1, <2>2
<1>7. /\ \A k \in 1 .. n : TxOffFrom(h, p[k]) = u + k - 1 /\ p[k] # t
      /\ TxOffFrom(h, l) = u + n - 1 /\ TxOffFrom(h, first) = u /\ u + n <= NumTx
  <2>1. /\ \A k \in 1 .. n : TxOffFrom(txch.send_head, p[k]) = TxUsed + k - 1
                             /\ p[k] # TxTail
        /\ TxOffFrom(txch.send_head, Last(p)) = TxUsed + n - 1
        /\ TxOffFrom(txch.send_head, p[1]) = TxUsed /\ TxUsed + n <= NumTx
    BY <1>4, <1>5, NewPacket
  <2> QED BY <1>3, <1>5, <1>6, <2>1
<1>8. /\ m \in Int /\ s \in Int /\ s <= m /\ 0 <= s /\ u \in Int /\ m <= u /\ 0 <= u
      /\ m < NumTx /\ m \in 0 .. m /\ u <= NumTx
  <2>1. m <= q[m] /\ q[m] \in 0 .. NumTx
    BY <1>4, CutsGrow, TxSizes
  <2>2. m \in Int /\ s \in Int /\ s <= m /\ 0 <= s /\ m \in 0 .. m
    BY <1>4, TxSizes
  <2>3. u \in 0 .. NumTx /\ m <= u
    BY <1>4, <2>1
  <2> QED BY <1>6, <1>7, <2>2, <2>3
<1>9. l # t /\ first # t /\ TxSucc(l) \in TxBds /\ first # NULL /\ l # NULL
  <2>1. l # t /\ first # t
    BY <1>6, <1>7
  <2>2. TxSucc(l) \in TxBds
    BY <1>6, TxOffsets
  <2> QED BY <1>6, <2>1, <2>2, TxSizes DEF TxBds, NULL
<1>10. /\ t = NULL => u = 0
       /\ t # NULL => t \in TxBds /\ first = TxSucc(t)
       /\ \A i \in TxBds : txbd[i].next = IF i = t THEN NULL ELSE TxSucc(i)
  BY <1>3, <1>4, <1>5 DEF TxChain
<1> DEFINE filled(i) == \E k \in 1 .. n : i = p[k]
<1>11. ASSUME NEW i \in TxBds
       PROVE  /\ txbd'[i].next = IF i = l THEN NULL ELSE TxSucc(i)
              /\ filled(i) => /\ txbd'[i].flags = Flags(i, p)
                              /\ i = l => txbd'[i].packet = NextPacket(tx.queued)
              /\ ~filled(i) => /\ txbd'[i].flags = txbd[i].flags
                               /\ txbd'[i].packet = txbd[i].packet
  <2> DEFINE bds == Queued(p, NextPacket(tx.queued), pool)
  <2>1. /\ bds[i].next = IF i = l THEN NULL ELSE txbd[i].next
        /\ filled(i) => /\ bds[i].flags = Flags(i, p)
                        /\ i = l => bds[i].packet = NextPacket(tx.queued)
        /\ ~filled(i) => bds[i] = txbd[i]
        /\ DOMAIN bds = TxBds /\ bds[i] \in [next : {bds[i].next}, flags : {bds[i].flags},
                                             packet : {bds[i].packet}, pool : {bds[i].pool}]
    <3>1. i = l => filled(i)
      BY <1>6
    <3>2. CASE filled(i)
      <4>1. bds[i] = [next |-> IF i = Last(p) THEN NULL ELSE txbd[i].next,
                      flags |-> Flags(i, p),
                      packet |-> IF i = Last(p) THEN NextPacket(tx.queued) ELSE 0,
                      pool |-> i = Last(p) /\ pool]
        BY <1>6, <3>2 DEF Queued
      <4> HIDE DEF bds
      <4>2. DOMAIN bds = TxBds
        BY DEF bds, Queued
      <4> QED BY <1>3, <3>2, <4>1, <4>2
    <3>3. CASE ~filled(i)
      <4>1. bds[i] = txbd[i]
        BY <1>6, <3>3 DEF Queued
      <4>2. DOMAIN bds = TxBds
        BY DEF Queued
      <4>3. txbd[i] \in TxBdTypes
        BY DEF TxTypes
      <4> HIDE DEF bds
      <4>4. bds[i].next = IF i = l THEN NULL ELSE txbd[i].next
        BY <3>1, <3>3, <4>1
      <4>5. bds[i] \in [next : {bds[i].next}, flags : {bds[i].flags},
                        packet : {bds[i].packet}, pool : {bds[i].pool}]
        BY <4>1, <4>3 DEF TxBdTypes
      <4> QED BY <3>3, <4>1, <4>2, <4>4, <4>5
    <3> QED BY <3>2, <3>3
  <2>2. txbd' = IF t = NULL THEN bds ELSE [bds EXCEPT ![t].next = first]
    BY <1>2, <1>3 DEF TransmitIn
  <2> HIDE DEF bds
  <2>3. CASE t = NULL \/ i # t
    <3>1. txbd'[i] = bds[i]
      BY <2>1, <2>2, <2>3
    <3>2. i # t
      BY <2>3, TxSizes DEF TxBds, NULL
    <3> QED BY <1>10, <2>1, <3>1, <3>2
  <2>4. CASE t # NULL /\ i = t
    <3>1. /\ txbd'[i].next = first /\ txbd'[i].flags = bds[i].flags
          /\ txbd'[i].packet = bds[i].packet
      BY <2>1, <2>2, <2>4
    <3>2. ~filled(i)
      BY <1>7, <2>4
    <3> QED BY <1>9, <1>10, <2>1, <2>4, <3>1, <3>2
  <2> QED BY <2>3, <2>4
<1>12. /\ txch'.free_head = TxSucc(l) /\ txch'.free_num = txch.free_num - n
       /\ txch'.send_head = h /\ txch'.send_tail = IF t = NULL THEN l ELSE t
  <2>1. txbd[Last(p)].next = TxSucc(l)
    BY <1>3, <1>6, <1>9, <1>10
  <2>2. txch' = [txch EXCEPT !.free_head = TxSucc(l), !.free_num = @ - n,
                             !.send_tail = IF t = NULL THEN l ELSE t]
    BY <1>2, <1>3, <1>6, <2>1 DEF TransmitIn
  <2> QED BY <1>3, <2>2 DEF TxTypes
<1>13. /\ tdma'.hdp = IF t = NULL THEN first ELSE tdma.hdp
       /\ tdma'.done = tdma.done /\ tdma'.irq = tdma.irq /\ tdma'.packet = tdma.packet
  BY <1>2, <1>3 DEF TransmitIn, TxTypes
<1>14. /\ tx'.at = IF t = NULL THEN "idle" ELSE "check"
       /\ t # NULL => tx'.head = first /\ tx'.end = l
       /\ tx'.queued = NextPacket(tx.queued) /\ tx'.freed = f
  <2>1. tx' = [tx EXCEPT !.at = IF t = NULL THEN "idle" ELSE "check",
                         !.head = IF t = NULL THEN NULL ELSE first,
                         !.end = IF t = NULL THEN NULL ELSE l,
                         !.queued = NextPacket(@)]
    BY <1>2, <1>3 DEF TransmitIn
  <2> QED BY <1>3, <2>1 DEF TxTypes
<1>15. TxTail' = l /\ TxUsed' = u + n
  <2>1. NumTx - (txch.free_num - n) = (NumTx - txch.free_num) + n
    BY <1>6 DEF TxTypes
  <2> QED BY <1>3, <1>12, <1>14, <2>1 DEF TxTail, TxUsed
<1>16. TxChain'
  <2>1. u + n \in 0 .. NumTx
    BY <1>6, <1>7, <1>8
  <2>2. u + n < NumTx => TxOffFrom(h, TxSucc(l)) = u + n
    <3>1. u + n < NumTx => u + n - 1 # NumTx - 1
      BY <1>6, <1>8
    <3>2. u + n < NumTx => TxOffFrom(h, TxSucc(l)) = (u + n - 1) + 1
      BY <1>4, <1>6, <1>7, <3>1, TxOffsets
    <3> QED BY <1>6, <1>8, <3>2
  <2>3. u + n = NumTx => TxSucc(l) = h
    <3>1. u + n = NumTx => u + n - 1 = NumTx - 1
      BY <1>6, <1>8
    <3> QED BY <1>4, <1>6, <1>7, <3>1, TxOffsets
  <2> QED BY <1>4, <1>6, <1>9, <1>11, <1>12, <1>15, <2>1, <2>2, <2>3 DEF TxChain
<1>17. NextPacket(tx.queued) = TxPlus(f, m + 1)
  <2>1. tx.queued = TxPlus(f, m)
    BY <1>3, <1>4 DEF TxEngine
  <2> QED BY <1>4, <1>5, <1>8, <2>1, TxCounting
<1>18. PICK r : r = [q EXCEPT ![m + 1] = q[m] + n]
  OBVIOUS
<1>19. CutMore(q, m, n, r)
  <2>1. q[m] + n <= NumTx
    BY <1>4, <1>7
  <2> QED BY <1>4, <1>6, <1>18, <2>1, CutsMore
<1>20. /\ r \in [0 .. NumTx -> 0 .. NumTx] /\ m + 1 \in 0 .. NumTx /\ Cuts(r, m + 1)
       /\ r[m + 1] = u + n /\ r[s] = q[s] /\ r[m] = u /\ r[0] = 0
  <2>1. 0 \in 0 .. m
    BY <1>8
  <2> QED BY <1>4, <1>8, <1>19, <2>1 DEF CutMore
<1>21. ASSUME NEW i \in TxBds
       PROVE  LET o == TxOffFrom(h, i)
              IN  /\ "SOP" \in txbd'[i].flags <=> "SOP" \in txbd[i].flags \/ o = u
                  /\ "EOP" \in txbd'[i].flags <=> "EOP" \in txbd[i].flags \/ o = u + n - 1
                  /\ "OWNER" \in txbd'[i].flags <=> "OWNER" \in txbd[i].flags \/ o = u
                  /\ o = u + n - 1 => txbd'[i].packet = TxPlus(f, m + 1)
                  /\ o < u => txbd'[i].packet = txbd[i].packet
  <2> DEFINE o == TxOffFrom(h, i)
  <2>1. (o = u <=> i = first) /\ (o = u + n - 1 <=> i = l) /\ o \in Int
    <3>1. TxOffFrom(h, i) = TxOffFrom(h, first) <=> i = first
      BY <1>4, <1>6, TxSamePlace
    <3>2. TxOffFrom(h, i) = TxOffFrom(h, l) <=> i = l
      BY <1>4, <1>6, TxSamePlace
    <3>3. o \in 0 .. NumTx - 1
      BY <1>4, TxOffsets
    <3> QED BY <1>7, <3>1, <3>2, <3>3
  <2>2. (i = first => filled(i)) /\ (i = l => filled(i))
    BY <1>6
  <2>3. filled(i) => o >= u
    BY <1>6, <1>7, <1>8
  <2>4. o >= u => "SOP" \notin txbd[i].flags /\ "EOP" \notin txbd[i].flags
                    /\ "OWNER" \notin txbd[i].flags
    <3>1. TxOffFrom(txch.send_head, i) >= q[m]
              => {"SOP", "EOP", "OWNER"} \cap txbd[i].flags = {}
      BY <1>1, <1>4, TxReads
    <3> QED BY <1>3, <1>4, <3>1
  <2>5. Flags(i, p) = LET old == IF i = first THEN {"SOP", "OWNER"} ELSE txbd[i].flags
                      IN  IF i = l THEN (old \cup {"EOP"}) \ {"EOQ"} ELSE old
    BY <1>3, <1>6 DEF Flags
  <2> HIDE DEF o
  <2>6. CASE filled(i)
    <3>1. txbd'[i].flags = Flags(i, p) /\ (i = l => txbd'[i].packet = NextPacket(tx.queued))
      BY <1>11, <2>6
    <3>2. ~(o < u)
      BY <1>8, <2>1, <2>3, <2>6
    <3> HIDE DEF filled
    <3>3. /\ "SOP" \in txbd'[i].flags <=> "SOP" \in txbd[i].flags \/ i = first
          /\ "EOP" \in txbd'[i].flags <=> "EOP" \in txbd[i].flags \/ i = l
          /\ "OWNER" \in txbd'[i].flags <=> "OWNER" \in txbd[i].flags \/ i = first
      BY <2>3, <2>4, <2>5, <2>6, <3>1
    <3> QED BY <1>17, <2>1, <3>1, <3>2, <3>3 DEF o
  <2>7. CASE ~filled(i)
    <3>1. txbd'[i].flags = txbd[i].flags /\ txbd'[i].packet = txbd[i].packet
      BY <1>11, <2>7
    <3> HIDE DEF filled
    <3> QED BY <2>1, <2>2, <2>7, <3>1 DEF o
  <2> QED BY <2>6, <2>7
<1>22. TxLayout(txbd', h, r, m + 1, s, f)
  <2>1. PICK b, c : b = txbd /\ c = txbd'
    OBVIOUS
  <2>2. TxLayout(b, h, q, m, s, f) /\ q[m] + n <= NumTx
    BY <1>4, <1>7, <2>1
  <2>3. \A i \in TxBds :
           LET o == TxOffFrom(h, i)
           IN  /\ "SOP" \in c[i].flags <=> "SOP" \in b[i].flags \/ o = q[m]
               /\ "EOP" \in c[i].flags <=> "EOP" \in b[i].flags \/ o = q[m] + n - 1
               /\ "OWNER" \in c[i].flags <=> "OWNER" \in b[i].flags \/ o = q[m]
               /\ o = q[m] + n - 1 => c[i].packet = TxPlus(f, m + 1)
               /\ o < q[m] => c[i].packet = b[i].packet
    BY <1>4, <1>21, <2>1
  <2>4. TxLayout(c, h, r, m + 1, s, f)
    BY <1>4, <1>6, <1>18, <2>2, <2>3, LayoutMore
  <2> QED BY <2>1, <2>4
<1>23. /\ tdma.hdp # NULL => s < m /\ TxOffFrom(h, tdma.hdp) = q[s]
       /\ tdma.hdp = NULL => s = m
       /\ t # NULL => ("EOQ" \in txbd[t].flags <=> s = m)
       /\ tdma.irq <=> s > 0
       /\ s > 0 => tdma.done \in TxBds /\ TxOffFrom(h, tdma.done) = q[s] - 1
       /\ tdma.packet = TxPlus(f, s)
  BY <1>3, <1>4, <1>5 DEF TxEngine
<1>24. t = NULL => u = 0 /\ m = 0 /\ s = 0
  BY <1>8, <1>10
<1>25. t # NULL => t \in TxBds /\ txbd'[t].flags = txbd[t].flags
  <2>1. t # NULL => ~filled(t)
    BY <1>7
  <2> QED BY <1>10, <1>11, <2>1
<1>26. "EOQ" \notin txbd'[l].flags
  <2>1. filled(l)
    BY <1>6
  <2>2. txbd'[l].flags = Flags(l, p)
    BY <1>6, <1>11, <2>1
  <2> QED BY <1>3, <2>2 DEF Flags
<1>27. s < m + 1 /\ s # m + 1 /\ (m + 1) - 1 = m /\ m + 1 > 0 /\ s \in 0 .. m + 1
  BY <1>8
<1>28. TxEngine(r, m + 1, s)'
  <2>1. ASSUME tdma'.hdp # NULL PROVE TxOffFrom(h, tdma'.hdp) = r[s]
    BY <1>7, <1>13, <1>20, <1>23, <1>24, <2>1
  <2>2. ASSUME tdma'.hdp = NULL
        PROVE  tx'.at = "check" /\ s = m /\ "EOQ" \in txbd'[txch'.send_tail].flags
    <3>1. t # NULL /\ s = m
      BY <1>9, <1>13, <1>23, <2>2
    <3> QED BY <1>12, <1>14, <1>23, <1>25, <3>1
  <2> QED BY <1>12, <1>13, <1>14, <1>15, <1>17, <1>20, <1>23, <1>26, <1>27, <2>1, <2>2 DEF TxEngine
<1>29. TxCheck(r, m + 1, s)'
  <2> SUFFICES ASSUME tx'.at = "check"
               PROVE  /\ m + 1 > 0 /\ tx'.head \in TxBds
                      /\ TxOffFrom(txch'.send_head, tx'.head) = r[(m + 1) - 1]
                      /\ txch'.send_tail \in TxBds /\ tx'.end \in TxBds
                      /\ txch'.send_tail # tx'.end
                      /\ "EOQ" \in txbd'[txch'.send_tail].flags =>
                           tdma'.hdp = NULL /\ s = (m + 1) - 1
    BY DEF TxCheck
  <2>1. t # NULL /\ tx'.head = first /\ tx'.end = l /\ txch'.send_tail = t /\ tdma'.hdp = tdma.hdp
    BY <1>12, <1>13, <1>14
  <2>2. "EOQ" \in txbd'[t].flags => tdma.hdp = NULL /\ s = m
    BY <1>8, <1>23, <1>25, <2>1
  <2> QED BY <1>6, <1>7, <1>9, <1>10, <1>12, <1>20, <1>27, <2>1, <2>2
<1>30. TxRing(r, m + 1, s)'
  BY <1>12, <1>14, <1>15, <1>20, <1>22, <1>27, <1>28, <1>29 DEF TxRing
<1>31. TxMoves
  <2>1. t = NULL => tdma.hdp = NULL
    BY <1>23, <1>24
  <2> QED BY <1>3, <1>13, <1>14, <2>1 DEF TxMoves
<1> QED BY <1>16, <1>30, <1>31 DEF TxInd

LEMMA RingCheckTail ==
  ASSUME TxTypes, TxInd, CheckTail
  PROVE  TxInd' /\ TxMoves
<1>1. PICK q, m, s : TxRing(q, m, s)
  BY DEF TxInd
<1>2. /\ q \in [0 .. NumTx -> 0 .. NumTx] /\ m \in 0 .. NumTx /\ s \in 0 .. m
      /\ q[m] = TxUsed /\ Cuts(q, m) /\ TxLayout(txbd, txch.send_head, q, m, s, tx.freed)
      /\ TxEngine(q, m, s) /\ TxCheck(q, m, s) /\ TxChain
  BY <1>1 DEF TxRing, TxInd
<1>3. /\ tx.at = "check" /\ txbd' = txbd
      /\ txch'.send_tail = tx.end /\ txch'.send_head = txch.send_head
      /\ txch'.free_head = txch.free_head /\ txch'.free_num = txch.free_num
      /\ tx'.at = "idle" /\ tx'.queued = tx.queued /\ tx'.freed = tx.freed
  BY DEF CheckTail, TxTypes
<1>4. /\ tdma'.hdp = IF "EOQ" \in txbd[txch.send_tail].flags THEN tx.head ELSE tdma.hdp
      /\ tdma'.done = tdma.done /\ tdma'.irq = tdma.irq /\ tdma'.packet = tdma.packet
  BY DEF CheckTail, RestartTx, TxTypes
<1>5. TxTail' = TxTail /\ TxUsed' = TxUsed
  BY <1>3 DEF TxTail, TxUsed
<1>6. TxChain'
  BY <1>2, <1>3, <1>5 DEF TxChain
<1>7. /\ m > 0 /\ tx.head \in TxBds /\ TxOffFrom(txch.send_head, tx.head) = q[m - 1]
      /\ "EOQ" \in txbd[txch.send_tail].flags => tdma.hdp = NULL /\ s = m - 1
  BY <1>2, <1>3 DEF TxCheck
<1>8. tx.head # NULL /\ m - 1 < m
  <2>1. m \in Int
    BY <1>2, TxSizes
  <2>2. tx.head # NULL
    BY <1>7, TxSizes DEF TxBds, NULL
  <2> QED BY <2>1, <2>2
<1>9. tdma'.hdp # NULL => s < m /\ TxOffFrom(txch.send_head, tdma'.hdp) = q[s]
  BY <1>2, <1>4, <1>7, <1>8 DEF TxEngine
<1>10. tdma'.hdp = NULL => s = m
  BY <1>2, <1>4, <1>8 DEF TxEngine
<1>11. TxEngine(q, m, s)'
  BY <1>2, <1>3, <1>4, <1>5, <1>9, <1>10 DEF TxEngine
<1>12. TxCheck(q, m, s)'
  BY <1>3 DEF TxCheck
<1>13. TxRing(q, m, s)'
  BY <1>2, <1>3, <1>5, <1>11, <1>12 DEF TxRing
<1>14. TxMoves
  BY <1>3, <1>4, <1>7 DEF TxMoves
<1> QED BY <1>6, <1>13, <1>14 DEF TxInd

\* A step of another part, or one that only begins or ends the handler.
LEMMA RingQuiet ==
  ASSUME TxTypes, TxInd, UNCHANGED <<txbd, txch, tdma>>,
         tx'.queued = tx.queued, tx'.freed = tx.freed,
         tx' = tx \/ (tx.at # "check" /\ tx'.at # "check")
  PROVE  TxInd' /\ TxMoves
<1>1. PICK q, m, s : TxRing(q, m, s)
  BY DEF TxInd
<1>2. TxTail' = TxTail /\ TxUsed' = TxUsed
  BY DEF TxTail, TxUsed
<1>3. TxChain'
  BY <1>2 DEF TxInd, TxChain
<1>4. TxEngine(q, m, s)'
  BY <1>1, <1>2 DEF TxRing, TxEngine
<1>5. TxCheck(q, m, s)'
  BY <1>1 DEF TxRing, TxCheck
<1>6. TxRing(q, m, s)'
  BY <1>1, <1>2, <1>4, <1>5 DEF TxRing
<1> QED BY <1>3, <1>6 DEF TxInd, TxMoves

LEMMA RingInit == CpswInit => TxInd
<1> SUFFICES ASSUME CpswInit PROVE TxInd
  OBVIOUS
<1>1. /\ TxTail = NULL /\ TxUsed = 0 /\ txch.send_head = 1 /\ txch.free_head = 1
      /\ 1 \in TxBds /\ TxOffFrom(1, 1) = 0 /\ NULL \notin TxBds /\ NumTx # 0
  <2>1. NumTx - NumTx = 0
    BY TxSizes
  <2>2. 1 \in TxBds
    BY TxSizes DEF TxBds
  <2> QED BY <2>1, <2>2, TxOffsets, TxSizes DEF CpswInit, TxTail, TxUsed, TxBds, NULL
<1>2. ASSUME NEW i \in TxBds
      PROVE  txbd[i].next = TxSucc(i) /\ txbd[i].flags = {}
  <2>1. (i % NumTx) + 1 = TxSucc(i)
    <3>1. CASE i = NumTx
      BY <3>1, TxSizes DEF TxSucc
    <3>2. CASE i # NumTx
      <4>1. i \in 0 .. NumTx - 1
        BY <3>2, TxSizes DEF TxBds
      <4>2. i % NumTx = i
        BY <4>1, TxSizes
      <4> QED BY <3>2, <4>2 DEF TxSucc
    <3> QED BY <3>1, <3>2
  <2> QED BY <2>1 DEF CpswInit
<1>3. TxChain
  <2>1. \A i \in TxBds : i # TxTail
    BY <1>1
  <2>2. 0 \in 0 .. NumTx
    BY TxSizes
  <2> QED BY <1>1, <1>2, <2>1, <2>2 DEF TxChain
<1>4. PICK q : q = [k \in 0 .. NumTx |-> 0]
  OBVIOUS
<1>5. /\ q \in [0 .. NumTx -> 0 .. NumTx] /\ q[0] = 0 /\ 0 \in 0 .. NumTx /\ 0 \in 0 .. 0
      /\ \A a, b \in 0 .. 0 : b - a = 0 /\ q[b] - q[a] = 0
  BY <1>4, TxSizes
<1>6. Cuts(q, 0)
  BY <1>5 DEF Cuts
<1>7. TxLayout(txbd, 1, q, 0, 0, tx.freed)
  <2>1. ~(\E k \in 0 .. 0 - 1 : TRUE) /\ ~(\E k \in 1 .. 0 : TRUE)
    OBVIOUS
  <2> QED BY <1>2, <2>1 DEF TxLayout
<1>8. TxEngine(q, 0, 0)
  <2>1. TxPlus(0, 0) = 0
    BY TxSizes DEF TxPlus
  <2> QED BY <1>1, <2>1 DEF TxEngine, CpswInit
<1>9. TxCheck(q, 0, 0)
  BY DEF TxCheck, CpswInit
<1>10. TxRing(q, 0, 0)
  BY <1>1, <1>5, <1>6, <1>7, <1>8, <1>9 DEF TxRing
<1> QED BY <1>3, <1>10 DEF TxInd

\* The handler does not forget that it has stopped to look for the engine.
LEMMA LateForGood ==
  ASSUME TxTypes, [CpswNext]_allvars, ~tx'.late
  PROVE  ~tx.late /\ ~TryAgain
<1>1. tx \in [at : {"idle", "check", "reap", "late"}, head : 0 .. NumTx,
             end : 0 .. NumTx, queued : 0 .. NumTx, freed : 0 .. NumTx,
             lost : Nat, late : BOOLEAN]
  BY DEF TxTypes
<1>2. ~TryAgain
  BY <1>1 DEF TryAgain
<1>3. CASE UNCHANGED tx
  BY <1>2, <1>3
<1>4. CASE \E n \in 1 .. MaxChain, pool \in BOOLEAN : Transmit(n, pool)
  <2>1. PICK n \in 1 .. MaxChain, pool \in BOOLEAN : Transmit(n, pool)
    BY <1>4
  <2>2. PICK p \in Run(txch.free_head, n) : TransmitIn(p, pool)
    BY <2>1 DEF Transmit
  <2>3. PICK a, h, e, q : tx' = [tx EXCEPT !.at = a, !.head = h, !.end = e, !.queued = q]
    BY <2>2 DEF TransmitIn
  <2> QED BY <1>1, <1>2, <2>3
<1>5. CASE TransmitRefused
  BY <1>1, <1>2, <1>5 DEF TransmitRefused
<1>6. CASE CheckTail
  BY <1>1, <1>2, <1>6 DEF CheckTail
<1>7. CASE EnterTx \/ LastLook \/ LeaveTx
  BY <1>1, <1>2, <1>7 DEF EnterTx, LastLook, LeaveTx
<1>8. CASE ReapPacket
  <2>1. PICK q : tx' = [tx EXCEPT !.freed = q]
    BY <1>8 DEF ReapPacket
  <2> QED BY <1>1, <1>2, <2>1
<1>9. CASE RxHandler \/ FreeKept \/ SendPacket \/ UNCHANGED txvars \/ UNCHANGED allvars
  <2>1. UNCHANGED tx
    BY <1>9 DEF RxHandler, FreeKept, SendPacket, allvars, txvars
  <2> QED BY <1>3, <2>1
<1> QED BY <1>2, <1>4, <1>5, <1>6, <1>7, <1>8, <1>9 DEF CpswNext

LEMMA RingNext ==
  ASSUME TxTypes, TxInd, [CpswNext]_allvars, ~tx'.late
  PROVE  TxInd' /\ TxMoves
<1>1. CASE UNCHANGED txvars
  <2>1. /\ UNCHANGED <<txbd, txch, tdma>> /\ tx' = tx
        /\ tx'.queued = tx.queued /\ tx'.freed = tx.freed
    BY <1>1 DEF txvars
  <2> QED BY <2>1, RingQuiet
<1>2. CASE \E n \in 1 .. MaxChain, pool \in BOOLEAN : Transmit(n, pool)
  BY <1>2, RingTransmit
<1>3. CASE TransmitRefused
  <2>1. tx' = [tx EXCEPT !.lost = @ + 1] /\ UNCHANGED <<txbd, txch, tdma>> /\ tx.at = "idle"
    BY <1>3 DEF TransmitRefused
  <2>2. tx'.queued = tx.queued /\ tx'.freed = tx.freed /\ tx'.at = tx.at
    BY <2>1 DEF TxTypes
  <2> QED BY <2>1, <2>2, RingQuiet
<1>4. CASE CheckTail
  BY <1>4, RingCheckTail
<1>5. CASE EnterTx
  <2>1. tx' = [tx EXCEPT !.at = "reap"] /\ UNCHANGED <<txbd, txch, tdma>> /\ tx.at = "idle"
    BY <1>5 DEF EnterTx
  <2>2. tx'.queued = tx.queued /\ tx'.freed = tx.freed /\ tx'.at = "reap"
    BY <2>1 DEF TxTypes
  <2> QED BY <2>1, <2>2, RingQuiet
<1>6. CASE LeaveTx
  <2>1. tx' = [tx EXCEPT !.at = "idle"] /\ UNCHANGED <<txbd, txch, tdma>> /\ tx.at = "reap"
    BY <1>6 DEF LeaveTx
  <2>2. tx'.queued = tx.queued /\ tx'.freed = tx.freed /\ tx'.at = "idle"
    BY <2>1 DEF TxTypes
  <2> QED BY <2>1, <2>2, RingQuiet
<1>7. CASE ReapPacket
  BY <1>7, RingReapPacket
<1>8. CASE SendPacket
  BY <1>8, RingSendPacket
<1>10. CASE LastLook
  <2>1. tx' = [tx EXCEPT !.at = "late"] /\ UNCHANGED <<txbd, txch, tdma>> /\ tx.at = "reap"
    BY <1>10 DEF LastLook
  <2>2. tx'.queued = tx.queued /\ tx'.freed = tx.freed /\ tx'.at = "late"
    BY <2>1 DEF TxTypes
  <2> QED BY <2>1, <2>2, RingQuiet
<1>11. ~TryAgain
  BY LateForGood
<1>9. CASE RxHandler \/ FreeKept \/ UNCHANGED allvars
  <2>1. UNCHANGED txvars
    BY <1>9 DEF RxHandler, FreeKept, allvars
  <2> QED BY <1>1, <2>1
<1> QED BY <1>1, <1>2, <1>3, <1>4, <1>5, <1>6, <1>7, <1>8, <1>9, <1>10, <1>11
        DEF CpswNext

\* The transmit ring holds packets whole and in order, and the engine is at the
\* first that has not been sent, until the handler gives the engine a packet for
\* the second time (cpswif_transmit, cpswif_tx_inthandler).
THEOREM TxRingInvariant == CpswSpec => [](TxTypes /\ TxIInv)
<1>1. CpswIInv => TxTypes
  BY DEF CpswIInv
<1>2. TxTypes /\ TxIInv /\ [CpswNext]_allvars => TxIInv'
  BY RingNext, LateForGood DEF TxIInv
<1>3. CpswInit => TxIInv
  BY RingInit DEF TxIInv
<1> QED BY <1>1, <1>2, <1>3, CpswInvariant, PTL DEF CpswSpec

\* HDP is at a packet that is the engine's.
HdpAtPacket == tdma.hdp # NULL => {"SOP", "OWNER"} \subseteq txbd[tdma.hdp].flags

LEMMA EngineAtPacket == TxTypes /\ TxInd => HdpAtPacket
<1> SUFFICES ASSUME TxTypes, TxInd, tdma.hdp # NULL
             PROVE  {"SOP", "OWNER"} \subseteq txbd[tdma.hdp].flags
  BY DEF HdpAtPacket
<1>1. PICK q, m, s : TxRing(q, m, s)
  BY DEF TxInd
<1>2. TxChain /\ s < m /\ TxOffFrom(txch.send_head, tdma.hdp) = q[s]
  BY <1>1 DEF TxInd, TxRing, TxEngine
<1>3. PICK i \in TxBds : i = tdma.hdp
  BY TxSizes DEF TxTypes, TxBds, NULL
<1>4. s \in 0 .. m - 1 /\ s <= s
  BY <1>1, <1>2, TxSizes DEF TxRing
<1>5. "SOP" \in txbd[i].flags /\ ("OWNER" \in txbd[i].flags <=> s <= s)
  BY <1>1, <1>2, <1>3, <1>4, TxReads
<1> QED BY <1>3, <1>4, <1>5

\* Until the handler gives the engine a packet for the second time, every packet is
\* sent once and in order, from descriptors still its own, and is freed after it has
\* been sent, and HDP is written while the engine stands still, for every number of
\* descriptors and every length of the packets (cpswif_transmit, cpswif_tx_inthandler).
THEOREM CpswSentInOrder == CpswSpec => SentInOrder
<1> DEFINE Step ==
             ~tx'.late =>
               /\ tdma'.hdp # NULL => {"SOP", "OWNER"} \subseteq txbd'[tdma'.hdp].flags
               /\ tdma'.packet # tdma.packet => tdma'.packet = NextPacket(tdma.packet)
               /\ tx'.freed # tx.freed =>
                    tx.freed # tdma.packet /\ tx'.freed = NextPacket(tx.freed)
               /\ tdma.hdp # NULL /\ tdma'.hdp # tdma.hdp => SendPacket
           AtPacket == ~tx.late => HdpAtPacket
<1>1. TxTypes /\ TxIInv /\ AtPacket' /\ [CpswNext]_allvars => Step
  <2> SUFFICES ASSUME TxTypes, TxIInv, AtPacket', [CpswNext]_allvars, ~tx'.late
               PROVE  TxMoves /\ HdpAtPacket'
    BY DEF TxMoves, HdpAtPacket
  <2>1. TxInd
    BY LateForGood DEF TxIInv
  <2>2. TxMoves
    BY <2>1, RingNext
  <2> QED BY <2>2
<1>2. [][Step]_allvars => SentInOrder
  BY DEF SentInOrder
<1>3. TxTypes /\ TxIInv => AtPacket
  BY EngineAtPacket DEF TxIInv
<1> HIDE DEF Step, AtPacket
<1> QED BY <1>1, <1>2, <1>3, TxRingInvariant, PTL DEF CpswSpec

LEMMA RingGoesOn == TxTypes /\ TxIInv => TransmissionGoesOn
<1> SUFFICES ASSUME TxTypes, TxInd, tx.at = "idle", ~tdma.irq, tdma.hdp = NULL
             PROVE  txch.free_num = NumTx
  BY DEF TransmissionGoesOn, TxIInv
<1>1. PICK q, m, s : TxRing(q, m, s)
  BY DEF TxInd
<1>2. m \in 0 .. NumTx /\ s \in 0 .. m /\ s = m /\ ~(s > 0) /\ q[m] = TxUsed /\ q[0] = 0
  BY <1>1 DEF TxRing, TxEngine, Cuts
<1>3. m = 0
  BY <1>2, TxSizes
<1>4. NumTx - txch.free_num = 0
  BY <1>2, <1>3 DEF TxUsed
<1> QED BY <1>4, TxSizes DEF TxTypes

\* An engine that stands still with its interrupts handled leaves no packet behind,
\* whenever the stack has queued it, until the handler gives the engine a packet for
\* the second time (cpswif_transmit).
THEOREM CpswTransmissionGoesOn == CpswSpec => []TransmissionGoesOn
<1> QED BY RingGoesOn, TxRingInvariant, PTL

=============================================================================
