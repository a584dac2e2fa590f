------------------------- MODULE UsbMscDevice_proofs -------------------------
(***************************************************************************)
(* Mass storage, and the pool of DMA buffers under it.  First the pool, for *)
(* every size, every number of transfers and every order of allocation,      *)
(* provided the first unit is held for good: then the marking loop of        *)
(* cppiDmaAllocnBuffer never has to count below zero.  Then the device, for  *)
(* every chunk size and every set of commands: its books of the pool are      *)
(* right whatever happens to medium and cable, and its status tells the truth *)
(* if the medium goes only where the code notices it.                        *)
(***************************************************************************)
EXTENDS UsbMscDevice, CppiDmaBuffers, SequenceTheorems, TLAPS

-----------------------------------------------------------------------------
(* The pool.                                                               *)

\* A run that has been given out is recorded at its first unit.
RunsRecorded ==
  \A t \in Transfers : owns[t] # Nothing =>
    owns[t].count >= 1 /\ nBlocks[owns[t].first] = owns[t].count

\* The inductive invariant of the pool.
RunsInv == TypeOK /\ OwnersApart /\ UsedIffOwned /\ RunsRecorded

-----------------------------------------------------------------------------

\* A number below the modulus is its own remainder.
LEMMA SmallMod ==
  ASSUME NEW m \in Nat, NEW x \in 0 .. m - 1
  PROVE  x % m = x
  OBVIOUS

\* When a run of free units ends at i and unit 0 is in use, the marking loop
\* marks exactly that run and the caller is given its first unit.
LEMMA RunIsMarked ==
  ASSUME NEW n \in Nat, n >= 1, NEW i, RunEnd(n, i),
         usedFlag \in [Units -> BOOLEAN], usedFlag[0]
  PROVE  /\ i \in Units /\ i - n \in Nat
         /\ Marked(n, i) = i + 1 - n .. i
         /\ Returned(n, i) = i + 1 - n
         /\ Returned(n, i) \in Units
         /\ n \in 0 .. NumBuffers
         /\ \A j \in Marked(n, i) : j \in Units /\ ~usedFlag[j]
<1>1. i \in Units /\ n <= i + 1 /\ \A j \in i + 1 - n .. i : ~usedFlag[j]
  BY DEF RunEnd
<1>2. i \in Nat /\ i < NumBuffers /\ NumBuffers \in Nat
  BY <1>1, BuffersAssumption DEF Units
<1>3. i + 1 - n # 0
  <2>1. SUFFICES ASSUME i + 1 - n = 0 PROVE FALSE
    OBVIOUS
  <2>2. 0 \in i + 1 - n .. i
    BY <2>1, <1>2
  <2> QED BY <2>2, <1>1
<1>4. i - n \in 0 .. Modulus - 1 /\ i - n < i
  BY <1>1, <1>2, <1>3, BuffersAssumption
<1>5. LoopStop(n, i) = i - n
  BY <1>4, SmallMod, BuffersAssumption DEF LoopStop
<1>6. Marked(n, i) = i + 1 - n .. i
  BY <1>1, <1>2, <1>4, <1>5 DEF Marked, Units
<1>7. Returned(n, i) = i + 1 - n
  BY <1>2, <1>4, <1>5 DEF Returned
<1> QED
  BY <1>1, <1>2, <1>4, <1>6, <1>7 DEF Units

\* A transfer that owns nothing has an empty run; a run that is recorded has
\* its first unit.
LEMMA RunUnits ==
  ASSUME TypeOK, RunsRecorded, NEW t \in Transfers
  PROVE  /\ owns[t] = Nothing => Run(t) = {}
         /\ owns[t] # Nothing => owns[t].first \in Run(t)
<1>1. owns[t] \in [first : Units, count : 0 .. NumBuffers]
  BY DEF TypeOK
<1>2. owns[t].first \in Int /\ owns[t].count \in Int
  BY <1>1, BuffersAssumption DEF Units
<1>3. owns[t] = Nothing => Run(t) = {}
  BY DEF Nothing, Run
<1>4. owns[t] # Nothing => owns[t].first \in Run(t)
  BY <1>2 DEF RunsRecorded, Run
<1> QED BY <1>3, <1>4

\* Giving a run of free units to a transfer that owns nothing.
LEMMA TakeKeepsInvariant ==
  ASSUME RunsInv, NEW t \in Transfers, owns[t] = Nothing,
         NEW first \in Units, NEW n \in 1 .. NumBuffers, NEW units,
         units = first .. first + n - 1,
         \A u \in units : u \in Units /\ ~usedFlag[u],
         Take(t, units, first, n)
  PROVE  RunsInv'
<1> USE BuffersAssumption
<1>1. TypeOK /\ OwnersApart /\ UsedIffOwned /\ RunsRecorded
  BY DEF RunsInv
<1>2. /\ usedFlag' = [u \in Units |-> usedFlag[u] \/ u \in units]
      /\ nBlocks' = [u \in Units |-> IF u = first THEN n ELSE nBlocks[u]]
      /\ owns' = [owns EXCEPT ![t] = [first |-> first, count |-> n]]
  BY DEF Take
<1>3. /\ owns'[t] = [first |-> first, count |-> n]
      /\ \A s \in Transfers \ {t} : owns'[s] = owns[s]
  BY <1>1, <1>2 DEF TypeOK
<1>4. /\ Run(t)' = units
      /\ \A s \in Transfers \ {t} : Run(s)' = Run(s)
  BY <1>3 DEF Run
<1>5. \A s \in Transfers : Run(s) \cap units = {}
  BY <1>1 DEF UsedIffOwned
<1>6. units \cap HeldUnits = {}
  BY <1>1 DEF UsedIffOwned
<1>7. TypeOK'
  <2>1. usedFlag' \in [Units -> BOOLEAN]
    BY <1>1, <1>2 DEF TypeOK
  <2>2. nBlocks' \in [Units -> 0 .. NumBuffers]
    BY <1>1, <1>2 DEF TypeOK
  <2>3. owns' \in [Transfers -> [first : Units, count : 0 .. NumBuffers]]
    <3>1. [first |-> first, count |-> n] \in [first : Units, count : 0 .. NumBuffers]
      OBVIOUS
    <3> QED BY <1>1, <1>2, <3>1 DEF TypeOK
  <2> QED BY <2>1, <2>2, <2>3 DEF TypeOK
<1>8. OwnersApart'
  <2>1. SUFFICES ASSUME NEW s \in Transfers
                 PROVE  /\ Run(s)' \subseteq Units \ HeldUnits
                        /\ \A r \in Transfers \ {s} : Run(r)' \cap Run(s)' = {}
    BY DEF OwnersApart, HeldUnits, Units
  <2>2. Run(s)' \subseteq Units \ HeldUnits
    BY <1>1, <1>4, <1>6 DEF OwnersApart
  <2>3. \A r \in Transfers \ {s} : Run(r)' \cap Run(s)' = {}
    BY <1>1, <1>4, <1>5 DEF OwnersApart
  <2> QED BY <2>2, <2>3
<1>9. UsedIffOwned'
  <2>1. SUFFICES ASSUME NEW u \in Units
                 PROVE  usedFlag'[u] <=> \/ u \in HeldUnits
                                        \/ \E s \in Transfers : u \in Run(s)'
    BY DEF UsedIffOwned, HeldUnits, Units
  <2>2. usedFlag'[u] <=> usedFlag[u] \/ u \in Run(t)'
    BY <1>2, <1>4
  <2>3. Run(t) = {}
    BY <1>1, RunUnits
  <2>4. usedFlag[u] <=> u \in HeldUnits \/ \E s \in Transfers : u \in Run(s)
    BY <1>1 DEF UsedIffOwned
  <2> QED BY <1>4, <2>2, <2>3, <2>4
<1>10. RunsRecorded'
  <2>1. SUFFICES ASSUME NEW s \in Transfers, owns'[s] # Nothing
                 PROVE  /\ owns'[s].count >= 1
                        /\ nBlocks'[owns'[s].first] = owns'[s].count
    BY DEF RunsRecorded, Nothing
  <2>2. CASE s = t
    BY <1>2, <1>3, <2>2
  <2>3. CASE s # t
    <3>1. owns[s] # Nothing /\ owns'[s] = owns[s] /\ owns[s].first \in Units
      BY <1>1, <1>3, <2>1, <2>3 DEF TypeOK
    <3>2. owns[s].first \in Run(s)
      BY <1>1, <3>1, RunUnits
    <3>3. first \in units
      BY DEF Units
    <3>4. owns[s].first # first
      BY <1>5, <3>2, <3>3
    <3> QED BY <1>1, <1>2, <3>1, <3>4 DEF RunsRecorded
  <2> QED BY <2>2, <2>3
<1> QED BY <1>7, <1>8, <1>9, <1>10 DEF RunsInv

\* Freeing the run of a transfer.
LEMMA CompletionKeepsInvariant ==
  ASSUME RunsInv, NEW t \in Transfers, PoolTxCompletion(t)
  PROVE  RunsInv'
<1> USE BuffersAssumption
<1> DEFINE first == owns[t].first
<1>1. TypeOK /\ OwnersApart /\ UsedIffOwned /\ RunsRecorded
  BY DEF RunsInv
<1>2. /\ owns[t] # Nothing /\ FreenBuffer(first)
      /\ owns' = [owns EXCEPT ![t] = Nothing]
  BY DEF PoolTxCompletion
<1>3. first \in Units /\ owns[t].count \in 1 .. NumBuffers
      /\ nBlocks[first] = owns[t].count
  <2>1. owns[t] \in [first : Units, count : 0 .. NumBuffers]
    BY <1>1 DEF TypeOK
  <2> QED BY <1>1, <1>2, <2>1 DEF RunsRecorded
<1>4. /\ usedFlag' = [u \in Units |-> usedFlag[u]
                        /\ ~(u >= first /\ u < first + nBlocks[first])]
      /\ nBlocks' = [nBlocks EXCEPT ![first] = 0]
  BY <1>2, <1>3 DEF FreenBuffer
<1>5. /\ owns'[t] = Nothing
      /\ \A s \in Transfers \ {t} : owns'[s] = owns[s]
  BY <1>1, <1>2 DEF TypeOK
<1>6. /\ Run(t)' = {}
      /\ \A s \in Transfers \ {t} : Run(s)' = Run(s)
  BY <1>5 DEF Run, Nothing
<1>7. \A u \in Units : usedFlag'[u] <=> usedFlag[u] /\ u \notin Run(t)
  <2>1. ASSUME NEW u \in Units
        PROVE  u >= first /\ u < first + nBlocks[first] <=> u \in Run(t)
    BY <1>3 DEF Run, Units
  <2>2. ASSUME NEW u \in Units
        PROVE  usedFlag'[u] = (usedFlag[u]
                 /\ ~(u >= first /\ u < first + nBlocks[first]))
    BY <1>4, Zenon
  <2> QED BY <2>1, <2>2, Zenon
<1>8. TypeOK'
  <2>1. usedFlag' \in [Units -> BOOLEAN]
    BY <1>1, <1>4 DEF TypeOK
  <2>2. nBlocks' \in [Units -> 0 .. NumBuffers]
    BY <1>1, <1>4 DEF TypeOK
  <2>3. owns' \in [Transfers -> [first : Units, count : 0 .. NumBuffers]]
    <3>1. Nothing \in [first : Units, count : 0 .. NumBuffers]
      BY DEF Nothing, Units
    <3> QED BY <1>1, <1>2, <3>1 DEF TypeOK
  <2> QED BY <2>1, <2>2, <2>3 DEF TypeOK
<1>9. OwnersApart'
  <2>1. SUFFICES ASSUME NEW s \in Transfers
                 PROVE  /\ Run(s)' \subseteq Units \ HeldUnits
                        /\ \A r \in Transfers \ {s} : Run(r)' \cap Run(s)' = {}
    BY DEF OwnersApart, HeldUnits, Units
  <2> QED BY <1>1, <1>6 DEF OwnersApart
<1>10. UsedIffOwned'
  <2>1. SUFFICES ASSUME NEW u \in Units
                 PROVE  usedFlag'[u] <=> \/ u \in HeldUnits
                                        \/ \E s \in Transfers : u \in Run(s)'
    BY DEF UsedIffOwned, HeldUnits, Units
  <2>2. usedFlag[u] <=> u \in HeldUnits \/ \E s \in Transfers : u \in Run(s)
    BY <1>1 DEF UsedIffOwned
  <2>3. u \in Run(t) => u \notin HeldUnits /\ \A s \in Transfers \ {t} : u \notin Run(s)
    BY <1>1 DEF OwnersApart
  <2> QED BY <1>6, <1>7, <2>2, <2>3
<1>11. RunsRecorded'
  <2>1. SUFFICES ASSUME NEW s \in Transfers, owns'[s] # Nothing
                 PROVE  /\ owns'[s].count >= 1
                        /\ nBlocks'[owns'[s].first] = owns'[s].count
    BY DEF RunsRecorded, Nothing
  <2>2. s # t /\ owns'[s] = owns[s] /\ owns[s] # Nothing /\ owns[s].first \in Units
    BY <1>1, <1>5, <2>1 DEF TypeOK
  <2>3. owns[s].first \in Run(s) /\ first \in Run(t)
    BY <1>1, <1>2, <2>2, RunUnits
  <2>4. owns[s].first # first
    BY <1>1, <2>2, <2>3 DEF OwnersApart
  <2> QED BY <1>1, <1>4, <2>2, <2>4 DEF RunsRecorded, TypeOK
<1> QED BY <1>8, <1>9, <1>10, <1>11 DEF RunsInv

-----------------------------------------------------------------------------

LEMMA PoolInitInvariant == PoolInit => RunsInv
<1> SUFFICES ASSUME PoolInit PROVE RunsInv
  OBVIOUS
<1> USE BuffersAssumption
<1>1. TypeOK
  BY DEF PoolInit, TypeOK, Nothing, Units
<1>2. \A t \in Transfers : owns[t] = Nothing /\ Run(t) = {}
  BY DEF PoolInit, Run, Nothing
<1>3. OwnersApart
  BY <1>2 DEF OwnersApart
<1>4. UsedIffOwned
  <2>1. \A u \in Units : u \in HeldUnits <=> u < Held
    BY DEF HeldUnits, Units
  <2>2. \A u \in Units : usedFlag[u] = (u < Held)
    BY Zenon DEF PoolInit
  <2> QED BY <1>2, <2>1, <2>2, Zenon DEF UsedIffOwned
<1>5. RunsRecorded
  BY <1>2 DEF RunsRecorded
<1> QED BY <1>1, <1>3, <1>4, <1>5 DEF RunsInv

LEMMA PoolNextInvariant ==
  ASSUME Held >= 1, RunsInv, PoolNext
  PROVE  RunsInv'
<1> USE BuffersAssumption
<1>1. PICK t \in Transfers : AllocResponse(t) \/ AllocChunk(t) \/ PoolTxCompletion(t)
  BY DEF PoolNext
<1>2. CASE AllocResponse(t)
  <2>1. PICK i \in Units : FirstFree(i) /\ Take(t, {i}, i, 1)
    BY <1>2 DEF AllocResponse
  <2>2. {i} = i .. i + 1 - 1 /\ 1 \in 1 .. NumBuffers
    BY DEF Units
  <2>3. ~usedFlag[i] /\ owns[t] = Nothing
    BY <1>2, <2>1 DEF FirstFree, AllocResponse
  <2> QED BY <2>1, <2>2, <2>3, TakeKeepsInvariant
<1>3. CASE AllocChunk(t)
  <2>1. PICK n \in 1 .. MaxBlocks, i \in Units :
          FirstRunEnd(n, i) /\ Take(t, Marked(n, i), Returned(n, i), n)
    BY <1>3 DEF AllocChunk
  <2>2. usedFlag \in [Units -> BOOLEAN] /\ usedFlag[0]
    BY DEF RunsInv, TypeOK, UsedIffOwned, HeldUnits, Units
  <2>3. /\ Marked(n, i) = Returned(n, i) .. Returned(n, i) + n - 1
        /\ Returned(n, i) \in Units /\ n \in 1 .. NumBuffers
        /\ \A j \in Marked(n, i) : j \in Units /\ ~usedFlag[j]
    <3>1. RunEnd(n, i) /\ n \in Nat /\ n >= 1
      BY <2>1 DEF FirstRunEnd
    <3>2. /\ i \in Units /\ Marked(n, i) = i + 1 - n .. i
          /\ Returned(n, i) = i + 1 - n /\ Returned(n, i) \in Units
          /\ n \in 0 .. NumBuffers
          /\ \A j \in Marked(n, i) : j \in Units /\ ~usedFlag[j]
      BY <2>2, <3>1, RunIsMarked
    <3>3. i + 1 - n .. i = (i + 1 - n) .. (i + 1 - n) + n - 1
      BY <3>1, <3>2 DEF Units
    <3> QED BY <3>1, <3>2, <3>3
  <2>4. owns[t] = Nothing
    BY <1>3 DEF AllocChunk
  <2> QED BY <2>1, <2>3, <2>4, TakeKeepsInvariant
<1>4. CASE PoolTxCompletion(t)
  BY <1>4, CompletionKeepsInvariant
<1> QED BY <1>1, <1>2, <1>3, <1>4

LEMMA PoolStutterInvariant ==
  ASSUME RunsInv, UNCHANGED poolVars
  PROVE  RunsInv'
  BY DEF RunsInv, TypeOK, OwnersApart, UsedIffOwned, RunsRecorded, poolVars, Run,
         HeldUnits, Units, Nothing

\* With the first unit held (usb_dev_msc holds twenty), the pool keeps its
\* books right: every run it gives out is whole, free and marked.
THEOREM PoolInvariant ==
  ASSUME Held >= 1
  PROVE  PoolSpec => []RunsInv
<1>1. PoolInit => RunsInv
  BY PoolInitInvariant
<1>2. RunsInv /\ [PoolNext]_poolVars => RunsInv'
  BY PoolNextInvariant, PoolStutterInvariant
<1> QED BY <1>1, <1>2, PTL DEF PoolSpec

\* The runs given out begin in the pool.
THEOREM PoolTypeCorrect ==
  ASSUME Held >= 1
  PROVE  PoolSpec => []TypeOK
<1>1. RunsInv => TypeOK
  BY DEF RunsInv
<1> QED BY <1>1, PoolInvariant, PTL

\* No two transfers are ever given the same unit.
THEOREM PoolOwnersApart ==
  ASSUME Held >= 1
  PROVE  PoolSpec => []OwnersApart
<1>1. RunsInv => OwnersApart
  BY DEF RunsInv
<1> QED BY <1>1, PoolInvariant, PTL

\* No unit is leaked, and none that is in use is marked free.
THEOREM PoolUsedIffOwned ==
  ASSUME Held >= 1
  PROVE  PoolSpec => []UsedIffOwned
<1>1. RunsInv => UsedIffOwned
  BY DEF RunsInv
<1> QED BY <1>1, PoolInvariant, PTL

-----------------------------------------------------------------------------
(* The mass storage device: types.                                         *)

SenseKeys == {"UNIT_ATTN", NotReady, Illegal}
Items == {<<"info", 0>>, <<"junk", 0>>} \cup ({"block"} \X Nat)
           \cup ({"sense"} \X SenseKeys)
CswType == [tag : {0, 1}, status : {0, 1}]
Packets == [kind : {"command"}, cmd : Commands, tag : {0, 1}]
             \cup [kind : {"data"}, block : Nat]

DeviceType ==
  [ucSCSIState : {"IDLE", "SEND_BLOCKS", "RECEIVE_BLOCKS", "SEND_STATUS",
                  "SENT_STATUS"},
   ulBytesToTransfer : Int, ulCurrentLBA : Nat, pvMedia : BOOLEAN,
   ucSenseKey : SenseKeys, csw : CswType, coreTx : BOOLEAN, coreRx : BOOLEAN,
   chunk : Seq(Items), run : Nat, inPacket : Seq(CswType), inStall : BOOLEAN,
   irqIn : BOOLEAN, fifo : Seq(Packets), rxq : Seq(Packets),
   outStall : BOOLEAN, irqOut : BOOLEAN, inUse : Int, lost : Nat,
   units : Nat, alloc : {"ok", "failed", "halted"}]

HostType ==
  [phase : {"idle", "away", "data", "csw"}, cmd : Commands \cup {None},
   tag : {0, 1}, got : Seq(Items), sent : Nat, csw : Seq(CswType),
   why : SenseKeys \cup {"unknown"}]

DiskType == [inserted : BOOLEAN, written : Seq(Nat \X Packets)]

MscTypeOK == dev \in DeviceType /\ host \in HostType /\ disk \in DiskType

\* The pool's books, and what keeps them right: units are in use only while
\* data or a response is on its way, and then nothing else is due on the IN
\* endpoint that could end the transfer early.  An allocation fails only for
\* what has been lost, and what it has done to the program stays.
BooksRight(d) ==
  /\ d.inUse = d.units + d.lost /\ d.inUse <= Room
  /\ d.units <= d.run /\ d.run <= Chunk /\ Len(d.chunk) <= d.run
  /\ d.alloc # "ok" => d.lost + Chunk > Room
  /\ dev.alloc # "ok" => d.alloc # "ok"
  /\ d.run > 0 => d.ucSCSIState \in {"SEND_BLOCKS", "SEND_STATUS"}
  /\ d.inStall => d.ucSCSIState = "SEND_STATUS" /\ d.run = 0
  /\ d.inPacket # << >> => d.ucSCSIState = "SENT_STATUS"

InQuiet == dev.inPacket = << >> /\ ~dev.inStall /\ ~dev.irqIn

PoolInv ==
  /\ BooksRight(dev)
  /\ dev.irqIn => /\ dev.run = 0 /\ dev.inPacket = << >> /\ ~dev.inStall
                  /\ dev.ucSCSIState # "SEND_BLOCKS"

-----------------------------------------------------------------------------
(* A command, stage by stage.                                              *)

\* What the host takes for the sense of the last failure is the device's.
Knows(why) == why = "unknown" \/ why = dev.ucSenseKey

\* Nothing is on its way to the device.
OutEmpty == dev.fifo = << >> /\ dev.rxq = << >> /\ ~dev.irqOut

\* The command has ended like this.
Outcome(s) ==
  /\ s.tag = host.tag
  /\ s.status = 0 => /\ host.got = Wanted(host.cmd)
                     /\ disk.written = ToWrite(host.cmd)
  /\ s.status = 1 => host.got = << >> /\ disk.written = << >>

Free ==
  /\ host.phase \in {"idle", "away"}
  /\ OutEmpty /\ dev.run = 0 /\ dev.chunk = << >>
  /\ dev.inPacket = << >> /\ ~dev.inStall /\ ~dev.outStall
  /\ dev.ucSCSIState = "IDLE" \/ (dev.ucSCSIState = "SENT_STATUS" /\ dev.irqIn)
  /\ host.phase = "idle" => /\ ~dev.coreRx /\ Knows(host.why)
                            /\ host.csw # << >> => Outcome(host.csw[1])

\* The host is in command c, its number t.
InCommand ==
  /\ host.cmd \in Commands /\ host.tag \in {0, 1}
  /\ host.phase \in {"data", "csw"}

Sent ==
  /\ InCommand /\ Knows(host.why)
  /\ host.phase = (IF host.cmd.n = 0 THEN "csw" ELSE "data")
  /\ dev.fifo = <<[kind |-> "command", cmd |-> host.cmd, tag |-> host.tag]>>
  /\ dev.rxq = << >> /\ dev.irqOut /\ ~dev.coreRx
  /\ dev.run = 0 /\ dev.chunk = << >>
  /\ dev.inPacket = << >> /\ ~dev.inStall /\ ~dev.outStall
  /\ dev.ucSCSIState = "IDLE" \/ (dev.ucSCSIState = "SENT_STATUS" /\ dev.irqIn)
  /\ host.got = << >> /\ host.sent = 0 /\ disk.written = << >>
  /\ host.cmd.kind = "write" /\ dev.pvMedia => disk.inserted

Reading ==
  /\ InCommand /\ Knows(host.why) /\ host.cmd.kind = "read"
  /\ dev.ucSCSIState = "SEND_BLOCKS" /\ OutEmpty /\ ~dev.outStall
  /\ dev.csw = [tag |-> host.tag, status |-> 0]
  /\ disk.inserted /\ disk.written = << >>
  /\ dev.ulBytesToTransfer \in 1 .. host.cmd.n
  /\ dev.run = Least(dev.ulBytesToTransfer, Chunk)
  /\ dev.ulCurrentLBA = host.cmd.lba + (host.cmd.n - dev.ulBytesToTransfer)
  /\ Len(host.got) + Len(dev.chunk) =
       (host.cmd.n - dev.ulBytesToTransfer) + dev.run
  /\ \A i \in 1 .. Len(host.got) :
       host.got[i] = <<"block", host.cmd.lba + i - 1>>
  /\ \A i \in 1 .. Len(dev.chunk) :
       dev.chunk[i] = <<"block", host.cmd.lba + Len(host.got) + i - 1>>
  /\ host.phase = (IF Len(host.got) = host.cmd.n THEN "csw" ELSE "data")

Response(item) ==
  IF host.cmd.kind = "sense" THEN item = <<"sense", dev.ucSenseKey>>
                             ELSE item = <<"info", 0>>

Answering ==
  /\ InCommand /\ Knows(host.why)
  /\ host.cmd.kind \in {"inquiry", "capacity", "sense"}
  /\ dev.ucSCSIState = "SEND_STATUS" /\ OutEmpty /\ ~dev.outStall
  /\ dev.csw = [tag |-> host.tag, status |-> 0]
  /\ disk.written = << >> /\ dev.run = 1
  /\ \E item \in Items :
       /\ Response(item)
       /\ \/ dev.chunk = <<item>> /\ host.got = << >> /\ host.phase = "data"
          \/ dev.chunk = << >> /\ host.got = <<item>>

StatusDue ==
  /\ InCommand
  /\ dev.ucSCSIState = "SENT_STATUS" /\ OutEmpty /\ ~dev.outStall
  /\ ~dev.irqIn /\ ~dev.inStall /\ dev.run = 0 /\ dev.chunk = << >>
  /\ ~dev.coreRx
  /\ host.phase = "data" => host.cmd.kind \notin {"write", "badOut"}
  /\ \E s \in CswType :
       /\ dev.inPacket = <<s>> /\ Outcome(s)
       /\ Knows(IF s.status = 1 THEN Reason(host.cmd) ELSE host.why)

Failing ==
  /\ InCommand /\ Knows(Reason(host.cmd))
  /\ dev.ucSCSIState = "SEND_STATUS"
  /\ dev.csw = [tag |-> host.tag, status |-> 1]
  /\ dev.fifo = << >> /\ dev.rxq = << >>
  /\ dev.run = 0 /\ dev.chunk = << >> /\ dev.inPacket = << >>
  /\ host.got = << >> /\ disk.written = << >>
  /\ \/ host.phase = "csw" /\ ~dev.inStall /\ ~dev.outStall /\ (dev.irqIn => ~dev.irqOut)
     \/ /\ host.phase = "data" /\ ~dev.irqIn /\ ~dev.irqOut
        /\ dev.inStall = ~dev.outStall
        /\ host.cmd.kind \in {"write", "badOut"} => dev.outStall

DataPacket(k) == [kind |-> "data", block |-> k]

Receiving ==
  /\ InCommand /\ Knows(host.why) /\ host.cmd.kind = "write"
  /\ dev.ucSCSIState = "RECEIVE_BLOCKS" /\ dev.coreRx /\ ~dev.irqOut
  /\ ~dev.outStall /\ InQuiet /\ dev.run = 0 /\ dev.chunk = << >>
  /\ dev.csw = [tag |-> host.tag, status |-> 0]
  /\ disk.inserted /\ host.got = << >>
  /\ host.sent = Len(disk.written) + Len(dev.rxq) + Len(dev.fifo)
  /\ host.sent <= host.cmd.n
  /\ host.phase = (IF host.sent = host.cmd.n THEN "csw" ELSE "data")
  /\ dev.ulBytesToTransfer = host.cmd.n - Len(disk.written)
  /\ dev.ulBytesToTransfer > 0
  /\ dev.ulCurrentLBA = host.cmd.lba + Len(disk.written)
  /\ \A i \in 1 .. Len(disk.written) :
       disk.written[i] = <<host.cmd.lba + i - 1, DataPacket(i - 1)>>
  /\ \A i \in 1 .. Len(dev.rxq) :
       dev.rxq[i] = DataPacket(Len(disk.written) + i - 1)
  /\ dev.fifo = << >> \/ dev.fifo = <<DataPacket(host.sent - 1)>>

CommandInv ==
  Free \/ Sent \/ Reading \/ Answering \/ StatusDue \/ Failing \/ Receiving

-----------------------------------------------------------------------------
(* What the parts of the handlers do to the device, field by field.         *)

OutSide(d) == <<d.fifo, d.rxq, d.irqOut, d.outStall>>
InSide(d) == <<d.inPacket, d.inStall, d.irqIn>>
Place(d) == <<d.ulBytesToTransfer, d.ulCurrentLBA>>
Media(d) == <<d.pvMedia, d.ucSenseKey>>

\* The pool gives d n units, or has not got them.
Allotted(d, e, n) ==
  IF Fits(d, n)
    THEN e.inUse = d.inUse + n /\ e.units = n /\ e.alloc = d.alloc
    ELSE e.inUse = d.inUse /\ e.units = d.units /\ e.alloc = "failed"

\* What is sent when there is no buffer is as long as what should have been.
LEMMA JunkIs ==
  ASSUME NEW n \in Nat
  PROVE  Junk(n) \in Seq(Items) /\ Len(Junk(n)) = n
<1>1. \A i \in 1 .. n : <<"junk", 0>> \in Items
  BY DEF Items
<1> QED BY <1>1 DEF Junk

\* What is queued for the IN endpoint is taken from the pool, if it has it.
LEMMA QueueIs ==
  ASSUME NEW d \in DeviceType, NEW items \in Seq(Items)
  PROVE  LET e == Queue(d, items) IN
         /\ e \in DeviceType
         /\ Fits(d, Len(items)) => e.chunk = items
         /\ e.run = Len(items) /\ Len(e.chunk) = Len(items)
         /\ Allotted(d, e, Len(items)) /\ e.lost = d.lost
         /\ e.ucSCSIState = d.ucSCSIState /\ e.csw = d.csw /\ e.coreRx = d.coreRx
         /\ OutSide(e) = OutSide(d) /\ InSide(e) = InSide(d)
         /\ Place(e) = Place(d) /\ Media(e) = Media(d)
<1> DEFINE n == Len(items)
           e == Queue(d, items)
<1>1. n \in Nat /\ d.inUse + n \in Int /\ d.inUse \in Int /\ d.units \in Nat
  BY DEF DeviceType
<1> HIDE DEF n
<1>2. PICK c \in Seq(Items) :
        c = IF Fits(d, n) THEN items ELSE Junk(n)
  BY <1>1, JunkIs
<1>3. PICK u \in Int, k \in Nat :
        /\ u = IF Fits(d, n) THEN d.inUse + n ELSE d.inUse
        /\ k = IF Fits(d, n) THEN n ELSE d.units
  BY <1>1
<1>4. PICK a \in {"ok", "failed", "halted"} :
        a = IF Fits(d, n) THEN d.alloc ELSE "failed"
  BY DEF DeviceType
<1>5. e = [d EXCEPT !.run = n, !.coreTx = TRUE, !.chunk = c, !.units = k,
                    !.inUse = u, !.alloc = a]
  <2>1. CASE Fits(d, n)
    <3>1. e = [d EXCEPT !.run = n, !.coreTx = TRUE, !.chunk = c, !.units = k,
                        !.inUse = u]
      BY <1>2, <1>3, <2>1 DEF Queue, n, DeviceType
    <3>2. a = d.alloc
      BY <1>4, <2>1
    <3> HIDE DEF e
    <3> QED BY <1>1, <1>2, <1>3, <3>1, <3>2 DEF DeviceType
  <2>2. CASE ~Fits(d, n)
    <3>1. e = [d EXCEPT !.run = n, !.coreTx = TRUE, !.chunk = c, !.alloc = a]
      BY <1>2, <1>4, <2>2 DEF Queue, n
    <3>2. k = d.units /\ u = d.inUse
      BY <1>3, <2>2
    <3> HIDE DEF e
    <3> QED BY <1>1, <1>2, <1>4, <3>1, <3>2 DEF DeviceType
  <2> QED BY <2>1, <2>2
<1> HIDE DEF e
<1>6. e \in DeviceType
  BY <1>1, <1>2, <1>3, <1>4, <1>5 DEF DeviceType
<1>7. /\ e.chunk = c /\ e.run = n /\ e.inUse = u /\ e.units = k /\ e.alloc = a
      /\ e.lost = d.lost
      /\ e.ucSCSIState = d.ucSCSIState /\ e.csw = d.csw /\ e.coreRx = d.coreRx
  BY <1>5 DEF DeviceType
<1>8. OutSide(e) = OutSide(d) /\ InSide(e) = InSide(d)
  BY <1>5 DEF DeviceType, OutSide, InSide
<1>9. Place(e) = Place(d) /\ Media(e) = Media(d)
  BY <1>5 DEF DeviceType, Place, Media
<1>10. Allotted(d, e, n)
  BY <1>3, <1>4, <1>7 DEF Allotted
<1>11. Len(e.chunk) = n
  <2>1. Len(c) = n
    BY <1>1, <1>2, JunkIs DEF n
  <2> QED BY <1>7, <2>1
<1>12. Fits(d, n) => e.chunk = items
  BY <1>2, <1>7
<1> QED BY <1>6, <1>7, <1>8, <1>9, <1>10, <1>11, <1>12 DEF n, e

\* A response of one packet.
LEMMA AnswerIs ==
  ASSUME NEW d \in DeviceType, NEW item \in Items
  PROVE  LET e == Answer(d, item) IN
         /\ e \in DeviceType
         /\ Fits(d, 1) => e.chunk = <<item>>
         /\ e.run = 1 /\ Len(e.chunk) = 1
         /\ Allotted(d, e, 1) /\ e.lost = d.lost
         /\ e.ucSCSIState = "SEND_STATUS"
         /\ e.csw = [tag |-> d.csw.tag, status |-> 0] /\ e.coreRx = d.coreRx
         /\ OutSide(e) = OutSide(d) /\ InSide(e) = InSide(d)
         /\ Media(e) = Media(d)
<1> DEFINE q == Queue(d, <<item>>)
           w == [tag |-> d.csw.tag, status |-> 0]
           e == Answer(d, item)
<1>1. <<item>> \in Seq(Items) /\ Len(<<item>>) = 1
  OBVIOUS
<1>2. /\ q \in DeviceType
      /\ Fits(d, 1) => q.chunk = <<item>>
      /\ q.run = 1 /\ Len(q.chunk) = 1
      /\ Allotted(d, q, 1) /\ q.lost = d.lost
      /\ q.csw = d.csw /\ q.coreRx = d.coreRx
      /\ OutSide(q) = OutSide(d) /\ InSide(q) = InSide(d) /\ Media(q) = Media(d)
  BY <1>1, QueueIs
<1>3. w \in CswType /\ [q.csw EXCEPT !.status = 0] = w
  <2>1. d.csw \in CswType
    BY DEF DeviceType
  <2> HIDE DEF q
  <2>2. w \in CswType /\ [d.csw EXCEPT !.status = 0] = w
    BY <2>1 DEF CswType
  <2> QED BY <1>2, <2>2
<1>4. e = [q EXCEPT !.csw = w, !.ucSCSIState = "SEND_STATUS"]
  BY <1>3 DEF Answer
<1> HIDE DEF q, w, e
<1>5. /\ e \in DeviceType
      /\ e.chunk = q.chunk /\ e.run = q.run
      /\ e.inUse = q.inUse /\ e.lost = q.lost
      /\ e.units = q.units /\ e.alloc = q.alloc
      /\ e.ucSCSIState = "SEND_STATUS" /\ e.csw = w
      /\ e.coreRx = q.coreRx
      /\ OutSide(e) = OutSide(q) /\ InSide(e) = InSide(q)
      /\ Media(e) = Media(q)
  BY <1>2, <1>3, <1>4 DEF DeviceType, OutSide, InSide, Media
<1>6. Allotted(d, e, 1)
  BY <1>2, <1>5 DEF Allotted
<1> QED BY <1>2, <1>5, <1>6 DEF w, e

\* A failure before the IN data stage stalls the IN endpoint.
LEMMA FailInIs ==
  ASSUME NEW d \in DeviceType, NEW key \in SenseKeys
  PROVE  LET e == FailIn(d, key) IN
         /\ e \in DeviceType
         /\ e.chunk = d.chunk /\ e.run = d.run /\ e.inUse = d.inUse /\ e.lost = d.lost
         /\ e.units = d.units /\ e.alloc = d.alloc
         /\ e.ucSCSIState = "SEND_STATUS" /\ e.ucSenseKey = key
         /\ e.csw = [tag |-> d.csw.tag, status |-> 1]
         /\ OutSide(e) = OutSide(d)
         /\ e.inStall /\ e.inPacket = d.inPacket /\ e.irqIn = d.irqIn
<1> DEFINE w == [tag |-> d.csw.tag, status |-> 1]
<1>1. w \in CswType /\ [d.csw EXCEPT !.status = 1] = w
  BY DEF DeviceType, CswType
<1>2. FailIn(d, key) = [d EXCEPT !.csw = w, !.inStall = TRUE, !.ucSenseKey = key,
                                 !.ucSCSIState = "SEND_STATUS"]
  BY <1>1 DEF FailIn
<1> HIDE DEF w
<1>3. FailIn(d, key) \in DeviceType
  BY <1>1, <1>2 DEF DeviceType
<1>4. /\ FailIn(d, key).csw = w /\ FailIn(d, key).inStall
      /\ FailIn(d, key).ucSCSIState = "SEND_STATUS" /\ FailIn(d, key).ucSenseKey = key
  BY <1>2 DEF DeviceType
<1>5. /\ FailIn(d, key).chunk = d.chunk /\ FailIn(d, key).run = d.run
      /\ FailIn(d, key).inUse = d.inUse /\ FailIn(d, key).lost = d.lost
      /\ FailIn(d, key).units = d.units /\ FailIn(d, key).alloc = d.alloc
  BY <1>2 DEF DeviceType
<1>6. FailIn(d, key).inPacket = d.inPacket /\ FailIn(d, key).irqIn = d.irqIn
  BY <1>2 DEF DeviceType
<1>7. OutSide(FailIn(d, key)) = OutSide(d)
  BY <1>2 DEF DeviceType, OutSide
<1> QED BY <1>3, <1>4, <1>5, <1>6, <1>7 DEF w

\* A failure before the OUT data stage stalls the OUT endpoint.
LEMMA FailOutIs ==
  ASSUME NEW d \in DeviceType, NEW key \in SenseKeys
  PROVE  LET e == FailOut(d, key) IN
         /\ e \in DeviceType
         /\ e.chunk = d.chunk /\ e.run = d.run /\ e.inUse = d.inUse /\ e.lost = d.lost
         /\ e.units = d.units /\ e.alloc = d.alloc
         /\ e.ucSCSIState = "SEND_STATUS" /\ e.ucSenseKey = key
         /\ e.csw = [tag |-> d.csw.tag, status |-> 1]
         /\ InSide(e) = InSide(d)
         /\ e.outStall /\ e.fifo = d.fifo /\ e.rxq = d.rxq /\ e.irqOut = d.irqOut
<1> DEFINE w == [tag |-> d.csw.tag, status |-> 1]
<1>1. w \in CswType /\ [d.csw EXCEPT !.status = 1] = w
  BY DEF DeviceType, CswType
<1>2. FailOut(d, key) = [d EXCEPT !.csw = w, !.outStall = TRUE, !.ucSenseKey = key,
                                  !.ucSCSIState = "SEND_STATUS"]
  BY <1>1 DEF FailOut
<1> HIDE DEF w
<1>3. FailOut(d, key) \in DeviceType
  BY <1>1, <1>2 DEF DeviceType
<1>4. /\ FailOut(d, key).csw = w /\ FailOut(d, key).outStall
      /\ FailOut(d, key).ucSCSIState = "SEND_STATUS" /\ FailOut(d, key).ucSenseKey = key
  BY <1>2 DEF DeviceType
<1>5. /\ FailOut(d, key).chunk = d.chunk /\ FailOut(d, key).run = d.run
      /\ FailOut(d, key).inUse = d.inUse /\ FailOut(d, key).lost = d.lost
      /\ FailOut(d, key).units = d.units /\ FailOut(d, key).alloc = d.alloc
  BY <1>2 DEF DeviceType
<1>6. /\ FailOut(d, key).fifo = d.fifo /\ FailOut(d, key).rxq = d.rxq
      /\ FailOut(d, key).irqOut = d.irqOut
  BY <1>2 DEF DeviceType
<1>7. InSide(FailOut(d, key)) = InSide(d)
  BY <1>2 DEF DeviceType, InSide
<1> QED BY <1>3, <1>4, <1>5, <1>6, <1>7 DEF w

\* The status block is put into the IN endpoint and ends any stall of it.
LEMMA SendStatusIs ==
  ASSUME NEW d \in DeviceType
  PROVE  LET e == SendStatus(d) IN
         /\ e \in DeviceType
         /\ e.ucSCSIState = "SENT_STATUS" /\ ~e.coreRx /\ ~e.inStall
         /\ d.inPacket = << >> => e.inPacket = <<d.csw>>
         /\ e.chunk = d.chunk /\ e.run = d.run /\ e.inUse = d.inUse /\ e.lost = d.lost
         /\ e.units = d.units /\ e.alloc = d.alloc
         /\ OutSide(e) = OutSide(d) /\ Media(e) = Media(d)
<1>1. PICK p : p = IF d.inPacket = << >> THEN <<d.csw>> ELSE d.inPacket
  OBVIOUS
<1>2. p \in Seq(CswType)
  <2>1. <<d.csw>> \in Seq(CswType) /\ d.inPacket \in Seq(CswType)
    BY DEF DeviceType
  <2> QED BY <1>1, <2>1
<1>3. SendStatus(d) = [d EXCEPT !.coreTx = FALSE, !.coreRx = FALSE, !.inPacket = p,
                                !.inStall = FALSE, !.ucSCSIState = "SENT_STATUS"]
  BY <1>1 DEF SendStatus
<1> HIDE DEF SendStatus
<1>4. SendStatus(d) \in DeviceType
  BY <1>2, <1>3 DEF DeviceType
<1>5. /\ SendStatus(d).inPacket = p
      /\ ~SendStatus(d).coreRx /\ ~SendStatus(d).inStall
  BY <1>3 DEF DeviceType
<1> QED BY <1>1, <1>3, <1>4, <1>5 DEF DeviceType, OutSide, Media

\* A read of n blocks gives n blocks, those asked for if there is a medium.
LEMMA BlockReadIs ==
  ASSUME NEW lba \in Nat, NEW n \in Nat
  PROVE  /\ BlockRead(lba, n) \in Seq(Items) /\ Len(BlockRead(lba, n)) = n
         /\ disk.inserted => \A i \in 1 .. n :
                               BlockRead(lba, n)[i] = <<"block", lba + i - 1>>
<1>1. \A i \in 1 .. n : lba + i - 1 \in Nat
  OBVIOUS
<1>2. \A i \in 1 .. n : (IF disk.inserted THEN <<"block", lba + i - 1>>
                                         ELSE <<"junk", 0>>) \in Items
  BY <1>1 DEF Items
<1> QED BY <1>2 DEF BlockRead

\* The units of a run that has left go back to the pool.
LEMMA TxCompletionIs ==
  ASSUME NEW d \in DeviceType
  PROVE  LET e == TxCompletion(d) IN
         /\ e \in DeviceType
         /\ e.run = 0 /\ e.units = 0 /\ e.inUse = d.inUse - d.units
         /\ e.lost = d.lost /\ e.alloc = d.alloc
         /\ e.chunk = d.chunk /\ e.ucSCSIState = d.ucSCSIState
         /\ e.csw = d.csw /\ e.coreRx = d.coreRx
         /\ OutSide(e) = OutSide(d) /\ InSide(e) = InSide(d)
         /\ Place(e) = Place(d) /\ Media(e) = Media(d)
<1>1. PICK u \in Int : u = d.inUse - d.units
  BY DEF DeviceType
<1> DEFINE e == TxCompletion(d)
<1>2. PICK r \in Nat : r = 0 /\ e = [d EXCEPT !.run = r, !.units = r, !.inUse = u]
  BY <1>1 DEF TxCompletion
<1> HIDE DEF e
<1>3. e \in DeviceType
  BY <1>2 DEF DeviceType
<1>4. e.run = 0 /\ e.units = 0 /\ e.inUse = u
  BY <1>2 DEF DeviceType
<1>5. /\ e.lost = d.lost /\ e.alloc = d.alloc
      /\ e.chunk = d.chunk /\ e.ucSCSIState = d.ucSCSIState
      /\ e.csw = d.csw /\ e.coreRx = d.coreRx
  BY <1>2 DEF DeviceType
<1>6. /\ OutSide(e) = OutSide(d) /\ InSide(e) = InSide(d)
      /\ Place(e) = Place(d) /\ Media(e) = Media(d)
  BY <1>2 DEF DeviceType, OutSide, InSide, Place, Media
<1> QED BY <1>1, <1>3, <1>4, <1>5, <1>6 DEF e

\* The numbers of a command.
LEMMA CommandNumbers ==
  ASSUME NEW c \in Commands
  PROVE  /\ c.kind \in Kinds /\ c.lba \in Nat /\ c.n \in Nat
         /\ c.n = 0 <=> c.kind \in NoData
BY MscAssumption

\* A chunk is not empty, and at most what is left.
LEMMA ChunkNumbers ==
  ASSUME NEW n \in Nat, n > 0
  PROVE  Least(n, Chunk) \in Nat /\ Least(n, Chunk) > 0
           /\ Least(n, Chunk) <= Chunk /\ Least(n, Chunk) <= n
BY MscAssumption DEF Least

\* A command without a data stage changes only status, sense and medium.
LEMMA NoDataIs ==
  ASSUME NEW d \in DeviceType, NEW c \in Commands, c.kind \in NoData
  PROVE  LET e == Command(d, c) IN
         /\ e \in DeviceType
         /\ e.chunk = d.chunk /\ e.run = d.run /\ e.inUse = d.inUse /\ e.lost = d.lost
         /\ e.units = d.units /\ e.alloc = d.alloc
         /\ e.ucSCSIState = d.ucSCSIState /\ e.coreRx = d.coreRx
         /\ OutSide(e) = OutSide(d) /\ InSide(e) = InSide(d)
         /\ \E s \in {0, 1} :
              /\ e.csw = [tag |-> d.csw.tag, status |-> s]
              /\ c.kind = "verify" => s = d.csw.status
              /\ c.kind = "bad" => s = 1
         /\ e.ucSenseKey = (IF c.kind = "bad" THEN Illegal ELSE d.ucSenseKey)
<1> DEFINE w(s) == [tag |-> d.csw.tag, status |-> s]
<1>0. d.csw \in CswType /\ d.csw.tag \in {0, 1}
  BY DEF DeviceType, CswType
<1>1. \A s \in {0, 1} : w(s) \in CswType /\ [d.csw EXCEPT !.status = s] = w(s)
  BY <1>0 DEF CswType
<1>2. CASE c.kind = "ready"
  <2>1. PICK open \in BOOLEAN : open = (d.pvMedia \/ disk.inserted)
    OBVIOUS
  <2>2. PICK s \in {0, 1} : s = IF open THEN 0 ELSE 1
    OBVIOUS
  <2>3. PICK v \in CswType : v = w(s) /\ v = [d.csw EXCEPT !.status = s]
    BY <1>1
  <2>4. Command(d, c) = [d EXCEPT !.pvMedia = open, !.csw = v]
    BY <1>2, <2>1, <2>2, <2>3 DEF Command, TestUnitReady
  <2>5. /\ Command(d, c) \in DeviceType /\ Command(d, c).csw = v
        /\ Command(d, c).ucSenseKey = d.ucSenseKey
    BY <2>4 DEF DeviceType
  <2>6. /\ Command(d, c).chunk = d.chunk /\ Command(d, c).run = d.run
        /\ Command(d, c).inUse = d.inUse /\ Command(d, c).lost = d.lost
        /\ Command(d, c).units = d.units /\ Command(d, c).alloc = d.alloc
        /\ Command(d, c).ucSCSIState = d.ucSCSIState /\ Command(d, c).coreRx = d.coreRx
        /\ OutSide(Command(d, c)) = OutSide(d) /\ InSide(Command(d, c)) = InSide(d)
    BY <2>4 DEF DeviceType, OutSide, InSide
  <2> QED BY <1>2, <2>3, <2>5, <2>6
<1>3. CASE c.kind = "verify"
  <2>1. Command(d, c) = d
    BY <1>3 DEF Command
  <2>2. d.csw = w(d.csw.status) /\ d.csw.status \in {0, 1}
    BY <1>0 DEF CswType
  <2> QED BY <1>3, <2>1, <2>2
<1>4. CASE c.kind = "bad"
  <2>1. PICK v \in CswType : v = w(1) /\ v = [d.csw EXCEPT !.status = 1]
    BY <1>1
  <2>2. Command(d, c) = [d EXCEPT !.csw = v, !.ucSenseKey = Illegal]
    BY <1>4, <2>1 DEF Command
  <2>3. /\ Command(d, c) \in DeviceType /\ Command(d, c).csw = v
        /\ Command(d, c).ucSenseKey = Illegal
    BY <2>2 DEF DeviceType, SenseKeys
  <2>4. /\ Command(d, c).chunk = d.chunk /\ Command(d, c).run = d.run
        /\ Command(d, c).inUse = d.inUse /\ Command(d, c).lost = d.lost
        /\ Command(d, c).units = d.units /\ Command(d, c).alloc = d.alloc
        /\ Command(d, c).ucSCSIState = d.ucSCSIState /\ Command(d, c).coreRx = d.coreRx
        /\ OutSide(Command(d, c)) = OutSide(d) /\ InSide(Command(d, c)) = InSide(d)
    BY <2>2 DEF DeviceType, OutSide, InSide
  <2> QED BY <1>4, <2>1, <2>3, <2>4
<1> QED BY <1>2, <1>3, <1>4 DEF NoData

\* A first read that finds no medium loses the units it has taken.
LEMMA ReadLostIs ==
  ASSUME NEW d \in DeviceType, NEW c \in Commands, c.kind = "read",
         d.pvMedia, ~disk.inserted, Fits(d, Least(c.n, Chunk))
  PROVE  LET e == Read10(d, c)
             n == Least(c.n, Chunk)
         IN
         /\ e \in DeviceType
         /\ e.chunk = d.chunk /\ e.run = d.run
         /\ e.inUse = d.inUse + n /\ e.lost = d.lost + n
         /\ e.units = d.units /\ e.alloc = d.alloc
         /\ e.ucSCSIState = "SEND_STATUS" /\ e.ucSenseKey = NotReady
         /\ e.csw = [tag |-> d.csw.tag, status |-> 1]
         /\ OutSide(e) = OutSide(d)
         /\ e.inStall /\ e.inPacket = d.inPacket /\ e.irqIn = d.irqIn
<1> DEFINE f == FailIn(d, NotReady)
           n == Least(c.n, Chunk)
           e == Read10(d, c)
<1>1. /\ f \in DeviceType
      /\ f.chunk = d.chunk /\ f.run = d.run /\ f.inUse = d.inUse /\ f.lost = d.lost
      /\ f.units = d.units /\ f.alloc = d.alloc
      /\ f.ucSCSIState = "SEND_STATUS" /\ f.ucSenseKey = NotReady
      /\ f.csw = [tag |-> d.csw.tag, status |-> 1]
      /\ OutSide(f) = OutSide(d)
      /\ f.inStall /\ f.inPacket = d.inPacket /\ f.irqIn = d.irqIn
  BY FailInIs DEF SenseKeys
<1>2. n \in Nat /\ c.lba \in Nat
  BY CommandNumbers, ChunkNumbers DEF NoData
<1>3. e = [f EXCEPT !.pvMedia = FALSE, !.ulCurrentLBA = c.lba,
                    !.inUse = @ + n, !.lost = @ + n]
  BY DEF Read10
<1> HIDE DEF f, n, e
<1>4. PICK u \in Int, v \in Nat, a \in Nat : u = f.inUse + n /\ v = f.lost + n /\ a = c.lba
  <2>1. f.inUse \in Int /\ f.lost \in Nat
    BY <1>1 DEF DeviceType
  <2>2. f.inUse + n \in Int /\ f.lost + n \in Nat
    BY <1>2, <2>1
  <2> QED BY <1>2, <2>2
<1>5. e = [f EXCEPT !.pvMedia = FALSE, !.ulCurrentLBA = a, !.inUse = u, !.lost = v]
  BY <1>3, <1>4
<1>6. e \in DeviceType /\ e.inUse = u /\ e.lost = v
  <2>1. PICK g \in DeviceType : g = f
    BY <1>1
  <2>2. PICK h \in DeviceType : h = [g EXCEPT !.pvMedia = FALSE, !.ulCurrentLBA = a]
    BY DEF DeviceType
  <2>3. e = [h EXCEPT !.inUse = u, !.lost = v]
    BY <1>5, <2>1, <2>2
  <2> QED BY <2>3 DEF DeviceType
<1>7. u = d.inUse + n /\ v = d.lost + n
  BY <1>1, <1>4
<1>8. /\ e.chunk = f.chunk /\ e.run = f.run
      /\ e.units = f.units /\ e.alloc = f.alloc
      /\ e.ucSCSIState = f.ucSCSIState /\ e.ucSenseKey = f.ucSenseKey
      /\ e.csw = f.csw
  BY <1>1, <1>5 DEF DeviceType
<1>9. OutSide(e) = OutSide(f)
  BY <1>1, <1>5 DEF DeviceType, OutSide
<1>10. e.inStall = f.inStall /\ e.inPacket = f.inPacket /\ e.irqIn = f.irqIn
  BY <1>1, <1>5 DEF DeviceType
<1> QED BY <1>1, <1>6, <1>7, <1>8, <1>9, <1>10 DEF e, n

\* A read that finds its medium, or no buffer to read into.
LEMMA ReadStartIs ==
  ASSUME NEW d \in DeviceType, NEW c \in Commands, c.kind = "read",
         d.pvMedia, disk.inserted \/ ~Fits(d, Least(c.n, Chunk))
  PROVE  LET e == Read10(d, c)
             n == Least(c.n, Chunk)
         IN
         /\ e \in DeviceType
         /\ Fits(d, n) => e.chunk = BlockRead(c.lba, n)
         /\ e.run = n /\ Len(e.chunk) = n
         /\ Allotted(d, e, n) /\ e.lost = d.lost
         /\ e.ucSCSIState = "SEND_BLOCKS"
         /\ e.ulCurrentLBA = c.lba /\ e.ulBytesToTransfer = c.n
         /\ e.csw = d.csw /\ e.coreRx = d.coreRx
         /\ OutSide(e) = OutSide(d) /\ InSide(e) = InSide(d) /\ Media(e) = Media(d)
<1> DEFINE n == Least(c.n, Chunk)
           f == Queue(d, BlockRead(c.lba, n))
           e == Read10(d, c)
<1>1. n \in Nat /\ c.lba \in Nat /\ c.n \in Nat
  BY CommandNumbers, ChunkNumbers DEF NoData
<1>2. BlockRead(c.lba, n) \in Seq(Items) /\ Len(BlockRead(c.lba, n)) = n
  BY <1>1, BlockReadIs
<1>3. /\ f \in DeviceType
      /\ Fits(d, n) => f.chunk = BlockRead(c.lba, n)
      /\ f.run = n /\ Len(f.chunk) = n
      /\ Allotted(d, f, n) /\ f.lost = d.lost
      /\ f.csw = d.csw /\ f.coreRx = d.coreRx
      /\ OutSide(f) = OutSide(d) /\ InSide(f) = InSide(d) /\ Media(f) = Media(d)
  BY <1>2, QueueIs
<1>4. e = [f EXCEPT !.ulCurrentLBA = c.lba, !.ulBytesToTransfer = c.n,
                    !.ucSCSIState = "SEND_BLOCKS"]
  BY DEF Read10
<1> HIDE DEF f, n, e
<1>5. PICK a \in Nat, b \in Int : a = c.lba /\ b = c.n
  BY <1>1
<1>6. e = [f EXCEPT !.ulCurrentLBA = a, !.ulBytesToTransfer = b,
                    !.ucSCSIState = "SEND_BLOCKS"]
  BY <1>4, <1>5
<1>7. /\ e \in DeviceType /\ e.ucSCSIState = "SEND_BLOCKS"
      /\ e.ulCurrentLBA = a /\ e.ulBytesToTransfer = b
  BY <1>3, <1>6 DEF DeviceType
<1>8. /\ e.chunk = f.chunk /\ e.run = f.run
      /\ e.inUse = f.inUse /\ e.lost = f.lost
      /\ e.units = f.units /\ e.alloc = f.alloc
      /\ e.csw = f.csw /\ e.coreRx = f.coreRx
      /\ OutSide(e) = OutSide(f) /\ InSide(e) = InSide(f)
      /\ Media(e) = Media(f)
  BY <1>3, <1>6 DEF DeviceType, OutSide, InSide, Media
<1>9. Allotted(d, e, n)
  BY <1>3, <1>8 DEF Allotted
<1> QED BY <1>3, <1>5, <1>7, <1>8, <1>9 DEF n, e

\* A write that finds its medium opens the OUT endpoint and waits.
LEMMA WriteStartIs ==
  ASSUME NEW d \in DeviceType, NEW c \in Commands, c.kind = "write", d.pvMedia
  PROVE  LET e == Write10(d, c) IN
         /\ e \in DeviceType
         /\ e.chunk = d.chunk /\ e.run = d.run /\ e.inUse = d.inUse /\ e.lost = d.lost
         /\ e.units = d.units /\ e.alloc = d.alloc
         /\ e.ucSCSIState = "RECEIVE_BLOCKS" /\ e.coreRx
         /\ e.ulCurrentLBA = c.lba /\ e.ulBytesToTransfer = c.n
         /\ e.csw = d.csw
         /\ OutSide(e) = OutSide(d) /\ InSide(e) = InSide(d) /\ Media(e) = Media(d)
<1>1. PICK a \in Nat, b \in Int : a = c.lba /\ b = c.n
  BY CommandNumbers
<1>2. Write10(d, c) = [d EXCEPT !.ulCurrentLBA = a, !.ulBytesToTransfer = b,
                                !.coreRx = TRUE, !.ucSCSIState = "RECEIVE_BLOCKS"]
  BY <1>1 DEF Write10
<1>3. /\ Write10(d, c) \in DeviceType /\ Write10(d, c).ucSCSIState = "RECEIVE_BLOCKS"
      /\ Write10(d, c).ulCurrentLBA = a /\ Write10(d, c).ulBytesToTransfer = b
      /\ Write10(d, c).coreRx
  BY <1>2 DEF DeviceType
<1>4. /\ Write10(d, c).chunk = d.chunk /\ Write10(d, c).run = d.run
      /\ Write10(d, c).inUse = d.inUse /\ Write10(d, c).lost = d.lost
      /\ Write10(d, c).units = d.units /\ Write10(d, c).alloc = d.alloc
      /\ Write10(d, c).csw = d.csw
      /\ OutSide(Write10(d, c)) = OutSide(d) /\ InSide(Write10(d, c)) = InSide(d)
      /\ Media(Write10(d, c)) = Media(d)
  BY <1>2 DEF DeviceType, OutSide, InSide, Media
<1> QED BY <1>1, <1>3, <1>4

\* The next chunk of a read, for which there is a buffer.
LEMMA NextChunkIs ==
  ASSUME NEW d \in DeviceType, d.ulBytesToTransfer > Chunk,
         Fits(d, Least(d.ulBytesToTransfer - Chunk, Chunk))
  PROVE  LET e == SendBlocks(d, TRUE)
             n == Least(d.ulBytesToTransfer - Chunk, Chunk)
         IN
         /\ e \in DeviceType
         /\ e.chunk = BlockRead(d.ulCurrentLBA + Chunk, n)
         /\ e.run = n /\ Len(e.chunk) = n
         /\ Allotted(d, e, n) /\ e.lost = d.lost
         /\ e.ulBytesToTransfer = d.ulBytesToTransfer - Chunk
         /\ e.ulCurrentLBA = d.ulCurrentLBA + Chunk
         /\ e.ucSCSIState = d.ucSCSIState /\ e.csw = d.csw /\ e.coreRx = d.coreRx
         /\ OutSide(e) = OutSide(d) /\ InSide(e) = InSide(d) /\ Media(e) = Media(d)
<1> DEFINE left == d.ulBytesToTransfer - Chunk
           a == d.ulCurrentLBA + Chunk
           n == Least(left, Chunk)
           f == [d EXCEPT !.ulBytesToTransfer = left, !.ulCurrentLBA = a]
           e == Queue(f, BlockRead(a, n))
<1>1. left \in Nat /\ left > 0 /\ left # 0 /\ a \in Nat
  BY MscAssumption DEF DeviceType
<1>2. n \in Nat
  BY <1>1, ChunkNumbers
<1>3. BlockRead(a, n) \in Seq(Items) /\ Len(BlockRead(a, n)) = n
  BY <1>1, <1>2, BlockReadIs
<1>4. SendBlocks(d, TRUE) = e
  BY <1>1 DEF SendBlocks
<1>5. Fits(d, n)
  OBVIOUS
<1> HIDE DEF n, a, left
<1>6. left \in Int
  BY <1>1
<1>7. /\ f \in DeviceType /\ f.ulCurrentLBA = a /\ f.ulBytesToTransfer = left
      /\ f.inUse = d.inUse /\ f.units = d.units /\ f.alloc = d.alloc
      /\ f.lost = d.lost /\ f.ucSCSIState = d.ucSCSIState
      /\ f.csw = d.csw /\ f.coreRx = d.coreRx
  BY <1>1, <1>6 DEF DeviceType
<1>8. OutSide(f) = OutSide(d) /\ InSide(f) = InSide(d) /\ Media(f) = Media(d)
  BY DEF DeviceType, OutSide, InSide, Media
<1> HIDE DEF f
<1>9. Fits(f, n)
  BY <1>5, <1>7 DEF Fits
<1>10. /\ e \in DeviceType
       /\ e.chunk = BlockRead(a, n) /\ e.run = n /\ Len(e.chunk) = n
       /\ Allotted(f, e, n) /\ e.lost = f.lost
       /\ e.ucSCSIState = f.ucSCSIState /\ e.csw = f.csw /\ e.coreRx = f.coreRx
       /\ OutSide(e) = OutSide(f) /\ InSide(e) = InSide(f)
       /\ Place(e) = Place(f) /\ Media(e) = Media(f)
  BY <1>3, <1>7, <1>9, QueueIs
<1> HIDE DEF e
<1>11. Allotted(d, e, n)
  BY <1>5, <1>7, <1>9, <1>10 DEF Allotted
<1>12. e.ulBytesToTransfer = left /\ e.ulCurrentLBA = a
  BY <1>7, <1>10 DEF Place
<1> QED BY <1>4, <1>7, <1>8, <1>10, <1>11, <1>12 DEF n, a, left

\* The next chunk, for which there is none: nothing is queued.
LEMMA NoChunkIs ==
  ASSUME NEW d \in DeviceType, d.ulBytesToTransfer > Chunk,
         ~Fits(d, Least(d.ulBytesToTransfer - Chunk, Chunk))
  PROVE  LET e == SendBlocks(d, TRUE) IN
         /\ e \in DeviceType /\ e.alloc = "failed"
         /\ e.chunk = d.chunk /\ e.run = d.run /\ e.inUse = d.inUse
         /\ e.lost = d.lost /\ e.units = d.units
         /\ e.ucSCSIState = d.ucSCSIState
         /\ OutSide(e) = OutSide(d) /\ InSide(e) = InSide(d)
<1> DEFINE left == d.ulBytesToTransfer - Chunk
           a == d.ulCurrentLBA + Chunk
           e == [d EXCEPT !.ulBytesToTransfer = left, !.ulCurrentLBA = a,
                          !.alloc = "failed"]
<1>1. left \in Int /\ left # 0 /\ a \in Nat
  BY MscAssumption DEF DeviceType
<1>2. SendBlocks(d, TRUE) = e
  BY <1>1 DEF SendBlocks
<1> HIDE DEF left, a
<1>3. /\ e \in DeviceType /\ e.alloc = "failed"
      /\ e.chunk = d.chunk /\ e.run = d.run /\ e.inUse = d.inUse
      /\ e.lost = d.lost /\ e.units = d.units
      /\ e.ucSCSIState = d.ucSCSIState
      /\ OutSide(e) = OutSide(d) /\ InSide(e) = InSide(d)
  BY <1>1 DEF DeviceType, OutSide, InSide
<1> QED BY <1>2, <1>3

\* The end of a transfer: the status of success.
LEMMA SuccessIs ==
  ASSUME NEW d \in DeviceType, NEW b \in Int
  PROVE  LET e == SendStatus([d EXCEPT !.ulBytesToTransfer = b, !.csw.status = 0]) IN
         /\ e \in DeviceType
         /\ e.ucSCSIState = "SENT_STATUS" /\ ~e.coreRx /\ ~e.inStall
         /\ d.inPacket = << >> => e.inPacket = <<[tag |-> d.csw.tag, status |-> 0]>>
         /\ e.chunk = d.chunk /\ e.run = d.run /\ e.inUse = d.inUse /\ e.lost = d.lost
         /\ e.units = d.units /\ e.alloc = d.alloc
         /\ OutSide(e) = OutSide(d) /\ Media(e) = Media(d)
<1> DEFINE w == [tag |-> d.csw.tag, status |-> 0]
           f == [d EXCEPT !.ulBytesToTransfer = b, !.csw.status = 0]
<1>1. w \in CswType /\ [d.csw EXCEPT !.status = 0] = w
  <2>1. d.csw \in CswType
    BY DEF DeviceType
  <2> QED BY <2>1 DEF CswType
<1> HIDE DEF w
<1>2. f = [d EXCEPT !.ulBytesToTransfer = b, !.csw = w]
  BY <1>1
<1> HIDE DEF f
<1>3. f \in DeviceType /\ f.csw = w
  BY <1>1, <1>2 DEF DeviceType
<1>4. /\ f.chunk = d.chunk /\ f.run = d.run /\ f.inUse = d.inUse /\ f.lost = d.lost
      /\ f.units = d.units /\ f.alloc = d.alloc
      /\ OutSide(f) = OutSide(d) /\ Media(f) = Media(d) /\ f.inPacket = d.inPacket
  BY <1>2 DEF DeviceType, OutSide, Media
<1>5. /\ SendStatus(f) \in DeviceType
      /\ SendStatus(f).ucSCSIState = "SENT_STATUS" /\ ~SendStatus(f).coreRx
      /\ ~SendStatus(f).inStall
      /\ f.inPacket = << >> => SendStatus(f).inPacket = <<f.csw>>
      /\ SendStatus(f).chunk = f.chunk /\ SendStatus(f).run = f.run
      /\ SendStatus(f).inUse = f.inUse /\ SendStatus(f).lost = f.lost
      /\ SendStatus(f).units = f.units /\ SendStatus(f).alloc = f.alloc
      /\ OutSide(SendStatus(f)) = OutSide(f) /\ Media(SendStatus(f)) = Media(f)
  BY <1>3, SendStatusIs
<1> QED BY <1>3, <1>4, <1>5 DEF f, w

\* When no more than a chunk is left, its completion ends the transfer.
LEMMA LastChunkIs ==
  ASSUME NEW d \in DeviceType, d.ulBytesToTransfer <= Chunk
  PROVE  SendBlocks(d, TRUE) =
           SendStatus([d EXCEPT !.ulBytesToTransfer = 0, !.csw.status = 0])
<1>1. ~(d.ulBytesToTransfer > Chunk)
  BY MscAssumption DEF DeviceType
<1> QED BY <1>1 DEF SendBlocks

\* The blocks received are counted off.
LEMMA ReceivedIs ==
  ASSUME NEW d \in DeviceType
  PROVE  LET n == Len(d.rxq)
             f == [d EXCEPT !.rxq = << >>, !.ulBytesToTransfer = @ - n,
                            !.ulCurrentLBA = @ + n]
         IN
         /\ f \in DeviceType /\ f.rxq = << >>
         /\ f.ulBytesToTransfer = d.ulBytesToTransfer - n
         /\ f.ulCurrentLBA = d.ulCurrentLBA + n
         /\ f.chunk = d.chunk /\ f.run = d.run /\ f.inUse = d.inUse /\ f.lost = d.lost
         /\ f.units = d.units /\ f.alloc = d.alloc
         /\ f.ucSCSIState = d.ucSCSIState /\ f.csw = d.csw /\ f.coreRx = d.coreRx
         /\ f.fifo = d.fifo /\ f.irqOut = d.irqOut /\ f.outStall = d.outStall
         /\ InSide(f) = InSide(d) /\ Media(f) = Media(d)
<1> DEFINE n == Len(d.rxq)
           f == [d EXCEPT !.rxq = << >>, !.ulBytesToTransfer = @ - n,
                          !.ulCurrentLBA = @ + n]
<1>1. n \in Nat
  BY DEF DeviceType
<1> HIDE DEF n
<1>2. PICK b \in Int, a \in Nat : b = d.ulBytesToTransfer - n /\ a = d.ulCurrentLBA + n
  BY <1>1 DEF DeviceType
<1>3. PICK s \in Seq(Packets) : s = << >>
  BY EmptySeq, Zenon
<1>4. f = [d EXCEPT !.rxq = s, !.ulBytesToTransfer = b, !.ulCurrentLBA = a]
  BY <1>2, <1>3
<1> HIDE DEF f
<1>5. /\ f \in DeviceType /\ f.rxq = s
      /\ f.ulBytesToTransfer = b /\ f.ulCurrentLBA = a
  BY <1>4 DEF DeviceType
<1>6. /\ f.chunk = d.chunk /\ f.run = d.run /\ f.inUse = d.inUse /\ f.lost = d.lost
      /\ f.units = d.units /\ f.alloc = d.alloc
      /\ f.ucSCSIState = d.ucSCSIState /\ f.csw = d.csw /\ f.coreRx = d.coreRx
      /\ f.fifo = d.fifo /\ f.irqOut = d.irqOut /\ f.outStall = d.outStall
      /\ InSide(f) = InSide(d) /\ Media(f) = Media(d)
  BY <1>4 DEF DeviceType, InSide, Media
<1> QED BY <1>2, <1>3, <1>5, <1>6 DEF f, n

\* Reception is started again behind the packet that is taken.
LEMMA StartedIs ==
  ASSUME NEW d \in DeviceType, NEW rest \in Seq(Packets)
  PROVE  LET e == [d EXCEPT !.coreRx = TRUE, !.rxq = rest, !.fifo = << >>] IN
         /\ e \in DeviceType /\ e.coreRx /\ e.rxq = rest /\ e.fifo = << >>
         /\ e.chunk = d.chunk /\ e.run = d.run /\ e.inUse = d.inUse /\ e.lost = d.lost
         /\ e.units = d.units /\ e.alloc = d.alloc
         /\ e.ucSCSIState = d.ucSCSIState
         /\ e.irqOut = d.irqOut /\ e.outStall = d.outStall
         /\ InSide(e) = InSide(d) /\ Media(e) = Media(d)
<1>1. PICK none \in Seq(Packets) : none = << >>
  BY EmptySeq, Zenon
<1> DEFINE e == [d EXCEPT !.coreRx = TRUE, !.rxq = rest, !.fifo = none]
<1>2. /\ e \in DeviceType /\ e.coreRx /\ e.rxq = rest /\ e.fifo = none
      /\ e.chunk = d.chunk /\ e.run = d.run /\ e.inUse = d.inUse /\ e.lost = d.lost
      /\ e.units = d.units /\ e.alloc = d.alloc
      /\ e.ucSCSIState = d.ucSCSIState
      /\ e.irqOut = d.irqOut /\ e.outStall = d.outStall
      /\ InSide(e) = InSide(d) /\ Media(e) = Media(d)
  BY DEF DeviceType, InSide, Media
<1> QED BY <1>1, <1>2

\* The status block takes the number of the command.
LEMMA TaggedIs ==
  ASSUME NEW d \in DeviceType, NEW t \in {0, 1}
  PROVE  LET e == [d EXCEPT !.csw = [tag |-> t, status |-> 0]] IN
         /\ e \in DeviceType /\ e.csw = [tag |-> t, status |-> 0]
         /\ e.chunk = d.chunk /\ e.run = d.run /\ e.inUse = d.inUse /\ e.lost = d.lost
         /\ e.units = d.units /\ e.alloc = d.alloc
         /\ e.ucSCSIState = d.ucSCSIState /\ e.coreRx = d.coreRx
         /\ OutSide(e) = OutSide(d) /\ InSide(e) = InSide(d) /\ Media(e) = Media(d)
<1>1. PICK w \in CswType : w = [tag |-> t, status |-> 0]
  BY DEF CswType
<1> DEFINE e == [d EXCEPT !.csw = w]
<1>2. /\ e \in DeviceType /\ e.csw = w
      /\ e.chunk = d.chunk /\ e.run = d.run /\ e.inUse = d.inUse /\ e.lost = d.lost
      /\ e.units = d.units /\ e.alloc = d.alloc
      /\ e.ucSCSIState = d.ucSCSIState /\ e.coreRx = d.coreRx
      /\ OutSide(e) = OutSide(d) /\ InSide(e) = InSide(d) /\ Media(e) = Media(d)
  BY DEF DeviceType, OutSide, InSide, Media
<1> QED BY <1>1, <1>2

-----------------------------------------------------------------------------
(* The pool's books through the handlers.                                   *)

\* Sending a status leaves the books as they are.
LEMMA StatusBooks ==
  ASSUME NEW d \in DeviceType, NEW e \in DeviceType, BooksRight(d), d.run = 0,
         e.ucSCSIState = "SENT_STATUS", ~e.inStall,
         e.chunk = d.chunk, e.run = d.run, e.inUse = d.inUse, e.lost = d.lost,
         e.units = d.units, e.alloc = d.alloc
  PROVE  BooksRight(e)
BY DEF BooksRight, DeviceType

\* So does a command that fails before its data stage, whatever it lost.
LEMMA FailBooks ==
  ASSUME NEW d \in DeviceType, NEW e \in DeviceType, BooksRight(d),
         d.ucSCSIState = "IDLE", e.ucSCSIState = "SEND_STATUS",
         e.chunk = d.chunk, e.run = d.run, e.inPacket = d.inPacket,
         e.units = d.units, e.alloc = d.alloc,
         NEW n \in Nat, e.inUse = d.inUse + n, e.lost = d.lost + n, Fits(d, n)
  PROVE  BooksRight(e)
<1>1. d.run = 0 /\ d.inPacket = << >> /\ d.inUse = d.units + d.lost
  BY DEF BooksRight, DeviceType
<1>2. e.inUse = e.units + e.lost
  BY <1>1 DEF DeviceType
<1>n. /\ d.inUse \in Int /\ d.lost \in Nat
      /\ Room \in Nat /\ Chunk \in Nat
  BY MscAssumption DEF DeviceType
<1>3. e.inUse <= Room
  BY <1>n DEF Fits
<1>4. e.alloc # "ok" => e.lost + Chunk > Room
  <2> SUFFICES ASSUME e.alloc # "ok" PROVE e.lost + Chunk > Room
    OBVIOUS
  <2>1. d.lost + Chunk > Room
    BY DEF BooksRight
  <2> QED BY <1>n, <2>1
<1> QED BY <1>1, <1>2, <1>3, <1>4 DEF BooksRight, DeviceType

\* One that loses nothing.
LEMMA RefusedBooks ==
  ASSUME NEW d \in DeviceType, NEW e \in DeviceType, BooksRight(d),
         d.ucSCSIState = "IDLE", e.ucSCSIState = "SEND_STATUS",
         e.chunk = d.chunk, e.run = d.run, e.inPacket = d.inPacket,
         e.inUse = d.inUse, e.lost = d.lost,
         e.units = d.units, e.alloc = d.alloc
  PROVE  BooksRight(e)
<1>1. e.inUse = d.inUse + 0 /\ e.lost = d.lost + 0 /\ 0 \in Nat
  BY DEF DeviceType
<1>2. Fits(d, 0)
  BY MscAssumption DEF Fits, BooksRight, DeviceType
<1> QED BY <1>1, <1>2, FailBooks

\* A run that is queued while none is on its way, with a buffer or without one.
LEMMA AllottedBooks ==
  ASSUME NEW d \in DeviceType, NEW e \in DeviceType, BooksRight(d), d.run = 0,
         d.inPacket = << >>, ~d.inStall, InSide(e) = InSide(d),
         NEW n \in Nat, n > 0, n <= Chunk, Allotted(d, e, n), e.lost = d.lost,
         e.run = n, Len(e.chunk) = n,
         e.ucSCSIState \in {"SEND_BLOCKS", "SEND_STATUS"}
  PROVE  BooksRight(e)
<1>1. d.units = 0 /\ d.inUse = d.lost /\ d.lost \in Nat /\ Room \in Nat /\ Chunk \in Nat
  BY MscAssumption DEF BooksRight, DeviceType
<1>2. e.inPacket = << >> /\ ~e.inStall
  BY DEF InSide
<1>3. CASE Fits(d, n)
  <2>1. e.inUse = d.inUse + n /\ e.units = n /\ e.alloc = d.alloc
    BY <1>3 DEF Allotted
  <2>2. e.inUse = e.units + e.lost /\ e.inUse <= Room
    BY <1>1, <1>3, <2>1 DEF Fits
  <2>3. /\ e.alloc # "ok" => e.lost + Chunk > Room
        /\ dev.alloc # "ok" => e.alloc # "ok"
    BY <2>1 DEF BooksRight
  <2> QED BY <1>2, <2>1, <2>2, <2>3 DEF BooksRight
<1>4. CASE ~Fits(d, n)
  <2>1. e.inUse = d.inUse /\ e.units = 0 /\ e.alloc = "failed"
    BY <1>1, <1>4 DEF Allotted
  <2>2. e.inUse = e.units + e.lost /\ e.inUse <= Room
    BY <1>1, <2>1 DEF BooksRight
  <2>3. e.lost + Chunk > Room
    BY <1>1, <1>4 DEF Fits
  <2> QED BY <1>2, <2>1, <2>2, <2>3 DEF BooksRight
<1> QED BY <1>3, <1>4

\* A command that is answered at once leaves the books as they are.
LEMMA NoDataBooks ==
  ASSUME NEW d \in DeviceType, BooksRight(d), d.ucSCSIState = "IDLE",
         NEW c \in Commands, c.n = 0
  PROVE  SendStatus(Command(d, c)) \in DeviceType
           /\ BooksRight(SendStatus(Command(d, c)))
<1> DEFINE e == Command(d, c)
<1>1. c.kind \in NoData
  BY CommandNumbers
<1>2. /\ e \in DeviceType
      /\ e.chunk = d.chunk /\ e.run = d.run /\ e.inUse = d.inUse /\ e.lost = d.lost
      /\ e.units = d.units /\ e.alloc = d.alloc
  BY <1>1, NoDataIs
<1>3. d.run = 0
  BY DEF BooksRight, DeviceType
<1> HIDE DEF e
<1>4. /\ SendStatus(e) \in DeviceType
      /\ SendStatus(e).ucSCSIState = "SENT_STATUS" /\ ~SendStatus(e).inStall
      /\ SendStatus(e).chunk = e.chunk /\ SendStatus(e).run = e.run
      /\ SendStatus(e).inUse = e.inUse /\ SendStatus(e).lost = e.lost
      /\ SendStatus(e).units = e.units /\ SendStatus(e).alloc = e.alloc
  BY <1>2, SendStatusIs
<1>5. BooksRight(SendStatus(e))
  BY <1>2, <1>3, <1>4, StatusBooks
<1> QED BY <1>4, <1>5 DEF e

\* A response takes one unit.
LEMMA AnswerBooks ==
  ASSUME NEW d \in DeviceType, BooksRight(d), d.ucSCSIState = "IDLE",
         NEW item \in Items
  PROVE  Answer(d, item) \in DeviceType /\ BooksRight(Answer(d, item))
<1>1. d.run = 0 /\ d.inPacket = << >> /\ ~d.inStall
  BY DEF BooksRight, DeviceType
<1> DEFINE e == Answer(d, item)
<1>2. /\ e \in DeviceType /\ e.run = 1 /\ Len(e.chunk) = 1
      /\ Allotted(d, e, 1) /\ e.lost = d.lost
      /\ e.ucSCSIState = "SEND_STATUS" /\ InSide(e) = InSide(d)
  BY AnswerIs
<1> HIDE DEF e
<1>3. 1 \in Nat /\ 1 > 0 /\ 1 <= Chunk
  BY MscAssumption
<1>4. BooksRight(e)
  BY <1>1, <1>2, <1>3, AllottedBooks
<1> QED BY <1>2, <1>4 DEF e

\* A command refused on the IN endpoint leaves the books right.
LEMMA FailInBooks ==
  ASSUME NEW d \in DeviceType, BooksRight(d), d.ucSCSIState = "IDLE",
         NEW key \in SenseKeys
  PROVE  FailIn(d, key) \in DeviceType /\ BooksRight(FailIn(d, key))
<1> DEFINE e == FailIn(d, key)
<1>1. /\ e \in DeviceType /\ e.chunk = d.chunk /\ e.run = d.run
      /\ e.inUse = d.inUse /\ e.lost = d.lost
      /\ e.units = d.units /\ e.alloc = d.alloc
      /\ e.ucSCSIState = "SEND_STATUS" /\ e.inPacket = d.inPacket
  BY FailInIs
<1> HIDE DEF e
<1> QED BY <1>1, RefusedBooks DEF e

\* And so does one refused on the OUT endpoint.
LEMMA FailOutBooks ==
  ASSUME NEW d \in DeviceType, BooksRight(d), d.ucSCSIState = "IDLE",
         NEW key \in SenseKeys
  PROVE  FailOut(d, key) \in DeviceType /\ BooksRight(FailOut(d, key))
<1> DEFINE e == FailOut(d, key)
<1>1. /\ e \in DeviceType /\ e.chunk = d.chunk /\ e.run = d.run
      /\ e.inUse = d.inUse /\ e.lost = d.lost
      /\ e.units = d.units /\ e.alloc = d.alloc
      /\ e.ucSCSIState = "SEND_STATUS" /\ InSide(e) = InSide(d)
  BY FailOutIs
<1> HIDE DEF e
<1>2. e.inPacket = d.inPacket
  BY <1>1 DEF InSide
<1> QED BY <1>1, <1>2, RefusedBooks DEF e

\* A read takes a chunk, which without a medium is lost and counted so.
LEMMA ReadBooks ==
  ASSUME NEW d \in DeviceType, BooksRight(d), d.ucSCSIState = "IDLE",
         NEW c \in Commands, c.kind = "read"
  PROVE  Read10(d, c) \in DeviceType /\ BooksRight(Read10(d, c))
<1> DEFINE e == Read10(d, c)
           n == Least(c.n, Chunk)
<1>n. n \in Nat /\ n > 0 /\ n <= Chunk
  BY CommandNumbers, ChunkNumbers DEF NoData
<1>1. CASE ~d.pvMedia
  <2>1. e = FailIn(d, NotReady) /\ NotReady \in SenseKeys
    BY <1>1 DEF Read10, SenseKeys
  <2> HIDE DEF e
  <2> QED BY <2>1, FailInBooks DEF e
<1>2. CASE d.pvMedia /\ ~disk.inserted /\ Fits(d, n)
  <2>1. /\ e \in DeviceType /\ e.chunk = d.chunk /\ e.run = d.run
        /\ e.inUse = d.inUse + n /\ e.lost = d.lost + n
        /\ e.units = d.units /\ e.alloc = d.alloc
        /\ e.ucSCSIState = "SEND_STATUS" /\ e.inPacket = d.inPacket
    BY <1>2, ReadLostIs
  <2> HIDE DEF e, n
  <2> QED BY <1>n, <1>2, <2>1, FailBooks DEF e
<1>3. CASE d.pvMedia /\ (disk.inserted \/ ~Fits(d, n))
  <2>1. /\ e \in DeviceType /\ e.run = n /\ Len(e.chunk) = n
        /\ Allotted(d, e, n) /\ e.lost = d.lost
        /\ e.ucSCSIState = "SEND_BLOCKS" /\ InSide(e) = InSide(d)
    BY <1>3, ReadStartIs
  <2>2. d.run = 0 /\ d.inPacket = << >> /\ ~d.inStall
    BY DEF BooksRight, DeviceType
  <2> HIDE DEF e, n
  <2>3. BooksRight(e)
    BY <1>n, <2>1, <2>2, AllottedBooks
  <2> QED BY <2>1, <2>3 DEF e
<1> QED BY <1>1, <1>2, <1>3

\* A write takes none.
LEMMA WriteBooks ==
  ASSUME NEW d \in DeviceType, BooksRight(d), d.ucSCSIState = "IDLE",
         NEW c \in Commands, c.kind = "write"
  PROVE  Write10(d, c) \in DeviceType /\ BooksRight(Write10(d, c))
<1> DEFINE e == Write10(d, c)
<1>1. CASE ~d.pvMedia
  <2>1. e = FailOut(d, NotReady) /\ NotReady \in SenseKeys
    BY <1>1 DEF Write10, SenseKeys
  <2> HIDE DEF e
  <2> QED BY <2>1, FailOutBooks DEF e
<1>2. CASE d.pvMedia
  <2>1. /\ e \in DeviceType
        /\ e.chunk = d.chunk /\ e.run = d.run /\ e.inUse = d.inUse /\ e.lost = d.lost
        /\ e.units = d.units /\ e.alloc = d.alloc
        /\ e.ucSCSIState = "RECEIVE_BLOCKS" /\ InSide(e) = InSide(d)
    BY <1>2, WriteStartIs
  <2>2. /\ d.run = 0 /\ d.inPacket = << >> /\ ~d.inStall
        /\ Len(d.chunk) <= d.run
    BY DEF BooksRight, DeviceType
  <2>3. e.inPacket = << >> /\ ~e.inStall
    BY <2>1, <2>2 DEF InSide
  <2> HIDE DEF e
  <2>4. BooksRight(e)
    BY <2>1, <2>2, <2>3 DEF BooksRight
  <2> QED BY <2>1, <2>4 DEF e
<1> QED BY <1>1, <1>2

\* Every command keeps the books.
LEMMA CommandBooks ==
  ASSUME NEW d \in DeviceType, BooksRight(d), d.ucSCSIState = "IDLE",
         NEW c \in Commands, c.n # 0
  PROVE  Command(d, c) \in DeviceType /\ BooksRight(Command(d, c))
<1>1. c.kind \in Kinds /\ c.kind \notin NoData
  BY CommandNumbers
<1>2. CASE c.kind \in {"inquiry", "capacity", "sense"}
  <2>1. <<"info", 0>> \in Items /\ <<"sense", d.ucSenseKey>> \in Items
    BY DEF Items, DeviceType
  <2>2. CASE c.kind = "capacity" /\ ~d.pvMedia
    <3>1. Command(d, c) = FailIn(d, NotReady) /\ NotReady \in SenseKeys
      BY <2>2 DEF Command, SenseKeys
    <3> QED BY <3>1, FailInBooks
  <2>3. CASE ~(c.kind = "capacity" /\ ~d.pvMedia)
    <3>1. \E item \in Items : Command(d, c) = Answer(d, item)
      BY <1>2, <2>1, <2>3 DEF Command
    <3> QED BY <3>1, AnswerBooks
  <2> QED BY <2>2, <2>3
<1>3. CASE c.kind = "read"
  BY <1>3, ReadBooks DEF Command
<1>4. CASE c.kind = "write"
  BY <1>4, WriteBooks DEF Command
<1>5. CASE c.kind = "badIn"
  BY <1>5, FailInBooks DEF Command, SenseKeys
<1>6. CASE c.kind = "badOut"
  BY <1>6, FailOutBooks DEF Command, SenseKeys
<1> QED BY <1>1, <1>2, <1>3, <1>4, <1>5, <1>6 DEF Kinds, NoData, NeedsMedium

\* What is first in the endpoint, or in the DMA's queue.
LEMMA ReceivedSeq ==
  ASSUME NEW d \in DeviceType
  PROVE  /\ Received(d) \in Seq(Packets)
         /\ Received(d) # << >> => /\ Head(Received(d)) \in Packets
                                   /\ Tail(Received(d)) \in Seq(Packets)
<1>1. d.rxq \in Seq(Packets) /\ d.fifo \in Seq(Packets)
  BY DEF DeviceType
<1>2. Received(d) \in Seq(Packets)
  BY <1>1 DEF Received
<1> QED BY <1>2

\* A packet is a command or a block.
LEMMA PacketIs ==
  ASSUME NEW p \in Packets
  PROVE  /\ p.kind \in {"command", "data"}
         /\ p.kind # "data" => p.cmd \in Commands /\ p.tag \in {0, 1}
BY DEF Packets

\* Starting reception has nothing to do with the books.
LEMMA StartedBooks ==
  ASSUME NEW d \in DeviceType, NEW e \in DeviceType, BooksRight(d),
         e.chunk = d.chunk, e.run = d.run, e.inUse = d.inUse, e.lost = d.lost,
         e.units = d.units, e.alloc = d.alloc,
         e.ucSCSIState = d.ucSCSIState, InSide(e) = InSide(d)
  PROVE  BooksRight(e)
BY DEF BooksRight, InSide

\* The packet that comes first is taken, and its command done.
LEMMA TakeCommandBooks ==
  ASSUME NEW d \in DeviceType, BooksRight(d), d.ucSCSIState = "IDLE",
         Received(d) # << >>
  PROVE  TakeCommand(d) \in DeviceType /\ BooksRight(TakeCommand(d))
<1>1. PICK p \in Packets, rest \in Seq(Packets) :
        p = Head(Received(d)) /\ rest = Tail(Received(d))
  BY ReceivedSeq
<1> DEFINE e == [d EXCEPT !.coreRx = TRUE, !.rxq = rest, !.fifo = << >>]
           f == [e EXCEPT !.csw = [tag |-> p.tag, status |-> 0]]
<1>2. TakeCommand(d) = IF p.kind = "data" THEN e
                       ELSE IF p.cmd.n = 0 THEN SendStatus(Command(f, p.cmd))
                       ELSE Command(f, p.cmd)
  BY <1>1 DEF TakeCommand
<1>3. CASE p.kind = "data"
  <2>1. e \in DeviceType /\ BooksRight(e)
    <3>1. /\ e \in DeviceType /\ e.ucSCSIState = d.ucSCSIState
          /\ e.chunk = d.chunk /\ e.run = d.run /\ e.inUse = d.inUse /\ e.lost = d.lost
          /\ e.units = d.units /\ e.alloc = d.alloc
          /\ InSide(e) = InSide(d)
      BY StartedIs
    <3> HIDE DEF e
    <3> QED BY <3>1, StartedBooks
  <2> HIDE DEF e, f
  <2> QED BY <1>2, <1>3, <2>1
<1>4. CASE p.kind # "data"
  <2>1. p.cmd \in Commands /\ p.tag \in {0, 1}
    BY <1>4, PacketIs
  <2>2. f \in DeviceType /\ BooksRight(f) /\ f.ucSCSIState = "IDLE"
    <3>1. /\ e \in DeviceType /\ e.ucSCSIState = d.ucSCSIState
          /\ e.chunk = d.chunk /\ e.run = d.run /\ e.inUse = d.inUse /\ e.lost = d.lost
          /\ e.units = d.units /\ e.alloc = d.alloc
          /\ InSide(e) = InSide(d)
      BY StartedIs
    <3> HIDE DEF e
    <3>2. /\ f \in DeviceType /\ f.ucSCSIState = e.ucSCSIState
          /\ f.chunk = e.chunk /\ f.run = e.run /\ f.inUse = e.inUse /\ f.lost = e.lost
          /\ f.units = e.units /\ f.alloc = e.alloc
          /\ InSide(f) = InSide(e)
      BY <2>1, <3>1, TaggedIs
    <3> HIDE DEF f
    <3> QED BY <3>1, <3>2, StartedBooks
  <2> HIDE DEF e, f
  <2>3. CASE p.cmd.n = 0
    BY <1>2, <1>4, <2>1, <2>2, <2>3, NoDataBooks
  <2>4. CASE p.cmd.n # 0
    BY <1>2, <1>4, <2>1, <2>2, <2>4, CommandBooks
  <2> QED BY <2>3, <2>4
<1> QED BY <1>3, <1>4

\* The part of HandleEndpoints for the IN endpoint.
LEMMA InPartBooks ==
  ASSUME NEW d \in DeviceType, BooksRight(d),
         d.irqIn => /\ d.run = 0 /\ d.inPacket = << >> /\ ~d.inStall
                    /\ d.ucSCSIState # "SEND_BLOCKS"
  PROVE  InPart(d) \in DeviceType /\ BooksRight(InPart(d))
<1> DEFINE c == TxCompletion(d)
<1>0. d.run \in Nat /\ d.chunk \in Seq(Items)
  BY DEF DeviceType
<1>1. /\ c \in DeviceType
      /\ c.run = 0 /\ c.units = 0 /\ c.inUse = d.inUse - d.units
      /\ c.lost = d.lost /\ c.alloc = d.alloc
      /\ c.chunk = d.chunk /\ c.ucSCSIState = d.ucSCSIState
      /\ InSide(c) = InSide(d)
  BY TxCompletionIs
<1>2. CASE ~(d.irqIn \/ TxPending(d))
  BY <1>2 DEF InPart
<1>3. CASE TxPending(d)
  <2>0. 0 \in Int
    OBVIOUS
  <2>1. d.run > 0 /\ d.chunk = << >> /\ Len(d.chunk) = 0
    BY <1>3 DEF TxPending
  <2>2. /\ d.ucSCSIState \in {"SEND_BLOCKS", "SEND_STATUS"}
        /\ d.inPacket = << >> /\ d.inUse = d.units + d.lost /\ d.inUse <= Room
        /\ d.inStall => d.ucSCSIState = "SEND_STATUS" /\ d.run = 0
        /\ d.alloc # "ok" => d.lost + Chunk > Room
        /\ dev.alloc # "ok" => d.alloc # "ok"
    BY <2>1 DEF BooksRight
  <2>3. ~d.inStall
    BY <1>0, <2>1, <2>2
  <2>i. c.inPacket = << >> /\ ~c.inStall
    BY <1>1, <2>2, <2>3 DEF InSide
  <2>4. BooksRight(c)
    <3>1. c.inUse = c.units + c.lost /\ c.inUse <= Room /\ c.units <= c.run
          /\ c.run <= Chunk /\ Len(c.chunk) <= c.run
      BY <1>1, <2>1, <2>2, MscAssumption DEF DeviceType
    <3>2. c.run > 0 => c.ucSCSIState \in {"SEND_BLOCKS", "SEND_STATUS"}
      BY <1>1
    <3> QED BY <1>1, <2>2, <2>i, <3>1, <3>2 DEF BooksRight
  <2>5. InPart(d) = IF d.ucSCSIState = "SEND_BLOCKS" THEN SendBlocks(c, TRUE)
                    ELSE SendStatus(c)
    BY <1>3, <2>2 DEF InPart
  <2> HIDE DEF c
  <2>6. CASE d.ucSCSIState = "SEND_STATUS"
    <3> DEFINE e == SendStatus(c)
    <3>1. /\ e \in DeviceType
          /\ e.ucSCSIState = "SENT_STATUS" /\ ~e.inStall
          /\ e.chunk = c.chunk /\ e.run = c.run /\ e.inUse = c.inUse /\ e.lost = c.lost
          /\ e.units = c.units /\ e.alloc = c.alloc
      BY <1>1, SendStatusIs
    <3> HIDE DEF e
    <3>2. BooksRight(e)
      BY <1>1, <2>4, <3>1, StatusBooks
    <3> QED BY <2>5, <2>6, <3>1, <3>2 DEF e
  <2>7. CASE d.ucSCSIState = "SEND_BLOCKS" /\ c.ulBytesToTransfer <= Chunk
    <3> DEFINE e == SendStatus([c EXCEPT !.ulBytesToTransfer = 0, !.csw.status = 0])
    <3>1. /\ e \in DeviceType
          /\ e.ucSCSIState = "SENT_STATUS" /\ ~e.inStall
          /\ e.chunk = c.chunk /\ e.run = c.run /\ e.inUse = c.inUse /\ e.lost = c.lost
          /\ e.units = c.units /\ e.alloc = c.alloc
      BY <1>1, <2>0, SuccessIs, Zenon
    <3>2. InPart(d) = e
      BY <1>1, <2>5, <2>7, LastChunkIs
    <3> HIDE DEF e
    <3>3. BooksRight(e)
      BY <1>1, <2>4, <3>1, StatusBooks
    <3> QED BY <3>1, <3>2, <3>3
  <2>8. CASE d.ucSCSIState = "SEND_BLOCKS" /\ c.ulBytesToTransfer > Chunk
    <3> DEFINE e == SendBlocks(c, TRUE)
               n == Least(c.ulBytesToTransfer - Chunk, Chunk)
    <3>1. n \in Nat /\ n > 0 /\ n <= Chunk
      <4>1. c.ulBytesToTransfer - Chunk \in Nat /\ c.ulBytesToTransfer - Chunk > 0
        BY <1>1, <2>8, MscAssumption DEF DeviceType
      <4> QED BY <4>1, ChunkNumbers
    <3>2. CASE Fits(c, n)
      <4>1. /\ e \in DeviceType /\ e.run = n /\ Len(e.chunk) = n
            /\ Allotted(c, e, n) /\ e.lost = c.lost
            /\ e.ucSCSIState = c.ucSCSIState /\ InSide(e) = InSide(c)
        BY <1>1, <2>8, <3>2, NextChunkIs
      <4> HIDE DEF e, n
      <4>2. e.ucSCSIState \in {"SEND_BLOCKS", "SEND_STATUS"}
        BY <1>1, <2>8, <4>1
      <4>3. BooksRight(e)
        BY <1>1, <2>i, <2>4, <3>1, <4>1, <4>2, AllottedBooks
      <4> QED BY <2>5, <2>8, <4>1, <4>3 DEF e
    <3>3. CASE ~Fits(c, n)
      <4>1. /\ e \in DeviceType /\ e.alloc = "failed"
            /\ e.chunk = c.chunk /\ e.run = c.run /\ e.inUse = c.inUse
            /\ e.lost = c.lost /\ e.units = c.units
            /\ e.ucSCSIState = c.ucSCSIState /\ InSide(e) = InSide(c)
        BY <1>1, <2>8, <3>3, NoChunkIs
      <4>2. e.lost + Chunk > Room
        <5>1. c.inUse = c.lost /\ c.lost \in Nat
          BY <1>1, <2>4 DEF BooksRight, DeviceType
        <5> HIDE DEF n
        <5>2. n > Room - c.lost
          BY <3>1, <3>3, <5>1, MscAssumption DEF Fits
        <5>3. Chunk \in Nat /\ Room \in Nat
          BY MscAssumption
        <5>4. e.lost = c.lost
          BY <4>1
        <5> HIDE DEF e
        <5> QED BY <3>1, <5>1, <5>2, <5>3, <5>4
      <4> HIDE DEF e, n
      <4>3. BooksRight(e)
        BY <2>4, <4>1, <4>2 DEF BooksRight, InSide
      <4> QED BY <2>5, <2>8, <4>1, <4>3 DEF e
    <3> QED BY <3>2, <3>3
  <2>9. c.ulBytesToTransfer <= Chunk \/ c.ulBytesToTransfer > Chunk
    BY <1>1, MscAssumption DEF DeviceType
  <2> QED BY <2>2, <2>6, <2>7, <2>8, <2>9
<1>4. CASE d.irqIn /\ ~TxPending(d)
  <2>1. d.run = 0 /\ d.inPacket = << >> /\ ~d.inStall
    BY <1>4
  <2>2. d.ucSCSIState # "SEND_BLOCKS"
    BY <1>4
  <2>3. InPart(d) = CASE d.ucSCSIState = "SEND_STATUS" -> SendStatus(d)
                      [] d.ucSCSIState = "SENT_STATUS" ->
                           [d EXCEPT !.coreTx = FALSE, !.coreRx = FALSE,
                                     !.ucSCSIState = "IDLE"]
                      [] OTHER -> d
    BY <1>4, <2>2 DEF InPart
  <2>4. CASE d.ucSCSIState = "SEND_STATUS"
    <3> DEFINE e == SendStatus(d)
    <3>1. /\ e \in DeviceType
          /\ e.ucSCSIState = "SENT_STATUS" /\ ~e.inStall
          /\ e.chunk = d.chunk /\ e.run = d.run /\ e.inUse = d.inUse /\ e.lost = d.lost
          /\ e.units = d.units /\ e.alloc = d.alloc
      BY SendStatusIs
    <3> HIDE DEF e
    <3>2. BooksRight(e)
      BY <2>1, <3>1, StatusBooks
    <3> QED BY <2>3, <2>4, <3>1, <3>2 DEF e
  <2>5. CASE d.ucSCSIState = "SENT_STATUS"
    <3> DEFINE e == [d EXCEPT !.coreTx = FALSE, !.coreRx = FALSE,
                              !.ucSCSIState = "IDLE"]
    <3>1. /\ e \in DeviceType /\ e.ucSCSIState = "IDLE"
          /\ e.chunk = d.chunk /\ e.run = d.run /\ e.inUse = d.inUse /\ e.lost = d.lost
          /\ e.units = d.units /\ e.alloc = d.alloc
          /\ e.inStall = d.inStall /\ e.inPacket = d.inPacket
      BY DEF DeviceType
    <3>2. InPart(d) = e
      BY <2>3, <2>5
    <3> HIDE DEF e
    <3>3. BooksRight(e)
      BY <1>0, <2>1, <3>1 DEF BooksRight
    <3> QED BY <3>1, <3>2, <3>3
  <2>6. CASE d.ucSCSIState \notin {"SEND_STATUS", "SENT_STATUS"}
    BY <2>3, <2>6
  <2> QED BY <2>4, <2>5, <2>6
<1> QED BY <1>2, <1>3, <1>4

\* Its part for the OUT endpoint.
LEMMA OutPartBooks ==
  ASSUME NEW d \in DeviceType, BooksRight(d),
         OutPending(d) /\ d.ucSCSIState = "IDLE" => Received(d) # << >>
  PROVE  OutPart(d) \in DeviceType /\ BooksRight(OutPart(d))
<1>1. CASE ~OutPending(d) \/ d.ucSCSIState \notin {"RECEIVE_BLOCKS", "IDLE"}
  BY <1>1 DEF OutPart
<1>2. CASE OutPending(d) /\ d.ucSCSIState = "IDLE"
  BY <1>2, TakeCommandBooks DEF OutPart
<1>3. CASE OutPending(d) /\ d.ucSCSIState = "RECEIVE_BLOCKS"
  <2> DEFINE n == Len(d.rxq)
             f == [d EXCEPT !.rxq = << >>, !.ulBytesToTransfer = @ - n,
                            !.ulCurrentLBA = @ + n]
  <2>0. 0 \in Int
    OBVIOUS
  <2>1. OutPart(d) = IF f.ulBytesToTransfer = 0
                       THEN SendStatus([f EXCEPT !.csw.status = 0]) ELSE f
    BY <1>3 DEF OutPart, ReceiveBlocks
  <2>2. /\ f \in DeviceType
        /\ f.chunk = d.chunk /\ f.run = d.run /\ f.inUse = d.inUse /\ f.lost = d.lost
        /\ f.units = d.units /\ f.alloc = d.alloc
        /\ f.ucSCSIState = d.ucSCSIState /\ InSide(f) = InSide(d)
    BY ReceivedIs
  <2> HIDE DEF f, n
  <2>3. BooksRight(f)
    BY <2>2, StartedBooks
  <2>4. d.run = 0
    BY <1>3 DEF BooksRight, DeviceType
  <2>5. CASE f.ulBytesToTransfer # 0
    BY <2>1, <2>2, <2>3, <2>5
  <2>6. CASE f.ulBytesToTransfer = 0
    <3> DEFINE e == SendStatus([f EXCEPT !.ulBytesToTransfer = 0, !.csw.status = 0])
    <3>1. /\ e \in DeviceType
          /\ e.ucSCSIState = "SENT_STATUS" /\ ~e.inStall
          /\ e.chunk = f.chunk /\ e.run = f.run /\ e.inUse = f.inUse /\ e.lost = f.lost
          /\ e.units = f.units /\ e.alloc = f.alloc
      BY <2>0, <2>2, SuccessIs, Zenon
    <3>2. [f EXCEPT !.csw.status = 0]
            = [f EXCEPT !.ulBytesToTransfer = 0, !.csw.status = 0]
      <4>1. f = [f EXCEPT !.ulBytesToTransfer = 0]
        BY <2>2, <2>6 DEF DeviceType
      <4>2. \A g : [[g EXCEPT !.ulBytesToTransfer = 0] EXCEPT !.csw.status = 0]
                     = [g EXCEPT !.ulBytesToTransfer = 0, !.csw.status = 0]
        OBVIOUS
      <4> QED BY <4>1, <4>2
    <3>3. OutPart(d) = e
      BY <2>1, <2>6, <3>2
    <3> HIDE DEF e
    <3>4. BooksRight(e)
      BY <2>2, <2>3, <2>4, <3>1, StatusBooks
    <3> QED BY <3>1, <3>3, <3>4
  <2> QED BY <2>5, <2>6
<1> QED BY <1>1, <1>2, <1>3

-----------------------------------------------------------------------------
(* Every step of the whole: types and books.                                *)

MscStepOK == MscTypeOK' /\ PoolInv'

\* At the start no unit is in use.
LEMMA MscInit == Init => MscTypeOK /\ PoolInv
<1> SUFFICES ASSUME Init PROVE MscTypeOK /\ PoolInv
  OBVIOUS
<1>1. PICK in \in BOOLEAN :
        /\ disk = [inserted |-> in, written |-> << >>]
        /\ dev = [ucSCSIState |-> "IDLE", ulBytesToTransfer |-> 0,
                  ulCurrentLBA |-> 0, pvMedia |-> in,
                  ucSenseKey |-> IF in THEN "UNIT_ATTN" ELSE NotReady,
                  csw |-> [tag |-> 0, status |-> 0],
                  coreTx |-> FALSE, coreRx |-> FALSE,
                  chunk |-> << >>, run |-> 0,
                  inPacket |-> << >>, inStall |-> FALSE, irqIn |-> FALSE,
                  fifo |-> << >>, rxq |-> << >>,
                  outStall |-> FALSE, irqOut |-> FALSE,
                  inUse |-> 0, lost |-> 0,
                  units |-> 0, alloc |-> "ok"]
        /\ host = [phase |-> "idle", cmd |-> None, tag |-> 0, got |-> << >>,
                   sent |-> 0, csw |-> << >>,
                   why |-> IF in THEN "UNIT_ATTN" ELSE NotReady]
  BY DEF Init
<1>2. PICK key \in SenseKeys : key = IF in THEN "UNIT_ATTN" ELSE NotReady
  BY DEF SenseKeys
<1>3. PICK w \in CswType : w = [tag |-> 0, status |-> 0]
  BY DEF CswType
<1>4. /\ dev = [ucSCSIState |-> "IDLE", ulBytesToTransfer |-> 0,
                ulCurrentLBA |-> 0, pvMedia |-> in, ucSenseKey |-> key, csw |-> w,
                coreTx |-> FALSE, coreRx |-> FALSE,
                chunk |-> << >>, run |-> 0,
                inPacket |-> << >>, inStall |-> FALSE, irqIn |-> FALSE,
                fifo |-> << >>, rxq |-> << >>,
                outStall |-> FALSE, irqOut |-> FALSE,
                inUse |-> 0, lost |-> 0,
                  units |-> 0, alloc |-> "ok"]
      /\ host = [phase |-> "idle", cmd |-> None, tag |-> 0, got |-> << >>,
                 sent |-> 0, csw |-> << >>, why |-> key]
  BY <1>1, <1>2, <1>3
<1>5. dev \in DeviceType
  BY <1>4 DEF DeviceType
<1>6. host \in HostType
  BY <1>4 DEF HostType
<1>7. disk \in DiskType
  BY <1>1 DEF DiskType
<1>8. PoolInv
  BY <1>4, MscAssumption DEF PoolInv, BooksRight
<1> QED BY <1>5, <1>6, <1>7, <1>8 DEF MscTypeOK

\* What an interrupt leaves.
LEMMA HandledIs ==
  ASSUME MscTypeOK, PoolInv, HandleEndpoints
  PROVE  \E d \in DeviceType, o \in DeviceType : \E a \in Outcomes(o) :
           /\ d = InPart(dev) /\ o = OutPart(d) /\ BooksRight(d) /\ BooksRight(o)
           /\ OutPending(d) /\ d.ucSCSIState = "IDLE" => Received(d) # << >>
           /\ dev' = [o EXCEPT !.irqIn = FALSE, !.irqOut = FALSE, !.alloc = a]
           /\ host' = host
           /\ disk' = IF OutPending(d) /\ d.ucSCSIState = "RECEIVE_BLOCKS"
                        THEN [disk EXCEPT !.written = @ \o BlockWrites(d)]
                        ELSE disk
<1>1. PICK d : /\ d = InPart(dev)
               /\ OutPending(d) /\ d.ucSCSIState = "IDLE" => Received(d) # << >>
               /\ \E a \in Outcomes(OutPart(d)) :
                    dev' = [OutPart(d) EXCEPT !.irqIn = FALSE, !.irqOut = FALSE,
                                              !.alloc = a]
               /\ disk' = IF OutPending(d) /\ d.ucSCSIState = "RECEIVE_BLOCKS"
                            THEN [disk EXCEPT !.written = @ \o BlockWrites(d)]
                            ELSE disk
  BY DEF HandleEndpoints
<1>2. d \in DeviceType /\ BooksRight(d)
  <2>1. dev \in DeviceType
    BY DEF MscTypeOK
  <2> QED BY <1>1, <2>1, InPartBooks DEF PoolInv
<1>3. OutPart(d) \in DeviceType /\ BooksRight(OutPart(d))
  BY <1>1, <1>2, OutPartBooks
<1>4. host' = host
  BY DEF HandleEndpoints
<1> QED BY <1>1, <1>2, <1>3, <1>4

\* An allocation that has failed shows; without one the handler is what it is
\* when no allocation fails.
LEMMA OutcomeIs ==
  ASSUME NEW o \in DeviceType, NEW a \in Outcomes(o)
  PROVE  /\ a \in {"ok", "failed", "halted"}
         /\ a = "ok" <=> o.alloc = "ok"
BY DEF Outcomes, DeviceType

LEMMA HandledOk ==
  ASSUME MscTypeOK, PoolInv, HandleEndpoints, dev'.alloc = "ok"
  PROVE  \E d \in DeviceType, o \in DeviceType :
           /\ d = InPart(dev) /\ o = OutPart(d) /\ o.alloc = "ok"
           /\ dev' = [o EXCEPT !.irqIn = FALSE, !.irqOut = FALSE]
           /\ host' = host
           /\ disk' = IF OutPending(d) /\ d.ucSCSIState = "RECEIVE_BLOCKS"
                        THEN [disk EXCEPT !.written = @ \o BlockWrites(d)]
                        ELSE disk
<1>1. PICK d \in DeviceType, o \in DeviceType : \E a \in Outcomes(o) :
        /\ d = InPart(dev) /\ o = OutPart(d)
        /\ dev' = [o EXCEPT !.irqIn = FALSE, !.irqOut = FALSE, !.alloc = a]
        /\ host' = host
        /\ disk' = IF OutPending(d) /\ d.ucSCSIState = "RECEIVE_BLOCKS"
                     THEN [disk EXCEPT !.written = @ \o BlockWrites(d)]
                     ELSE disk
  BY HandledIs, Zenon
<1>2. PICK a \in Outcomes(o) :
        dev' = [o EXCEPT !.irqIn = FALSE, !.irqOut = FALSE, !.alloc = a]
  BY <1>1
<1>3. a \in {"ok", "failed", "halted"}
  BY OutcomeIs
<1>4. dev'.alloc = a
  BY <1>2, <1>3 DEF DeviceType
<1>5. o.alloc = "ok" /\ a = o.alloc
  BY <1>4, OutcomeIs
<1>6. dev' = [o EXCEPT !.irqIn = FALSE, !.irqOut = FALSE]
  BY <1>2, <1>5 DEF DeviceType
<1> QED BY <1>1, <1>5, <1>6

\* The handler clears both interrupts.
LEMMA QuietIs ==
  ASSUME NEW o \in DeviceType
  PROVE  LET e == [o EXCEPT !.irqIn = FALSE, !.irqOut = FALSE] IN
         /\ e \in DeviceType /\ ~e.irqIn /\ ~e.irqOut
         /\ e.chunk = o.chunk /\ e.run = o.run /\ e.inUse = o.inUse /\ e.lost = o.lost
         /\ e.units = o.units /\ e.alloc = o.alloc
         /\ e.ucSCSIState = o.ucSCSIState /\ e.csw = o.csw /\ e.coreRx = o.coreRx
         /\ e.fifo = o.fifo /\ e.rxq = o.rxq /\ e.outStall = o.outStall
         /\ e.inPacket = o.inPacket /\ e.inStall = o.inStall
         /\ Place(e) = Place(o) /\ Media(e) = Media(o)
BY DEF DeviceType, Place, Media

\* What is written to the medium are numbered packets.
LEMMA BlockWritesSeq ==
  ASSUME NEW d \in DeviceType
  PROVE  BlockWrites(d) \in Seq(Nat \X Packets)
<1>1. PICK q \in Seq(Packets), a \in Nat : q = d.rxq /\ a = d.ulCurrentLBA
  BY DEF DeviceType
<1>2. \A i \in 1 .. Len(q) : <<a + i - 1, q[i]>> \in Nat \X Packets
  OBVIOUS
<1> DEFINE s == [i \in 1 .. Len(q) |-> <<a + i - 1, q[i]>>]
<1>3. s \in Seq(Nat \X Packets)
  BY <1>2
<1>4. << >> \in Seq(Nat \X Packets)
  OBVIOUS
<1>5. BlockWrites(d) = IF disk.inserted THEN s ELSE << >>
  BY <1>1 DEF BlockWrites
<1> QED BY <1>3, <1>4, <1>5

\* The handler keeps types and books ...
LEMMA MscHandleEndpoints ==
  ASSUME MscTypeOK, PoolInv, HandleEndpoints
  PROVE  MscStepOK
<1>1. PICK d \in DeviceType, o \in DeviceType : \E a \in Outcomes(o) :
        /\ BooksRight(o)
        /\ dev' = [o EXCEPT !.irqIn = FALSE, !.irqOut = FALSE, !.alloc = a]
        /\ host' = host
        /\ disk' = IF OutPending(d) /\ d.ucSCSIState = "RECEIVE_BLOCKS"
                     THEN [disk EXCEPT !.written = @ \o BlockWrites(d)]
                     ELSE disk
  BY HandledIs, Zenon
<1>a. PICK a \in {"ok", "failed", "halted"} :
        /\ dev' = [o EXCEPT !.irqIn = FALSE, !.irqOut = FALSE, !.alloc = a]
        /\ a = "ok" <=> o.alloc = "ok"
  BY <1>1, OutcomeIs
<1>2. /\ dev' \in DeviceType /\ ~dev'.irqIn /\ dev'.alloc = a
      /\ dev'.chunk = o.chunk /\ dev'.run = o.run
      /\ dev'.inUse = o.inUse /\ dev'.lost = o.lost /\ dev'.units = o.units
      /\ dev'.ucSCSIState = o.ucSCSIState
      /\ dev'.inPacket = o.inPacket /\ dev'.inStall = o.inStall
  BY <1>a DEF DeviceType
<1>3. BooksRight(dev')
  BY <1>1, <1>a, <1>2 DEF BooksRight
<1>4. disk' \in DiskType
  <2>1. disk \in DiskType /\ disk.written \in Seq(Nat \X Packets)
    BY DEF MscTypeOK, DiskType
  <2>2. PICK s \in Seq(Nat \X Packets) : s = disk.written \o BlockWrites(d)
    <3> DEFINE S == Nat \X Packets
    <3>1. disk.written \in Seq(S) /\ BlockWrites(d) \in Seq(S)
      BY <2>1, BlockWritesSeq
    <3> HIDE DEF S
    <3>2. disk.written \o BlockWrites(d) \in Seq(S)
      BY <3>1
    <3> QED BY <3>2 DEF S
  <2>3. [disk EXCEPT !.written = s] \in DiskType
    BY <2>1 DEF DiskType
  <2> QED BY <1>1, <2>1, <2>2, <2>3
<1>5. host' \in HostType
  BY <1>1 DEF MscTypeOK
<1> QED BY <1>2, <1>3, <1>4, <1>5 DEF MscStepOK, MscTypeOK, PoolInv, BooksRight

\* ... as do a disconnection, which abandons the command,
LEMMA MscHandleDisconnect ==
  ASSUME MscTypeOK, PoolInv, HandleDisconnect
  PROVE  MscStepOK
<1>0. dev \in DeviceType /\ host \in HostType /\ disk' = disk /\ disk \in DiskType
  BY DEF MscTypeOK, HandleDisconnect
<1>a. PICK w \in CswType : w = [tag |-> 0, status |-> 0]
  BY DEF CswType
<1>b. PICK none \in Seq(CswType) : none = << >>
  BY EmptySeq, Zenon
<1>c. PICK b \in Int, a \in Nat : b = 0 /\ a = 0
  OBVIOUS
<1>2. /\ dev.run = 0
      /\ dev' = [dev EXCEPT !.csw = w, !.ucSCSIState = "IDLE",
                            !.ulBytesToTransfer = b, !.ulCurrentLBA = a,
                            !.pvMedia = FALSE, !.inPacket = none,
                            !.inStall = FALSE, !.outStall = FALSE]
  BY <1>a, <1>b, <1>c DEF HandleDisconnect
<1>3. dev' \in DeviceType
  BY <1>0, <1>2 DEF DeviceType
<1>4. /\ dev'.chunk = dev.chunk /\ dev'.run = dev.run
      /\ dev'.inUse = dev.inUse /\ dev'.lost = dev.lost
      /\ dev'.units = dev.units /\ dev'.alloc = dev.alloc
      /\ dev'.ucSCSIState = "IDLE" /\ dev'.inPacket = << >> /\ ~dev'.inStall
  BY <1>0, <1>2, <1>b DEF DeviceType
<1>5. host' \in HostType
  BY <1>0 DEF HandleDisconnect, HostType
<1>6. PoolInv'
  BY <1>2, <1>4 DEF PoolInv, BooksRight
<1> QED BY <1>0, <1>3, <1>5, <1>6 DEF MscStepOK, MscTypeOK

\* a new configuration
LEMMA MscConfigChangeHandler ==
  ASSUME MscTypeOK, PoolInv, ConfigChangeHandler
  PROVE  MscStepOK
<1>0. dev \in DeviceType /\ host \in HostType /\ disk' = disk /\ disk \in DiskType
  BY DEF MscTypeOK, ConfigChangeHandler
<1>1. dev' = [dev EXCEPT !.coreTx = FALSE, !.coreRx = FALSE]
  BY DEF ConfigChangeHandler
<1>2. dev' \in DeviceType
  BY <1>0, <1>1 DEF DeviceType
<1>3. /\ dev'.chunk = dev.chunk /\ dev'.run = dev.run
      /\ dev'.inUse = dev.inUse /\ dev'.lost = dev.lost
      /\ dev'.units = dev.units /\ dev'.alloc = dev.alloc
      /\ dev'.ucSCSIState = dev.ucSCSIState
      /\ InSide(dev') = InSide(dev)
  BY <1>0, <1>1 DEF DeviceType, InSide
<1>4. host' \in HostType
  <2>1. PICK none \in Seq(CswType) : none = << >>
    BY EmptySeq, Zenon
  <2>2. PICK c \in Commands \cup {None} : c = None
    OBVIOUS
  <2>3. host' = [host EXCEPT !.phase = "idle", !.csw = none, !.cmd = c,
                             !.why = "unknown"]
    BY <2>1, <2>2 DEF ConfigChangeHandler
  <2> QED BY <1>0, <2>3 DEF HostType
<1>5. PoolInv'
  BY <1>3 DEF PoolInv, BooksRight, InSide
<1> QED BY <1>0, <1>2, <1>4, <1>5 DEF MscStepOK, MscTypeOK

\* A packet of the host arrives in the endpoint.
LEMMA ArriveIs ==
  ASSUME NEW d \in DeviceType, NEW p \in Packets
  PROVE  LET e == Arrive(d, p) IN
         /\ e \in DeviceType /\ e.fifo = <<p>> /\ e.irqOut = ~d.coreRx
         /\ e.rxq = d.rxq /\ e.outStall = d.outStall
         /\ e.chunk = d.chunk /\ e.run = d.run /\ e.inUse = d.inUse /\ e.lost = d.lost
         /\ e.units = d.units /\ e.alloc = d.alloc
         /\ e.ucSCSIState = d.ucSCSIState /\ e.csw = d.csw /\ e.coreRx = d.coreRx
         /\ InSide(e) = InSide(d) /\ Place(e) = Place(d) /\ Media(e) = Media(d)
<1>1. PICK b \in BOOLEAN : b = ~d.coreRx
  OBVIOUS
<1>2. PICK s \in Seq(Packets) : s = <<p>>
  <2>1. <<p>> \in Seq(Packets)
    OBVIOUS
  <2> QED BY <2>1
<1>3. Arrive(d, p) = [d EXCEPT !.fifo = s, !.irqOut = b]
  BY <1>1, <1>2 DEF Arrive
<1>4. Arrive(d, p) \in DeviceType /\ Arrive(d, p).fifo = s
  BY <1>3 DEF DeviceType
<1>5. Arrive(d, p).irqOut = b
  BY <1>3 DEF DeviceType
<1> QED BY <1>1, <1>2, <1>3, <1>4, <1>5 DEF DeviceType, InSide, Place, Media

\* Its arrival has nothing to do with the pool.
LEMMA ArriveBooks ==
  ASSUME MscTypeOK, PoolInv, NEW p \in Packets, dev' = Arrive(dev, p)
  PROVE  dev' \in DeviceType /\ PoolInv'
<1>1. /\ dev' \in DeviceType
      /\ dev'.chunk = dev.chunk /\ dev'.run = dev.run
      /\ dev'.inUse = dev.inUse /\ dev'.lost = dev.lost
      /\ dev'.units = dev.units /\ dev'.alloc = dev.alloc
      /\ dev'.ucSCSIState = dev.ucSCSIState /\ InSide(dev') = InSide(dev)
  BY ArriveIs DEF MscTypeOK
<1> QED BY <1>1 DEF PoolInv, BooksRight, InSide

\* and each step of the host: a command is sent,
LEMMA MscSendCommand ==
  ASSUME MscTypeOK, PoolInv, SendCommand
  PROVE  MscStepOK
<1>0. host \in HostType /\ disk \in DiskType
  BY DEF MscTypeOK
<1>1. PICK c \in Commands :
        /\ host' = [phase |-> IF c.n = 0 THEN "csw" ELSE "data", cmd |-> c,
                    tag |-> 1 - host.tag, got |-> << >>, sent |-> 0,
                    csw |-> << >>, why |-> host.why]
        /\ dev' = Arrive(dev, [kind |-> "command", cmd |-> c, tag |-> 1 - host.tag])
        /\ disk' = [disk EXCEPT !.written = << >>]
  BY DEF SendCommand
<1>2. PICK t \in {0, 1} : t = 1 - host.tag
  BY <1>0 DEF HostType
<1>3. PICK ph \in {"csw", "data"} : ph = IF c.n = 0 THEN "csw" ELSE "data"
  OBVIOUS
<1>4. host' = [phase |-> ph, cmd |-> c, tag |-> t, got |-> << >>, sent |-> 0,
               csw |-> << >>, why |-> host.why]
  BY <1>1, <1>2, <1>3
<1>5. host' \in HostType
  BY <1>0, <1>4 DEF HostType
<1>6. disk' \in DiskType
  <2>1. PICK none \in Seq(Nat \X Packets) : none = << >>
    BY EmptySeq, Zenon
  <2>2. disk' = [disk EXCEPT !.written = none]
    BY <1>1, <2>1
  <2> QED BY <1>0, <2>2 DEF DiskType
<1>7. PICK p \in Packets : p = [kind |-> "command", cmd |-> c, tag |-> t]
  BY DEF Packets
<1>8. dev' \in DeviceType /\ PoolInv'
  BY <1>1, <1>2, <1>7, ArriveBooks
<1> QED BY <1>5, <1>6, <1>8 DEF MscStepOK, MscTypeOK

\* a packet of data is taken,
LEMMA MscTakeData ==
  ASSUME MscTypeOK, PoolInv, TakeData
  PROVE  MscStepOK
<1>0. dev \in DeviceType /\ host \in HostType /\ disk' = disk /\ disk \in DiskType
  BY DEF MscTypeOK, TakeData
<1>1. dev.chunk \in Seq(Items) /\ dev.chunk # << >> /\ host.got \in Seq(Items)
  BY <1>0 DEF DeviceType, HostType, TakeData
<1>2. /\ Tail(dev.chunk) \in Seq(Items) /\ Head(dev.chunk) \in Items
      /\ Len(Tail(dev.chunk)) <= Len(dev.chunk)
  BY <1>1
<1>3. PICK rest \in Seq(Items) : rest = Tail(dev.chunk)
  BY <1>2
<1>4. PICK got \in Seq(Items) : got = Append(host.got, Head(dev.chunk))
  <2>1. Append(host.got, Head(dev.chunk)) \in Seq(Items)
    BY <1>1, <1>2
  <2> QED BY <2>1
<1>5. PICK ph \in {"csw", "data"} :
        ph = IF Len(host.got) + 1 = host.cmd.n THEN "csw" ELSE "data"
  OBVIOUS
<1>6. /\ dev' = [dev EXCEPT !.chunk = rest]
      /\ host' = [host EXCEPT !.got = got, !.phase = ph]
  BY <1>3, <1>4, <1>5 DEF TakeData
<1>7. dev' \in DeviceType /\ dev'.chunk = rest
  BY <1>0, <1>6 DEF DeviceType
<1>8. /\ dev'.run = dev.run /\ dev'.inUse = dev.inUse /\ dev'.lost = dev.lost
      /\ dev'.units = dev.units /\ dev'.alloc = dev.alloc
      /\ dev'.ucSCSIState = dev.ucSCSIState /\ InSide(dev') = InSide(dev)
  BY <1>0, <1>6 DEF DeviceType, InSide
<1>9. host' \in HostType
  BY <1>0, <1>6 DEF HostType
<1>10. Len(dev.chunk) <= dev.run => Len(dev'.chunk) <= dev.run
  <2>1. PICK r \in Nat, n \in Nat, k \in Nat :
          r = dev.run /\ n = Len(dev.chunk) /\ k = Len(rest)
    BY <1>0, <1>1 DEF DeviceType
  <2>2. k <= n /\ Len(dev'.chunk) = k
    BY <1>2, <1>3, <1>7, <2>1
  <2> QED BY <2>1, <2>2
<1>11. PoolInv'
  BY <1>8, <1>10 DEF PoolInv, BooksRight, InSide
<1> QED BY <1>0, <1>7, <1>9, <1>11 DEF MscStepOK, MscTypeOK

\* a block is sent,
LEMMA MscSendData ==
  ASSUME MscTypeOK, PoolInv, SendData
  PROVE  MscStepOK
<1>0. host \in HostType /\ disk' = disk /\ disk \in DiskType
  BY DEF MscTypeOK, SendData
<1>1. PICK ph \in {"csw", "data"} :
        ph = IF host.sent + 1 = host.cmd.n THEN "csw" ELSE "data"
  OBVIOUS
<1>2. PICK n \in Nat : n = host.sent + 1
  BY <1>0 DEF HostType
<1>3. host' = [host EXCEPT !.sent = n, !.phase = ph]
  BY <1>1, <1>2 DEF SendData
<1>4. host' \in HostType
  BY <1>0, <1>3 DEF HostType
<1>5. PICK p \in Packets : p = [kind |-> "data", block |-> host.sent]
  BY <1>0 DEF Packets, HostType
<1>6. dev' \in DeviceType /\ PoolInv'
  BY <1>5, ArriveBooks DEF SendData
<1> QED BY <1>0, <1>4, <1>6 DEF MscStepOK, MscTypeOK

\* a stall is seen and cleared,
LEMMA MscSeeStall ==
  ASSUME MscTypeOK, PoolInv, SeeStall
  PROVE  MscStepOK
<1>0. dev \in DeviceType /\ host \in HostType /\ disk' = disk /\ disk \in DiskType
  BY DEF MscTypeOK, SeeStall
<1>1. host' \in HostType
  BY <1>0 DEF SeeStall, HostType
<1>2. CASE dev.inStall /\ dev' = [dev EXCEPT !.inStall = FALSE, !.irqIn = TRUE]
  <2>1. dev' \in DeviceType
    BY <1>0, <1>2 DEF DeviceType
  <2>2. /\ dev'.chunk = dev.chunk /\ dev'.run = dev.run
        /\ dev'.inUse = dev.inUse /\ dev'.lost = dev.lost
        /\ dev'.units = dev.units /\ dev'.alloc = dev.alloc
        /\ dev'.ucSCSIState = dev.ucSCSIState
        /\ ~dev'.inStall /\ dev'.inPacket = dev.inPacket
    BY <1>0, <1>2 DEF DeviceType
  <2>3. dev.run = 0 /\ dev.inPacket = << >>
    BY <1>2 DEF PoolInv, BooksRight
  <2>s. dev.ucSCSIState = "SEND_STATUS"
    BY <1>2 DEF PoolInv, BooksRight
  <2>4. PoolInv'
    BY <2>2, <2>3, <2>s DEF PoolInv, BooksRight
  <2> QED BY <1>0, <1>1, <2>1, <2>4 DEF MscStepOK, MscTypeOK
<1>3. CASE dev.outStall /\ dev' = [dev EXCEPT !.outStall = FALSE, !.irqOut = TRUE]
  <2>1. dev' \in DeviceType
    BY <1>0, <1>3 DEF DeviceType
  <2>2. /\ dev'.chunk = dev.chunk /\ dev'.run = dev.run
        /\ dev'.inUse = dev.inUse /\ dev'.lost = dev.lost
        /\ dev'.units = dev.units /\ dev'.alloc = dev.alloc
        /\ dev'.ucSCSIState = dev.ucSCSIState /\ InSide(dev') = InSide(dev)
    BY <1>0, <1>3 DEF DeviceType, InSide
  <2>3. PoolInv'
    BY <2>2 DEF PoolInv, BooksRight, InSide
  <2> QED BY <1>0, <1>1, <2>1, <2>3 DEF MscStepOK, MscTypeOK
<1> QED BY <1>2, <1>3 DEF SeeStall

\* The host expects the sense of its command, or does not know.
LEMMA ReasonKey ==
  ASSUME MscTypeOK, NEW c \in Commands \cup {None}
  PROVE  Reason(c) \in SenseKeys \cup {"unknown"}
BY DEF Reason, SenseKeys, MscTypeOK, HostType

\* a status is taken;
LEMMA MscTakeStatus ==
  ASSUME MscTypeOK, PoolInv, TakeStatus
  PROVE  MscStepOK
<1>0. dev \in DeviceType /\ host \in HostType /\ disk' = disk /\ disk \in DiskType
  BY DEF MscTypeOK, TakeStatus
<1>1. dev' = [dev EXCEPT !.inPacket = << >>, !.irqIn = TRUE] /\ dev.inPacket # << >>
  BY DEF TakeStatus
<1>2. dev' \in DeviceType
  <2>1. PICK none \in Seq(CswType) : none = << >>
    BY EmptySeq, Zenon
  <2>2. dev' = [dev EXCEPT !.inPacket = none, !.irqIn = TRUE]
    BY <1>1, <2>1
  <2> QED BY <1>0, <2>2 DEF DeviceType
<1>3. /\ dev'.chunk = dev.chunk /\ dev'.run = dev.run
      /\ dev'.inUse = dev.inUse /\ dev'.lost = dev.lost
      /\ dev'.units = dev.units /\ dev'.alloc = dev.alloc
      /\ dev'.ucSCSIState = dev.ucSCSIState
      /\ dev'.inPacket = << >>
  BY <1>0, <1>1 DEF DeviceType
<1>4. dev'.inStall = dev.inStall
  BY <1>0, <1>1 DEF DeviceType
<1>5. dev.ucSCSIState = "SENT_STATUS"
  BY <1>1 DEF PoolInv, BooksRight
<1>6. dev.run = 0 /\ ~dev.inStall
  BY <1>0, <1>5 DEF PoolInv, BooksRight, DeviceType
<1>7. PoolInv'
  BY <1>3, <1>4, <1>5, <1>6 DEF PoolInv, BooksRight
<1>8. PICK why \in SenseKeys \cup {"unknown"} :
        why = IF dev.inPacket[1].status = 1 THEN Reason(host.cmd) ELSE host.why
  BY <1>0, ReasonKey DEF HostType
<1>9. host' = [host EXCEPT !.phase = "idle", !.csw = dev.inPacket, !.why = why]
  BY <1>8 DEF TakeStatus
<1>10. host' \in HostType
  <2>1. PICK s \in Seq(CswType) : s = dev.inPacket
    BY <1>0 DEF DeviceType
  <2>2. host' = [host EXCEPT !.phase = "idle", !.csw = s, !.why = why]
    BY <1>9, <2>1
  <2> QED BY <1>0, <2>2 DEF HostType
<1> QED BY <1>0, <1>2, <1>7, <1>10 DEF MscStepOK, MscTypeOK

\* the DMA takes a block out of the endpoint,
LEMMA MscDmaReceive ==
  ASSUME MscTypeOK, PoolInv, DmaReceive
  PROVE  MscStepOK
<1>0. /\ dev \in DeviceType /\ host' = host /\ host \in HostType
      /\ disk' = disk /\ disk \in DiskType
  BY DEF MscTypeOK, DmaReceive
<1>1. PICK q \in Seq(Packets), s \in Seq(Packets) :
        q = dev.rxq \o dev.fifo /\ s = << >>
  <2>1. dev.rxq \in Seq(Packets) /\ dev.fifo \in Seq(Packets)
    BY <1>0 DEF DeviceType
  <2>2. << >> \in Seq(Packets) /\ dev.rxq \o dev.fifo \in Seq(Packets)
    BY <2>1
  <2> QED BY <2>2
<1>2. dev' = [dev EXCEPT !.fifo = s, !.rxq = q]
  BY <1>1 DEF DmaReceive
<1>3. dev' \in DeviceType
  BY <1>0, <1>2 DEF DeviceType
<1>4. /\ dev'.chunk = dev.chunk /\ dev'.run = dev.run
      /\ dev'.inUse = dev.inUse /\ dev'.lost = dev.lost
      /\ dev'.units = dev.units /\ dev'.alloc = dev.alloc
      /\ dev'.ucSCSIState = dev.ucSCSIState /\ InSide(dev') = InSide(dev)
  BY <1>0, <1>2 DEF DeviceType, InSide
<1>5. PoolInv'
  BY <1>4 DEF PoolInv, BooksRight, InSide
<1> QED BY <1>0, <1>3, <1>5 DEF MscStepOK, MscTypeOK

\* and the medium goes or comes.
LEMMA MscMedium ==
  ASSUME MscTypeOK, PoolInv, Eject \/ Insert
  PROVE  MscStepOK
<1>1. dev' = dev /\ host' = host
  BY DEF Eject, Insert
<1>2. disk' \in DiskType
  BY DEF MscTypeOK, DiskType, Eject, Insert
<1> QED BY <1>1, <1>2 DEF MscStepOK, MscTypeOK, PoolInv, BooksRight

\* Every step keeps types and books.
LEMMA MscNext == MscTypeOK /\ PoolInv /\ [Next]_vars => MscTypeOK' /\ PoolInv'
<1> SUFFICES ASSUME MscTypeOK, PoolInv, [Next]_vars
             PROVE  MscTypeOK' /\ PoolInv'
  OBVIOUS
<1>1. CASE Next
  BY <1>1, MscHandleEndpoints, MscHandleDisconnect, MscConfigChangeHandler,
     MscSendCommand, MscTakeData, MscSendData, MscSeeStall, MscTakeStatus,
     MscDmaReceive, MscMedium DEF Next, MscStepOK
<1>2. CASE UNCHANGED vars
  BY <1>2 DEF vars, MscTypeOK, PoolInv, BooksRight
<1> QED BY <1>1, <1>2

\* The invariant of the books: units of the pool are in use only while data or a
\* response is on its way, and then no interrupt, stall or status is due on the IN
\* endpoint that could take the state on before dmaTxCompletion has freed the run
\* (HandleEndpoints, USBDSCSIRead10, dmaTxCompletion).
THEOREM MscInvariant == Spec => [](MscTypeOK /\ PoolInv)
  BY MscInit, MscNext, PTL DEF Spec

\* For every chunk size, every size of the pool and set of commands, wherever the
\* medium or the cable is pulled, the units in use are those of the one chunk on its
\* way and those that failing first reads have lost, never more than there are, and
\* the run is long enough for what is read into it.  An allocation fails, with all that
\* follows, only when the lost ones leave no room for a chunk (USBDSCSIRead10,
\* HandleEndpoints, cppiDmaAllocnBuffer, dmaTxCompletion).
THEOREM MscPoolAccounted == Spec => []PoolAccounted
<1>1. PoolInv => PoolAccounted
  BY DEF PoolInv, BooksRight, PoolAccounted
<1> QED BY <1>1, MscInvariant, PTL

-----------------------------------------------------------------------------
(* The stages of a command.                                                 *)

\* What is known of a device whose run is empty.
LEMMA Resting ==
  ASSUME MscTypeOK, dev.run = 0, dev.irqIn \/ dev.ucSCSIState = "IDLE",
         dev.ucSCSIState \in {"IDLE", "SENT_STATUS"}
  PROVE  LET e == InPart(dev) IN
         /\ e \in DeviceType /\ e.ucSCSIState = "IDLE"
         /\ e.chunk = dev.chunk /\ e.run = dev.run
         /\ OutSide(e) = OutSide(dev) /\ InSide(e) = InSide(dev)
         /\ Media(e) = Media(dev)
         /\ ~dev.coreRx => ~e.coreRx
<1>0. dev \in DeviceType /\ ~TxPending(dev)
  BY DEF MscTypeOK, TxPending
<1>1. CASE dev.ucSCSIState = "IDLE"
  BY <1>0, <1>1 DEF InPart
<1>2. CASE dev.ucSCSIState = "SENT_STATUS"
  <2> DEFINE e == [dev EXCEPT !.coreTx = FALSE, !.coreRx = FALSE,
                              !.ucSCSIState = "IDLE"]
  <2>1. InPart(dev) = e
    BY <1>0, <1>2 DEF InPart
  <2>2. /\ e \in DeviceType /\ e.ucSCSIState = "IDLE" /\ ~e.coreRx
        /\ e.chunk = dev.chunk /\ e.run = dev.run
        /\ OutSide(e) = OutSide(dev) /\ InSide(e) = InSide(dev)
        /\ Media(e) = Media(dev)
    BY <1>0 DEF DeviceType, OutSide, InSide, Media
  <2> HIDE DEF e
  <2> QED BY <2>1, <2>2
<1> QED BY <1>1, <1>2

\* An interrupt while no command is in progress.
LEMMA FreeHandled ==
  ASSUME MscTypeOK, PoolInv, Free, HandleEndpoints, dev'.alloc = "ok"
  PROVE  Free'
<1>1. PICK d \in DeviceType, o \in DeviceType :
        /\ d = InPart(dev) /\ o = OutPart(d) /\ o.alloc = "ok"
        /\ dev' = [o EXCEPT !.irqIn = FALSE, !.irqOut = FALSE]
        /\ host' = host
        /\ disk' = IF OutPending(d) /\ d.ucSCSIState = "RECEIVE_BLOCKS"
                     THEN [disk EXCEPT !.written = @ \o BlockWrites(d)]
                     ELSE disk
  BY HandledOk, Zenon
<1>2. /\ d.ucSCSIState = "IDLE" /\ d.chunk = dev.chunk /\ d.run = dev.run
      /\ OutSide(d) = OutSide(dev) /\ InSide(d) = InSide(dev)
      /\ Media(d) = Media(dev)
      /\ ~dev.coreRx => ~d.coreRx
  BY <1>1, Resting DEF Free
<1>3. ~OutPending(d)
  BY <1>2 DEF Free, OutEmpty, OutSide, OutPending
<1>4. o = d /\ disk' = disk
  BY <1>1, <1>2, <1>3 DEF OutPart
<1>5. /\ dev' \in DeviceType /\ ~dev'.irqIn /\ ~dev'.irqOut
      /\ dev'.chunk = d.chunk /\ dev'.run = d.run
      /\ dev'.ucSCSIState = d.ucSCSIState /\ dev'.coreRx = d.coreRx
      /\ dev'.fifo = d.fifo /\ dev'.rxq = d.rxq /\ dev'.outStall = d.outStall
      /\ dev'.inPacket = d.inPacket /\ dev'.inStall = d.inStall
      /\ Media(dev') = Media(d)
  BY <1>1, <1>4, QuietIs
<1>6. dev'.ucSenseKey = dev.ucSenseKey
  BY <1>2, <1>5 DEF Media
<1>7. /\ dev'.run = 0 /\ dev'.chunk = << >> /\ OutEmpty'
      /\ dev'.inPacket = << >> /\ ~dev'.inStall /\ ~dev'.outStall
      /\ dev'.ucSCSIState = "IDLE"
  BY <1>2, <1>5 DEF Free, OutEmpty, OutSide, InSide
<1>8. host.phase = "idle" => ~dev'.coreRx
  BY <1>2, <1>5 DEF Free
<1>9. host.phase = "idle" => Knows(host.why)'
  BY <1>1, <1>6 DEF Free, Knows
<1>10. host.phase = "idle" /\ host.csw # << >> => Outcome(host.csw[1])'
  BY <1>1, <1>4 DEF Free, Outcome, Wanted, ToWrite
<1> QED BY <1>1, <1>7, <1>8, <1>9, <1>10 DEF Free

\* The cable is pulled, or the host comes back.
LEMMA FreeAway ==
  ASSUME MscTypeOK, CommandInv, HandleDisconnect, PoolInv
  PROVE  Free'
<1>1. dev \in DeviceType /\ host \in HostType
  BY DEF MscTypeOK
<1>2. /\ dev.run = 0 /\ dev.fifo = << >> /\ dev.rxq = << >> /\ ~dev.irqOut
      /\ host' = [host EXCEPT !.phase = "away"]
  BY DEF HandleDisconnect, OutPending
<1>3. dev.chunk = << >>
  <2>1. Len(dev.chunk) <= 0 /\ dev.chunk \in Seq(Items)
    BY <1>1, <1>2 DEF PoolInv, BooksRight, DeviceType
  <2> QED BY <2>1
<1>4. /\ dev'.run = dev.run /\ dev'.fifo = dev.fifo /\ dev'.rxq = dev.rxq
      /\ dev'.irqOut = dev.irqOut /\ dev'.chunk = dev.chunk
      /\ dev'.ucSCSIState = "IDLE" /\ dev'.inPacket = << >>
      /\ ~dev'.inStall /\ ~dev'.outStall
  <2>1. PICK w : w = [tag |-> 0, status |-> 0]
    OBVIOUS
  <2>2. dev' = [dev EXCEPT !.csw = w, !.ucSCSIState = "IDLE",
                           !.ulBytesToTransfer = 0, !.ulCurrentLBA = 0,
                           !.pvMedia = FALSE, !.inPacket = << >>,
                           !.inStall = FALSE, !.outStall = FALSE]
    BY <2>1 DEF HandleDisconnect
  <2> QED BY <1>1, <2>2 DEF DeviceType
<1>5. host'.phase = "away"
  BY <1>1, <1>2 DEF HostType
<1> QED BY <1>2, <1>3, <1>4, <1>5 DEF Free, OutEmpty

\* A device that is configured again is free.
LEMMA FreeBack ==
  ASSUME MscTypeOK, CommandInv, ConfigChangeHandler
  PROVE  Free'
<1>1. dev \in DeviceType /\ host \in HostType /\ host.phase = "away"
  BY DEF MscTypeOK, ConfigChangeHandler
<1>2. Free
  BY <1>1 DEF CommandInv, Sent, Reading, Answering, StatusDue, Failing, Receiving,
              InCommand
<1>3. /\ dev'.run = dev.run /\ OutSide(dev') = OutSide(dev)
      /\ InSide(dev') = InSide(dev) /\ dev'.chunk = dev.chunk
      /\ dev'.ucSCSIState = dev.ucSCSIState /\ ~dev'.coreRx
  BY <1>1 DEF ConfigChangeHandler, DeviceType, OutSide, InSide
<1>4. host'.phase = "idle" /\ host'.csw = << >> /\ host'.why = "unknown"
  BY <1>1 DEF ConfigChangeHandler, HostType
<1> QED BY <1>2, <1>3, <1>4 DEF Free, OutEmpty, OutSide, InSide, Knows

\* A command is sent.
LEMMA FreeSends ==
  ASSUME MscTypeOK, MediaStable, CommandInv, SendCommand
  PROVE  Sent'
<1>0. dev \in DeviceType /\ host \in HostType /\ host.phase = "idle"
  BY DEF MscTypeOK, SendCommand
<1>1. Free
  BY <1>0 DEF CommandInv, Sent, Reading, Answering, StatusDue, Failing, Receiving,
              InCommand
<1>2. PICK c \in Commands :
        /\ Asks(c)
        /\ host' = [phase |-> IF c.n = 0 THEN "csw" ELSE "data", cmd |-> c,
                    tag |-> 1 - host.tag, got |-> << >>, sent |-> 0,
                    csw |-> << >>, why |-> host.why]
        /\ dev' = Arrive(dev, [kind |-> "command", cmd |-> c, tag |-> 1 - host.tag])
        /\ disk' = [disk EXCEPT !.written = << >>]
  BY DEF SendCommand
<1>3. PICK t \in {0, 1} : t = 1 - host.tag
  BY <1>0 DEF HostType
<1>4. PICK p \in Packets : p = [kind |-> "command", cmd |-> c, tag |-> t]
  BY DEF Packets
<1>5. /\ dev'.fifo = <<p>> /\ dev'.irqOut = ~dev.coreRx
      /\ dev'.rxq = dev.rxq /\ dev'.outStall = dev.outStall
      /\ dev'.chunk = dev.chunk /\ dev'.run = dev.run
      /\ dev'.ucSCSIState = dev.ucSCSIState /\ dev'.coreRx = dev.coreRx
      /\ InSide(dev') = InSide(dev) /\ Media(dev') = Media(dev)
  BY <1>0, <1>2, <1>3, <1>4, ArriveIs
<1>6. /\ host'.phase = (IF c.n = 0 THEN "csw" ELSE "data")
      /\ host'.cmd = c /\ host'.tag = t /\ host'.got = << >> /\ host'.sent = 0
      /\ host'.why = host.why
  BY <1>2, <1>3
<1>7. disk'.written = << >> /\ disk'.inserted = disk.inserted
  BY <1>2 DEF MscTypeOK, DiskType
<1>8. c.kind = "write" /\ dev.pvMedia => disk.inserted
  BY <1>2 DEF Asks
<1>9. dev'.pvMedia = dev.pvMedia /\ dev'.ucSenseKey = dev.ucSenseKey
  BY <1>5 DEF Media
<1>10. InCommand' /\ Knows(host.why)'
  BY <1>0, <1>1, <1>6, <1>9 DEF InCommand, Free, Knows
<1>11. ~dev.coreRx /\ dev'.irqOut
  BY <1>0, <1>1, <1>5 DEF Free
<1>12. /\ dev'.rxq = << >> /\ ~dev'.coreRx /\ dev'.run = 0 /\ dev'.chunk = << >>
       /\ dev'.inPacket = << >> /\ ~dev'.inStall /\ ~dev'.outStall
       /\ dev'.ucSCSIState = "IDLE" \/ (dev'.ucSCSIState = "SENT_STATUS" /\ dev'.irqIn)
  BY <1>1, <1>5, <1>11 DEF Free, OutEmpty, InSide
<1>13. dev'.fifo = <<[kind |-> "command", cmd |-> host'.cmd, tag |-> host'.tag]>>
  BY <1>4, <1>5, <1>6
<1> QED BY <1>6, <1>7, <1>8, <1>9, <1>10, <1>11, <1>12, <1>13 DEF Sent

\* The device that has taken the host's command from the endpoint, and the
\* step that ends with it in state o.
Taken(f) ==
  /\ f \in DeviceType
  /\ f.csw = [tag |-> host.tag, status |-> 0] /\ f.coreRx
  /\ f.fifo = << >> /\ f.rxq = << >> /\ ~f.outStall
  /\ f.chunk = << >> /\ f.run = 0 /\ f.inPacket = << >> /\ ~f.inStall
  /\ Media(f) = Media(dev)

Leaves(o) ==
  /\ o \in DeviceType /\ o.alloc = "ok"
  /\ dev' = [o EXCEPT !.irqIn = FALSE, !.irqOut = FALSE]
  /\ host' = host /\ disk' = disk

\* What is put in order before a command is looked at.
Started(d, rest) == [d EXCEPT !.coreRx = TRUE, !.rxq = rest, !.fifo = << >>]

\* StartedIs, said of the operator Started.
LEMMA StartedNamed ==
  ASSUME NEW d \in DeviceType, NEW rest \in Seq(Packets)
  PROVE  /\ Started(d, rest) \in DeviceType /\ Started(d, rest).coreRx
         /\ Started(d, rest).rxq = rest /\ Started(d, rest).fifo = << >>
         /\ Started(d, rest).chunk = d.chunk /\ Started(d, rest).run = d.run
         /\ Started(d, rest).outStall = d.outStall
         /\ InSide(Started(d, rest)) = InSide(d)
         /\ Media(Started(d, rest)) = Media(d)
BY StartedIs DEF Started

\* The interrupt that finds a command: it is taken, numbered and done, and if it has
\* no data stage its status is sent at once.
LEMMA SentTaken ==
  ASSUME MscTypeOK, PoolInv, Sent, HandleEndpoints, dev'.alloc = "ok"
  PROVE  \E f : /\ Taken(f)
                /\ Leaves(IF host.cmd.n = 0 THEN SendStatus(Command(f, host.cmd))
                                            ELSE Command(f, host.cmd))
<1>1. PICK d \in DeviceType, o \in DeviceType :
        /\ d = InPart(dev) /\ o = OutPart(d) /\ o.alloc = "ok"
        /\ dev' = [o EXCEPT !.irqIn = FALSE, !.irqOut = FALSE]
        /\ host' = host
        /\ disk' = IF OutPending(d) /\ d.ucSCSIState = "RECEIVE_BLOCKS"
                     THEN [disk EXCEPT !.written = @ \o BlockWrites(d)]
                     ELSE disk
  BY HandledOk, Zenon
<1>2. /\ d.ucSCSIState = "IDLE" /\ d.chunk = dev.chunk /\ d.run = dev.run
      /\ OutSide(d) = OutSide(dev) /\ InSide(d) = InSide(dev)
      /\ Media(d) = Media(dev)
  BY <1>1, Resting DEF Sent
<1>3. PICK p : p = [kind |-> "command", cmd |-> host.cmd, tag |-> host.tag]
  OBVIOUS
<1>4. d.fifo = <<p>> /\ d.rxq = << >> /\ OutPending(d) /\ ~d.outStall
  BY <1>2, <1>3 DEF Sent, OutSide, OutPending
<1>5. Head(Received(d)) = p /\ Tail(Received(d)) = << >>
  <2>1. Received(d) = <<p>>
    <3>1. <<p>> \in Seq({p})
      OBVIOUS
    <3>2. << >> \o <<p>> = <<p>>
      BY <3>1, ConcatEmptySeq
    <3> QED BY <1>4, <3>2 DEF Received
  <2> QED BY <2>1
<1>6. PICK t \in {0, 1} : t = host.tag
  BY DEF Sent, InCommand
<1>7. PICK rest \in Seq(Packets) : rest = << >>
  BY EmptySeq, Zenon
<1> DEFINE e == Started(d, rest)
           f == [e EXCEPT !.csw = [tag |-> t, status |-> 0]]
           r == IF host.cmd.n = 0 THEN SendStatus(Command(f, host.cmd))
                                  ELSE Command(f, host.cmd)
<1>8. o = r
  <2>1. p.kind = "command" /\ p.cmd = host.cmd /\ p.tag = t
    BY <1>3, <1>6
  <2>2. o = TakeCommand(d)
    BY <1>1, <1>2, <1>4 DEF OutPart
  <2> QED BY <1>5, <1>7, <2>1, <2>2 DEF TakeCommand, Started
<1>9. /\ e \in DeviceType /\ e.coreRx /\ e.rxq = rest /\ e.fifo = << >>
      /\ e.chunk = d.chunk /\ e.run = d.run /\ e.outStall = d.outStall
      /\ InSide(e) = InSide(d) /\ Media(e) = Media(d)
  BY StartedNamed
<1> HIDE DEF e
<1>10. /\ f \in DeviceType /\ f.csw = [tag |-> t, status |-> 0]
       /\ f.chunk = e.chunk /\ f.run = e.run /\ f.coreRx = e.coreRx
       /\ OutSide(f) = OutSide(e) /\ InSide(f) = InSide(e) /\ Media(f) = Media(e)
  BY <1>9, TaggedIs
<1> HIDE DEF f
<1>11. Taken(f)
  <2>1. f.inPacket = << >> /\ ~f.inStall
    BY <1>2, <1>9, <1>10 DEF Sent, InSide
  <2>2. f.fifo = << >> /\ f.rxq = << >> /\ ~f.outStall
    BY <1>4, <1>7, <1>9, <1>10 DEF OutSide
  <2>3. f.chunk = << >> /\ f.run = 0 /\ Media(f) = Media(dev) /\ f.coreRx
    BY <1>2, <1>9, <1>10 DEF Sent
  <2> QED BY <1>6, <1>10, <2>1, <2>2, <2>3 DEF Taken
<1> HIDE DEF r
<1>12. Leaves(r)
  BY <1>1, <1>2, <1>8 DEF Leaves
<1> QED BY <1>11, <1>12 DEF r

\* What the handler leaves is what its OUT part has made.
LEMMA LeavesIs ==
  ASSUME NEW o, Leaves(o)
  PROVE  /\ dev' \in DeviceType /\ ~dev'.irqIn /\ ~dev'.irqOut
         /\ dev'.chunk = o.chunk /\ dev'.run = o.run
         /\ dev'.ucSCSIState = o.ucSCSIState
         /\ dev'.csw = o.csw /\ dev'.coreRx = o.coreRx
         /\ dev'.fifo = o.fifo /\ dev'.rxq = o.rxq /\ dev'.outStall = o.outStall
         /\ dev'.inPacket = o.inPacket /\ dev'.inStall = o.inStall
         /\ dev'.ulBytesToTransfer = o.ulBytesToTransfer
         /\ dev'.ulCurrentLBA = o.ulCurrentLBA
         /\ dev'.pvMedia = o.pvMedia /\ dev'.ucSenseKey = o.ucSenseKey
BY QuietIs DEF Leaves, Place, Media

\* A command without data is answered at once.
LEMMA SentNoData ==
  ASSUME Sent, NEW f, Taken(f), host.cmd.kind \in NoData,
         Leaves(SendStatus(Command(f, host.cmd)))
  PROVE  StatusDue'
<1> DEFINE c == host.cmd
           e == Command(f, c)
           o == SendStatus(e)
<1>1. c \in Commands /\ host.phase = "csw"
  BY CommandNumbers DEF Sent, InCommand
<1>2. f \in DeviceType
  BY DEF Taken
<1>3. /\ e \in DeviceType /\ e.chunk = f.chunk /\ e.run = f.run
      /\ OutSide(e) = OutSide(f) /\ InSide(e) = InSide(f)
      /\ \E s \in {0, 1} :
           /\ e.csw = [tag |-> f.csw.tag, status |-> s]
           /\ c.kind = "verify" => s = f.csw.status
           /\ c.kind = "bad" => s = 1
      /\ e.ucSenseKey = (IF c.kind = "bad" THEN Illegal ELSE f.ucSenseKey)
  BY <1>1, <1>2, NoDataIs
<1>4. PICK s \in {0, 1} :
        /\ e.csw = [tag |-> f.csw.tag, status |-> s]
        /\ c.kind = "verify" => s = f.csw.status
        /\ c.kind = "bad" => s = 1
  BY <1>3, Zenon
<1> HIDE DEF e
<1>5. e.inPacket = << >> /\ e.fifo = << >> /\ e.rxq = << >> /\ ~e.outStall
  BY <1>3 DEF Taken, OutSide, InSide
<1>6. /\ o.ucSCSIState = "SENT_STATUS" /\ ~o.coreRx /\ ~o.inStall
      /\ o.inPacket = <<e.csw>> /\ o.chunk = e.chunk /\ o.run = e.run
      /\ OutSide(o) = OutSide(e) /\ Media(o) = Media(e)
  BY <1>3, <1>5, SendStatusIs
<1> HIDE DEF o
<1>7. Leaves(o)
  BY DEF o, e
<1>8. /\ ~dev'.irqIn /\ ~dev'.irqOut
      /\ dev'.chunk = o.chunk /\ dev'.run = o.run
      /\ dev'.ucSCSIState = o.ucSCSIState /\ dev'.coreRx = o.coreRx
      /\ dev'.fifo = o.fifo /\ dev'.rxq = o.rxq /\ dev'.outStall = o.outStall
      /\ dev'.inPacket = o.inPacket /\ dev'.inStall = o.inStall
      /\ dev'.ucSenseKey = o.ucSenseKey
  BY <1>7, LeavesIs
<1>9. /\ dev'.ucSCSIState = "SENT_STATUS" /\ OutEmpty' /\ ~dev'.outStall
      /\ ~dev'.inStall /\ dev'.run = 0 /\ dev'.chunk = << >> /\ ~dev'.coreRx
  BY <1>3, <1>5, <1>6, <1>8 DEF OutEmpty, OutSide, Taken
<1>10. PICK w \in CswType : w = e.csw
  BY <1>3 DEF DeviceType
<1>11. w.tag = host.tag /\ w.status = s /\ w.tag = f.csw.tag
  BY <1>4, <1>10 DEF Taken
<1>12. dev'.inPacket = <<w>> /\ host' = host /\ disk' = disk
  BY <1>6, <1>7, <1>8, <1>10 DEF Leaves
<1>13. Outcome(w)'
  <2>1. host.got = << >> /\ disk.written = << >>
    BY DEF Sent
  <2>2. c.kind \notin {"inquiry", "capacity", "sense", "read", "write"}
    BY DEF NoData
  <2>3. Wanted(host.cmd)' = << >> /\ ToWrite(host.cmd)' = << >>
    BY <1>12, <2>2 DEF Wanted, ToWrite
  <2> QED BY <1>11, <1>12, <2>1, <2>3 DEF Outcome
<1>14. Knows(IF w.status = 1 THEN Reason(host.cmd) ELSE host.why)'
  <2>1. dev'.ucSenseKey = (IF c.kind = "bad" THEN Illegal ELSE dev.ucSenseKey)
    BY <1>3, <1>6, <1>8 DEF Media, Taken
  <2>2. Knows(host.why)
    BY DEF Sent
  <2>3. CASE c.kind = "bad"
    <3>1. Reason(host.cmd)' = Illegal
      BY <1>12, <2>3 DEF Reason, NeedsMedium
    <3> QED BY <1>4, <1>11, <2>1, <2>3, <3>1 DEF Knows
  <2>4. CASE c.kind = "ready"
    <3>1. Reason(host.cmd)' = host.why
      BY <1>12, <2>4 DEF Reason
    <3> QED BY <1>12, <2>1, <2>2, <2>4, <3>1 DEF Knows
  <2>5. CASE c.kind = "verify"
    <3>1. w.status = 0
      BY <1>4, <1>11, <2>5 DEF Taken
    <3> QED BY <1>12, <2>1, <2>2, <2>5, <3>1 DEF Knows
  <2> QED BY <2>3, <2>4, <2>5 DEF NoData
<1>15. InCommand'
  BY <1>12 DEF Sent, InCommand
<1>16. host'.phase = "csw"
  BY <1>1, <1>12
<1> QED BY <1>8, <1>9, <1>10, <1>12, <1>13, <1>14, <1>15, <1>16 DEF StatusDue

\* A command that is refused stalls the endpoint of its data.
LEMMA SentFails ==
  ASSUME Sent, NEW f, Taken(f), NEW o, Leaves(o), NEW key \in SenseKeys,
         host.cmd.kind \notin NoData,
         o.chunk = f.chunk, o.run = f.run, o.ucSCSIState = "SEND_STATUS",
         o.ucSenseKey = key, Reason(host.cmd) = key,
         o.csw = [tag |-> f.csw.tag, status |-> 1],
         o.fifo = f.fifo, o.rxq = f.rxq, o.inPacket = f.inPacket,
         \/ o.inStall /\ ~o.outStall /\ host.cmd.kind \notin {"write", "badOut"}
         \/ ~o.inStall /\ o.outStall
  PROVE  Failing'
<1>0. dev' \in DeviceType
  BY LeavesIs
<1>1. /\ ~dev'.irqIn /\ ~dev'.irqOut
      /\ dev'.chunk = o.chunk /\ dev'.run = o.run
      /\ dev'.ucSCSIState = o.ucSCSIState /\ dev'.csw = o.csw
      /\ dev'.fifo = o.fifo /\ dev'.rxq = o.rxq /\ dev'.outStall = o.outStall
      /\ dev'.inPacket = o.inPacket /\ dev'.inStall = o.inStall
      /\ dev'.ucSenseKey = o.ucSenseKey
  BY LeavesIs
<1>2. host' = host /\ disk' = disk
  BY DEF Leaves
<1>3. host.phase = "data"
  BY CommandNumbers DEF Sent, InCommand
<1>4. InCommand'
  BY <1>2 DEF Sent, InCommand
<1>5. Knows(Reason(host.cmd))'
  BY <1>1, <1>2 DEF Knows, Reason
<1>6. /\ dev'.ucSCSIState = "SEND_STATUS"
      /\ dev'.csw = [tag |-> host'.tag, status |-> 1]
      /\ dev'.fifo = << >> /\ dev'.rxq = << >>
      /\ dev'.run = 0 /\ dev'.chunk = << >> /\ dev'.inPacket = << >>
  BY <1>1, <1>2 DEF Taken
<1>7. host'.got = << >> /\ disk'.written = << >>
  BY <1>2 DEF Sent
<1>8. /\ dev'.inStall = ~dev'.outStall
      /\ host'.cmd.kind \in {"write", "badOut"} => dev'.outStall
  <2>1. CASE o.inStall /\ ~o.outStall /\ host.cmd.kind \notin {"write", "badOut"}
    <3>1. dev'.inStall = TRUE /\ dev'.outStall = FALSE
      BY <1>0, <1>1, <2>1 DEF DeviceType
    <3> QED BY <1>2, <2>1, <3>1
  <2>2. CASE ~o.inStall /\ o.outStall
    <3>1. dev'.inStall = FALSE /\ dev'.outStall = TRUE
      BY <1>0, <1>1, <2>2 DEF DeviceType
    <3> QED BY <3>1
  <2> QED BY <2>1, <2>2
<1> QED BY <1>1, <1>2, <1>3, <1>4, <1>5, <1>6, <1>7, <1>8 DEF Failing

\* An answer of one packet is queued.
LEMMA SentAnswers ==
  ASSUME Sent, NEW f, Taken(f), NEW item \in Items, Leaves(Answer(f, item)),
         host.cmd.kind \in {"inquiry", "capacity", "sense"},
         item = IF host.cmd.kind = "sense" THEN <<"sense", dev.ucSenseKey>>
                                           ELSE <<"info", 0>>
  PROVE  Answering'
<1> DEFINE o == Answer(f, item)
<1>1. f \in DeviceType
  BY DEF Taken
<1>a. Allotted(f, o, 1) /\ o.alloc = "ok"
  BY <1>1, AnswerIs DEF Leaves
<1>b. Fits(f, 1)
  BY <1>a DEF Allotted
<1>2. /\ o \in DeviceType /\ o.chunk = <<item>> /\ o.run = 1
      /\ o.ucSCSIState = "SEND_STATUS"
      /\ o.csw = [tag |-> f.csw.tag, status |-> 0]
      /\ OutSide(o) = OutSide(f) /\ Media(o) = Media(f)
  BY <1>1, <1>b, AnswerIs
<1> HIDE DEF o
<1>3. Leaves(o)
  BY DEF o
<1>4. /\ ~dev'.irqOut /\ dev'.chunk = o.chunk /\ dev'.run = o.run
      /\ dev'.ucSCSIState = o.ucSCSIState /\ dev'.csw = o.csw
      /\ dev'.fifo = o.fifo /\ dev'.rxq = o.rxq /\ dev'.outStall = o.outStall
      /\ dev'.ucSenseKey = o.ucSenseKey
  BY <1>3, LeavesIs
<1>5. host' = host /\ disk' = disk
  BY <1>3 DEF Leaves
<1>6. host.phase = "data"
  BY CommandNumbers DEF Sent, InCommand, NoData
<1>7. dev'.ucSenseKey = dev.ucSenseKey
  BY <1>2, <1>4 DEF Media, Taken
<1>8. /\ dev'.ucSCSIState = "SEND_STATUS" /\ OutEmpty' /\ ~dev'.outStall
      /\ dev'.csw = [tag |-> host'.tag, status |-> 0] /\ dev'.run = 1
  BY <1>2, <1>4, <1>5 DEF OutEmpty, OutSide, Taken
<1>9. InCommand' /\ Knows(host.why)'
  BY <1>5, <1>7 DEF Sent, InCommand, Knows
<1>10. Response(item)' /\ dev'.chunk = <<item>>
  BY <1>2, <1>4, <1>5, <1>7 DEF Response
<1>11. host'.got = << >> /\ disk'.written = << >>
  BY <1>5 DEF Sent
<1> QED BY <1>5, <1>6, <1>8, <1>9, <1>10, <1>11 DEF Answering

\* The first chunk of a read is queued.
LEMMA SentReads ==
  ASSUME Sent, NEW f, Taken(f), host.cmd.kind = "read",
         f.pvMedia, disk.inserted, Leaves(Read10(f, host.cmd))
  PROVE  Reading'
<1> DEFINE c == host.cmd
           n == Least(c.n, Chunk)
           o == Read10(f, c)
<1>1. f \in DeviceType /\ c \in Commands
  BY DEF Taken, Sent, InCommand
<1>x. Allotted(f, o, n) /\ o.alloc = "ok"
  BY <1>1, ReadStartIs DEF Leaves
<1>y. Fits(f, n)
  BY <1>x DEF Allotted
<1>2. /\ o \in DeviceType /\ o.chunk = BlockRead(c.lba, n) /\ o.run = n
      /\ o.ucSCSIState = "SEND_BLOCKS"
      /\ o.ulCurrentLBA = c.lba /\ o.ulBytesToTransfer = c.n
      /\ o.csw = f.csw /\ OutSide(o) = OutSide(f) /\ Media(o) = Media(f)
  BY <1>1, <1>y, ReadStartIs
<1>3. /\ c.lba \in Nat /\ c.n \in Nat /\ c.n > 0
      /\ n \in Nat /\ n > 0
  BY <1>1, CommandNumbers, ChunkNumbers DEF NoData
<1>4. /\ BlockRead(c.lba, n) \in Seq(Items) /\ Len(BlockRead(c.lba, n)) = n
      /\ \A i \in 1 .. n : BlockRead(c.lba, n)[i] = <<"block", c.lba + i - 1>>
  BY <1>3, BlockReadIs
<1> HIDE DEF o
<1>5. Leaves(o)
  BY DEF o
<1>6. /\ ~dev'.irqOut /\ dev'.chunk = o.chunk /\ dev'.run = o.run
      /\ dev'.ucSCSIState = o.ucSCSIState /\ dev'.csw = o.csw
      /\ dev'.fifo = o.fifo /\ dev'.rxq = o.rxq /\ dev'.outStall = o.outStall
      /\ dev'.ulBytesToTransfer = o.ulBytesToTransfer
      /\ dev'.ulCurrentLBA = o.ulCurrentLBA
      /\ dev'.ucSenseKey = o.ucSenseKey
  BY <1>5, LeavesIs
<1>7. host' = host /\ disk' = disk
  BY <1>5 DEF Leaves
<1>8. host.phase = "data" /\ host.got = << >> /\ disk.written = << >>
  BY <1>3 DEF Sent
<1>9. dev'.ucSenseKey = dev.ucSenseKey
  BY <1>2, <1>6 DEF Media, Taken
<1>10. InCommand' /\ Knows(host.why)'
  BY <1>7, <1>9 DEF Sent, InCommand, Knows
<1>11. /\ dev'.ucSCSIState = "SEND_BLOCKS" /\ OutEmpty' /\ ~dev'.outStall
       /\ dev'.csw = [tag |-> host'.tag, status |-> 0]
  BY <1>2, <1>6, <1>7 DEF OutEmpty, OutSide, Taken
<1>12. PICK m, a, b : m = c.n /\ a = c.lba /\ b = n
  OBVIOUS
<1>13. /\ dev'.ulBytesToTransfer = m /\ dev'.ulCurrentLBA = a /\ dev'.run = b
       /\ dev'.chunk = BlockRead(a, b)
  BY <1>2, <1>6, <1>12
<1>14. /\ host'.cmd.n = m /\ host'.cmd.lba = a /\ host'.got = << >>
       /\ b = Least(m, Chunk)
  BY <1>7, <1>8, <1>12
<1>15. /\ a \in Nat /\ m \in Nat /\ m > 0 /\ b \in Nat
       /\ Len(BlockRead(a, b)) = b
       /\ \A i \in 1 .. b : BlockRead(a, b)[i] = <<"block", a + i - 1>>
  BY <1>3, <1>4, <1>12
<1> HIDE DEF c, n
<1>16. /\ dev'.ulBytesToTransfer \in 1 .. host'.cmd.n
       /\ dev'.run = Least(dev'.ulBytesToTransfer, Chunk)
       /\ dev'.ulCurrentLBA
            = host'.cmd.lba + (host'.cmd.n - dev'.ulBytesToTransfer)
  BY <1>13, <1>14, <1>15
<1>17. /\ Len(host'.got) + Len(dev'.chunk) =
            (host'.cmd.n - dev'.ulBytesToTransfer) + dev'.run
       /\ Len(host'.got) = 0
  BY <1>13, <1>14, <1>15
<1>18. \A i \in 1 .. Len(host'.got) :
         host'.got[i] = <<"block", host'.cmd.lba + i - 1>>
  BY <1>17
<1>19. \A i \in 1 .. Len(dev'.chunk) :
         dev'.chunk[i] = <<"block", host'.cmd.lba + Len(host'.got) + i - 1>>
  BY <1>13, <1>14, <1>15, <1>17
<1>20. /\ host'.phase = "data" /\ Len(host'.got) # host'.cmd.n
       /\ host'.cmd.kind = "read"
       /\ disk'.inserted /\ disk'.written = << >>
  BY <1>7, <1>8, <1>14, <1>15, <1>17
<1> QED BY <1>10, <1>11, <1>16, <1>17, <1>18, <1>19, <1>20 DEF Reading

\* A write waits for its blocks.
LEMMA SentWrites ==
  ASSUME Sent, NEW f, Taken(f), host.cmd.kind = "write",
         f.pvMedia, Leaves(Write10(f, host.cmd))
  PROVE  Receiving'
<1> DEFINE c == host.cmd
           o == Write10(f, c)
<1>1. f \in DeviceType /\ c \in Commands
  BY DEF Taken, Sent, InCommand
<1>2. /\ o \in DeviceType /\ o.chunk = f.chunk /\ o.run = f.run
      /\ o.ucSCSIState = "RECEIVE_BLOCKS" /\ o.coreRx
      /\ o.ulCurrentLBA = c.lba /\ o.ulBytesToTransfer = c.n
      /\ o.csw = f.csw /\ OutSide(o) = OutSide(f) /\ InSide(o) = InSide(f)
      /\ Media(o) = Media(f)
  BY <1>1, WriteStartIs
<1>3. c.lba \in Nat /\ c.n \in Nat /\ c.n > 0
  BY <1>1, CommandNumbers DEF NoData
<1> HIDE DEF o
<1>4. Leaves(o)
  BY DEF o
<1>5. /\ ~dev'.irqOut /\ ~dev'.irqIn /\ dev'.chunk = o.chunk /\ dev'.run = o.run
      /\ dev'.ucSCSIState = o.ucSCSIState /\ dev'.csw = o.csw /\ dev'.coreRx = o.coreRx
      /\ dev'.fifo = o.fifo /\ dev'.rxq = o.rxq /\ dev'.outStall = o.outStall
      /\ dev'.inPacket = o.inPacket /\ dev'.inStall = o.inStall
      /\ dev'.ulBytesToTransfer = o.ulBytesToTransfer
      /\ dev'.ulCurrentLBA = o.ulCurrentLBA
      /\ dev'.ucSenseKey = o.ucSenseKey
  BY <1>4, LeavesIs
<1>6. host' = host /\ disk' = disk
  BY <1>4 DEF Leaves
<1>7. /\ host.phase = "data" /\ host.got = << >> /\ host.sent = 0
      /\ disk.written = << >>
  BY <1>3 DEF Sent
<1>8. disk.inserted
  BY DEF Sent, Taken, Media
<1>9. dev'.ucSenseKey = dev.ucSenseKey
  BY <1>2, <1>5 DEF Media, Taken
<1>10. InCommand' /\ Knows(host.why)'
  BY <1>6, <1>9 DEF Sent, InCommand, Knows
<1>11. /\ dev'.ucSCSIState = "RECEIVE_BLOCKS" /\ dev'.coreRx /\ ~dev'.irqOut
       /\ ~dev'.outStall /\ dev'.fifo = << >> /\ dev'.rxq = << >>
       /\ dev'.run = 0 /\ dev'.chunk = << >>
       /\ dev'.csw = [tag |-> host'.tag, status |-> 0]
  BY <1>2, <1>5, <1>6 DEF OutSide, Taken
<1>12. InQuiet'
  BY <1>2, <1>5 DEF InQuiet, InSide, Taken
<1>13. PICK m, a : m = c.n /\ a = c.lba
  OBVIOUS
<1>14. /\ dev'.ulBytesToTransfer = m /\ dev'.ulCurrentLBA = a
       /\ host'.cmd.n = m /\ host'.cmd.lba = a
       /\ m \in Nat /\ m > 0 /\ a \in Nat
  BY <1>2, <1>3, <1>5, <1>6, <1>13
<1>15. /\ Len(disk'.written) = 0 /\ Len(dev'.rxq) = 0 /\ Len(dev'.fifo) = 0
       /\ host'.sent = 0 /\ disk'.written = << >> /\ dev'.rxq = << >>
  BY <1>6, <1>7, <1>11
<1>16. /\ host'.sent = Len(disk'.written) + Len(dev'.rxq) + Len(dev'.fifo)
       /\ host'.sent <= host'.cmd.n /\ host'.sent # host'.cmd.n
       /\ dev'.ulBytesToTransfer = host'.cmd.n - Len(disk'.written)
       /\ dev'.ulBytesToTransfer > 0
       /\ dev'.ulCurrentLBA = host'.cmd.lba + Len(disk'.written)
  BY <1>14, <1>15
<1>17. /\ \A i \in 1 .. Len(disk'.written) :
            disk'.written[i] = <<host'.cmd.lba + i - 1, DataPacket(i - 1)>>
       /\ \A i \in 1 .. Len(dev'.rxq) :
            dev'.rxq[i] = DataPacket(Len(disk'.written) + i - 1)
  BY <1>15
<1>18. /\ host'.phase = "data" /\ host'.cmd.kind = "write" /\ host'.got = << >>
       /\ disk'.inserted
  BY <1>6, <1>7, <1>8
<1> QED BY <1>10, <1>11, <1>12, <1>16, <1>17, <1>18 DEF Receiving

\* A command that has been sent is begun.
LEMMA SentHandled ==
  ASSUME MscTypeOK, PoolInv, Sent, HandleEndpoints, dev'.alloc = "ok"
  PROVE  CommandInv'
<1>1. PICK f : /\ Taken(f)
               /\ Leaves(IF host.cmd.n = 0 THEN SendStatus(Command(f, host.cmd))
                                           ELSE Command(f, host.cmd))
  BY SentTaken
<1> DEFINE c == host.cmd
<1>2. /\ c \in Commands /\ c.kind \in Kinds
      /\ c.n = 0 <=> c.kind \in NoData
  BY CommandNumbers DEF Sent, InCommand
<1>3. /\ f \in DeviceType /\ f.ucSenseKey = dev.ucSenseKey /\ f.pvMedia = dev.pvMedia
      /\ f.inPacket = << >> /\ ~f.inStall /\ ~f.outStall
      /\ f.fifo = << >> /\ f.rxq = << >>
  BY <1>1 DEF Taken, Media
<1>4. CASE c.kind \in NoData
  BY <1>1, <1>2, <1>4, SentNoData DEF CommandInv
<1>5. ASSUME c.kind \notin NoData, NEW key \in SenseKeys, Reason(c) = key,
             Command(f, c) = FailIn(f, key), c.kind \notin {"write", "badOut"}
      PROVE  Failing'
  <2> DEFINE o == FailIn(f, key)
  <2>1. Leaves(o)
    BY <1>1, <1>2, <1>5
  <2>2. /\ o.chunk = f.chunk /\ o.run = f.run /\ o.ucSCSIState = "SEND_STATUS"
        /\ o.ucSenseKey = key /\ o.csw = [tag |-> f.csw.tag, status |-> 1]
        /\ OutSide(o) = OutSide(f) /\ o.inStall /\ o.inPacket = f.inPacket
    BY <1>3, FailInIs
  <2> HIDE DEF o
  <2>3. o.fifo = f.fifo /\ o.rxq = f.rxq /\ ~o.outStall
    BY <1>3, <2>2 DEF OutSide
  <2> QED BY <1>1, <1>5, <2>1, <2>2, <2>3, SentFails
<1>6. ASSUME c.kind \notin NoData, NEW key \in SenseKeys, Reason(c) = key,
             Command(f, c) = FailOut(f, key)
      PROVE  Failing'
  <2> DEFINE o == FailOut(f, key)
  <2>1. Leaves(o)
    BY <1>1, <1>2, <1>6
  <2>2. /\ o.chunk = f.chunk /\ o.run = f.run /\ o.ucSCSIState = "SEND_STATUS"
        /\ o.ucSenseKey = key /\ o.csw = [tag |-> f.csw.tag, status |-> 1]
        /\ InSide(o) = InSide(f) /\ o.outStall /\ o.fifo = f.fifo /\ o.rxq = f.rxq
    BY <1>3, FailOutIs
  <2> HIDE DEF o
  <2>3. o.inPacket = f.inPacket /\ ~o.inStall
    BY <1>3, <2>2 DEF InSide
  <2> QED BY <1>1, <1>6, <2>1, <2>2, <2>3, SentFails
<1>7. CASE c.kind \in NeedsMedium /\ ~f.pvMedia
  <2>1. Reason(c) = NotReady /\ NotReady \in SenseKeys /\ c.kind \notin NoData
    BY <1>7 DEF Reason, SenseKeys, NeedsMedium, NoData
  <2>2. CASE c.kind = "capacity" \/ c.kind = "read"
    <3>1. Command(f, c) = FailIn(f, NotReady)
      BY <1>7, <2>2 DEF Command, Read10
    <3> QED BY <1>5, <2>1, <2>2, <3>1 DEF CommandInv
  <2>3. CASE c.kind = "write"
    <3>1. Command(f, c) = FailOut(f, NotReady)
      BY <1>7, <2>3 DEF Command, Write10
    <3> QED BY <1>6, <2>1, <3>1 DEF CommandInv
  <2> QED BY <1>7, <2>2, <2>3 DEF NeedsMedium
<1>8. CASE c.kind = "badIn"
  <2>1. Reason(c) = Illegal /\ Illegal \in SenseKeys /\ c.kind \notin NoData
    BY <1>8 DEF Reason, SenseKeys, NeedsMedium, NoData
  <2>2. Command(f, c) = FailIn(f, Illegal)
    BY <1>8 DEF Command
  <2> QED BY <1>5, <1>8, <2>1, <2>2 DEF CommandInv
<1>9. CASE c.kind = "badOut"
  <2>1. Reason(c) = Illegal /\ Illegal \in SenseKeys /\ c.kind \notin NoData
    BY <1>9 DEF Reason, SenseKeys, NeedsMedium, NoData
  <2>2. Command(f, c) = FailOut(f, Illegal)
    BY <1>9 DEF Command
  <2> QED BY <1>6, <2>1, <2>2 DEF CommandInv
<1>10. CASE c.kind \in {"inquiry", "sense"} \/ (c.kind = "capacity" /\ f.pvMedia)
  <2>1. PICK item : item = IF c.kind = "sense" THEN <<"sense", dev.ucSenseKey>>
                                               ELSE <<"info", 0>>
    OBVIOUS
  <2>2. item \in Items
    BY <1>3, <2>1 DEF Items, DeviceType
  <2>3. Command(f, c) = Answer(f, item)
    BY <1>3, <1>10, <2>1 DEF Command
  <2>4. Leaves(Answer(f, item))
    BY <1>1, <1>2, <1>10, <2>3 DEF NoData
  <2>5. c.kind \in {"inquiry", "capacity", "sense"}
    BY <1>10
  <2> QED BY <1>1, <2>1, <2>2, <2>4, <2>5, SentAnswers DEF CommandInv
<1>11. CASE c.kind = "read" /\ f.pvMedia /\ ~disk.inserted
  <2> DEFINE o == Read10(f, c)
  <2>1. Leaves(o)
    BY <1>1, <1>2, <1>11 DEF NoData, Command
  <2>f. Fits(f, Least(c.n, Chunk))
    <3>1. SUFFICES ASSUME ~Fits(f, Least(c.n, Chunk)) PROVE FALSE
      OBVIOUS
    <3>2. Allotted(f, o, Least(c.n, Chunk))
      BY <1>2, <1>3, <1>11, <3>1, ReadStartIs
    <3>3. o.alloc = "ok"
      BY <2>1 DEF Leaves
    <3> HIDE DEF o
    <3> QED BY <3>1, <3>2, <3>3 DEF Allotted
  <2>2. /\ o.chunk = f.chunk /\ o.run = f.run /\ o.ucSCSIState = "SEND_STATUS"
        /\ o.ucSenseKey = NotReady /\ o.csw = [tag |-> f.csw.tag, status |-> 1]
        /\ OutSide(o) = OutSide(f) /\ o.inStall /\ o.inPacket = f.inPacket
    BY <1>2, <1>3, <1>11, <2>f, ReadLostIs
  <2> HIDE DEF o
  <2>3. o.fifo = f.fifo /\ o.rxq = f.rxq /\ ~o.outStall
    BY <1>3, <2>2 DEF OutSide
  <2>4. Reason(c) = NotReady /\ NotReady \in SenseKeys /\ c.kind \notin NoData
    BY <1>11 DEF Reason, SenseKeys, NeedsMedium, NoData
  <2>5. Failing'
    BY <1>1, <1>11, <2>1, <2>2, <2>3, <2>4, SentFails
  <2> QED BY <2>5 DEF CommandInv
<1>12. CASE c.kind = "read" /\ f.pvMedia /\ disk.inserted
  <2>1. Leaves(Read10(f, c))
    BY <1>1, <1>2, <1>12 DEF NoData, Command
  <2> QED BY <1>1, <1>12, <2>1, SentReads DEF CommandInv
<1>13. CASE c.kind = "write" /\ f.pvMedia
  <2>1. Leaves(Write10(f, c))
    BY <1>1, <1>2, <1>13 DEF NoData, Command
  <2> QED BY <1>1, <1>13, <2>1, SentWrites DEF CommandInv
<1> QED BY <1>2, <1>4, <1>7, <1>8, <1>9, <1>10, <1>11, <1>12, <1>13
        DEF Kinds, NoData, NeedsMedium

\* An interrupt that finds nothing on the OUT endpoint.
LEMMA OnlyIn ==
  ASSUME MscTypeOK, PoolInv, HandleEndpoints, dev'.alloc = "ok", OutEmpty,
         OutSide(InPart(dev)) = OutSide(dev)
  PROVE  Leaves(InPart(dev))
<1>1. PICK d \in DeviceType, o \in DeviceType :
        /\ d = InPart(dev) /\ o = OutPart(d) /\ o.alloc = "ok"
        /\ dev' = [o EXCEPT !.irqIn = FALSE, !.irqOut = FALSE]
        /\ host' = host
        /\ disk' = IF OutPending(d) /\ d.ucSCSIState = "RECEIVE_BLOCKS"
                     THEN [disk EXCEPT !.written = @ \o BlockWrites(d)]
                     ELSE disk
  BY HandledOk, Zenon
<1>2. ~OutPending(d)
  BY <1>1 DEF OutEmpty, OutSide, OutPending
<1>3. o = d /\ disk' = disk
  BY <1>1, <1>2 DEF OutPart
<1> QED BY <1>1, <1>3 DEF Leaves

\* A chunk that has left, or the only packet of an answer, is completed.
LEMMA Completes ==
  ASSUME MscTypeOK, PoolInv, HandleEndpoints, dev'.alloc = "ok", OutEmpty, dev.run > 0
  PROVE  /\ TxPending(dev) /\ dev.chunk = << >> /\ ~dev.irqIn
         /\ dev.inPacket = << >> /\ ~dev.inStall
<1>1. dev \in DeviceType /\ dev.run \in Nat
  BY DEF MscTypeOK, DeviceType
<1>2. ~dev.irqIn
  BY <1>1 DEF PoolInv
<1>3. TxPending(dev)
  BY <1>2 DEF HandleEndpoints, OutEmpty, OutPending
<1>4. dev.ucSCSIState # "SENT_STATUS" /\ ~dev.inStall
  BY <1>1 DEF PoolInv, BooksRight
<1> QED BY <1>2, <1>3, <1>4 DEF TxPending, PoolInv, BooksRight

\* The status of success is sent; what is left is that status.
LEMMA Succeeds ==
  ASSUME MscTypeOK, InCommand, Knows(host.why), ~dev.outStall, OutEmpty,
         dev.csw = [tag |-> host.tag, status |-> 0],
         NEW o, Leaves(o), o.ucSCSIState = "SENT_STATUS",
         ~o.coreRx, ~o.inStall, o.inPacket = <<dev.csw>>,
         o.chunk = << >>, o.run = 0,
         OutSide(o) = OutSide(dev), Media(o) = Media(dev),
         host.got = Wanted(host.cmd), disk.written = ToWrite(host.cmd),
         host.phase = "data" => host.cmd.kind \notin {"write", "badOut"}
  PROVE  StatusDue'
<1>1. /\ dev' \in DeviceType /\ ~dev'.irqIn /\ ~dev'.irqOut
      /\ dev'.chunk = o.chunk /\ dev'.run = o.run
      /\ dev'.ucSCSIState = o.ucSCSIState /\ dev'.coreRx = o.coreRx
      /\ dev'.fifo = o.fifo /\ dev'.rxq = o.rxq /\ dev'.outStall = o.outStall
      /\ dev'.inPacket = o.inPacket /\ dev'.inStall = o.inStall
      /\ dev'.ucSenseKey = o.ucSenseKey
  BY LeavesIs
<1>2. host' = host /\ disk' = disk
  BY DEF Leaves
<1>3. PICK w \in CswType : w = dev.csw
  BY DEF MscTypeOK, DeviceType
<1>4. w.tag = host.tag /\ w.status = 0
  BY <1>3
<1>5. dev'.inPacket = <<w>>
  BY <1>1, <1>3
<1>6. OutEmpty' /\ ~dev'.outStall
  BY <1>1 DEF OutEmpty, OutSide
<1>7. Outcome(w)'
  BY <1>2, <1>4 DEF Outcome, Wanted, ToWrite
<1>8. Knows(IF w.status = 1 THEN Reason(host.cmd) ELSE host.why)'
  BY <1>1, <1>2, <1>4 DEF Knows, Media
<1>9. InCommand'
  BY <1>2 DEF InCommand
<1> QED BY <1>1, <1>2, <1>5, <1>6, <1>7, <1>8, <1>9 DEF StatusDue

\* A chunk of a read has left: the next one is read, or the status is sent.
LEMMA ReadingHandled ==
  ASSUME MscTypeOK, PoolInv, Reading, HandleEndpoints, dev'.alloc = "ok"
  PROVE  CommandInv'
<1> DEFINE c == TxCompletion(dev)
<1>0. dev \in DeviceType /\ host \in HostType
  BY DEF MscTypeOK
<1>a. PICK m, b, r, a : /\ m = host.cmd.n /\ b = dev.ulBytesToTransfer
                        /\ r = dev.run /\ a = host.cmd.lba
  OBVIOUS
<1>b. /\ m \in Nat /\ a \in Nat /\ b \in 1 .. m /\ r \in Nat
      /\ r = Least(b, Chunk) /\ Chunk \in Nat /\ Chunk > 0
  BY <1>0, <1>a, CommandNumbers, MscAssumption DEF Reading, InCommand, DeviceType
<1>1. r > 0
  BY <1>b DEF Least
<1>2. /\ TxPending(dev) /\ dev.chunk = << >> /\ ~dev.irqIn
      /\ dev.inPacket = << >> /\ ~dev.inStall
  BY <1>1, <1>a, Completes DEF Reading
<1>3. /\ c \in DeviceType /\ c.run = 0
      /\ c.chunk = dev.chunk /\ c.ucSCSIState = dev.ucSCSIState /\ c.csw = dev.csw
      /\ OutSide(c) = OutSide(dev) /\ InSide(c) = InSide(dev)
      /\ Place(c) = Place(dev) /\ Media(c) = Media(dev)
  BY <1>0, TxCompletionIs
<1>4. InPart(dev) = SendBlocks(c, TRUE)
  BY <1>2 DEF InPart, Reading
<1>5. c.ulBytesToTransfer = b /\ c.ulCurrentLBA = dev.ulCurrentLBA
  BY <1>3, <1>a DEF Place
<1>6. PICK g : g = host.got
  OBVIOUS
<1>7. /\ g \in Seq(Items) /\ Len(g) \in Nat /\ Len(g) = (m - b) + r
      /\ \A i \in 1 .. Len(g) : g[i] = <<"block", a + i - 1>>
  <2>1. g \in Seq(Items) /\ Len(dev.chunk) = 0
    BY <1>0, <1>2, <1>6 DEF HostType
  <2>2. Len(g) + Len(dev.chunk) = (m - b) + r
    BY <1>a, <1>6 DEF Reading
  <2>3. \A i \in 1 .. Len(g) : g[i] = <<"block", a + i - 1>>
    BY <1>a, <1>6 DEF Reading
  <2> QED BY <1>b, <2>1, <2>2, <2>3
<1> HIDE DEF c
<1>8. CASE b <= Chunk
  <2> DEFINE o == SendStatus([c EXCEPT !.ulBytesToTransfer = 0, !.csw.status = 0])
  <2>0. 0 \in Int
    OBVIOUS
  <2>1. /\ o \in DeviceType
        /\ o.ucSCSIState = "SENT_STATUS" /\ ~o.coreRx /\ ~o.inStall
        /\ c.inPacket = << >> => o.inPacket = <<[tag |-> c.csw.tag, status |-> 0]>>
        /\ o.chunk = c.chunk /\ o.run = c.run
        /\ OutSide(o) = OutSide(c) /\ Media(o) = Media(c)
    BY <1>3, <2>0, SuccessIs, Zenon
  <2>2. InPart(dev) = o
    BY <1>3, <1>4, <1>5, <1>8, LastChunkIs
  <2> HIDE DEF o
  <2>3. Leaves(o)
    BY <1>3, <2>1, <2>2, OnlyIn DEF Reading
  <2>4. o.inPacket = <<dev.csw>> /\ o.chunk = << >> /\ o.run = 0
    <3>1. c.inPacket = << >> /\ c.csw.tag = host.tag
      BY <1>2, <1>3 DEF InSide, Reading
    <3> QED BY <1>2, <1>3, <2>1, <3>1 DEF Reading
  <2>5. Len(g) = m
    BY <1>7, <1>8, <1>b DEF Least
  <2>6. host.got = Wanted(host.cmd) /\ disk.written = ToWrite(host.cmd)
    <3>1. g = [i \in 1 .. m |-> <<"block", a + i - 1>>]
      <4>1. DOMAIN g = 1 .. m /\ g = [i \in DOMAIN g |-> g[i]]
        BY <1>7, <2>5
      <4> QED BY <1>7, <2>5, <4>1, Zenon
    <3>2. host.cmd.kind = "read" /\ disk.written = << >>
      BY DEF Reading
    <3>3. Wanted(host.cmd) = [i \in 1 .. m |-> <<"block", a + i - 1>>]
      BY <3>2, <1>a DEF Wanted
    <3> QED BY <1>6, <3>1, <3>2, <3>3 DEF ToWrite
  <2>7. StatusDue'
    BY <1>3, <2>1, <2>3, <2>4, <2>6, Succeeds DEF Reading
  <2> QED BY <2>7 DEF CommandInv
<1>9. CASE b > Chunk
  <2> DEFINE k == b - Chunk
             n == Least(k, Chunk)
             o == SendBlocks(c, TRUE)
  <2>0. dev.ulCurrentLBA = a + (m - b)
    BY <1>a DEF Reading
  <2>1. /\ o \in DeviceType
        /\ o.chunk = BlockRead(c.ulCurrentLBA + Chunk, n) /\ o.run = n
        /\ o.ulBytesToTransfer = k /\ o.ulCurrentLBA = c.ulCurrentLBA + Chunk
        /\ o.ucSCSIState = c.ucSCSIState /\ o.csw = c.csw
        /\ OutSide(o) = OutSide(c) /\ Media(o) = Media(c)
    <3>1. c.ulBytesToTransfer > Chunk
      BY <1>5, <1>9
    <3>2. k = c.ulBytesToTransfer - Chunk
      BY <1>5
    <3> HIDE DEF k
    <3>3. Fits(c, n)
      <4>1. SUFFICES ASSUME ~Fits(c, n) PROVE FALSE
        OBVIOUS
      <4>2. OutSide(o) = OutSide(c) /\ o.alloc = "failed"
        BY <1>3, <3>1, <3>2, <4>1, NoChunkIs
      <4>3. Leaves(o)
        BY <1>3, <1>4, <4>2, OnlyIn DEF Reading
      <4> QED BY <4>2, <4>3 DEF Leaves
    <3> QED BY <1>3, <3>1, <3>2, <3>3, NextChunkIs
  <2>2. k \in Nat /\ k > 0 /\ k \in 1 .. m
    BY <1>9, <1>b
  <2>3. n \in Nat /\ n > 0
    BY <2>2, ChunkNumbers
  <2>4. PICK p \in Nat : p = a + (m - b) + Chunk /\ p = c.ulCurrentLBA + Chunk
    <3>1. a + (m - b) + Chunk \in Nat
      BY <1>b
    <3>2. a + (m - b) + Chunk = c.ulCurrentLBA + Chunk
      BY <1>5, <2>0
    <3> QED BY <3>1, <3>2
  <2>5. p = a + (m - k) /\ p = a + Len(g) /\ Len(g) = m - k
    BY <1>7, <1>9, <1>b, <2>4 DEF Least
  <2>6. /\ Len(BlockRead(p, n)) = n
        /\ \A i \in 1 .. n : BlockRead(p, n)[i] = <<"block", p + i - 1>>
    BY <2>3, <2>4, BlockReadIs DEF Reading
  <2> HIDE DEF k, n, o
  <2>7. Leaves(o)
    BY <1>3, <1>4, <2>1, OnlyIn DEF Reading, o
  <2>8. /\ dev' \in DeviceType /\ ~dev'.irqOut
        /\ dev'.chunk = o.chunk /\ dev'.run = o.run
        /\ dev'.ucSCSIState = o.ucSCSIState /\ dev'.csw = o.csw
        /\ dev'.fifo = o.fifo /\ dev'.rxq = o.rxq /\ dev'.outStall = o.outStall
        /\ dev'.ulBytesToTransfer = o.ulBytesToTransfer
        /\ dev'.ulCurrentLBA = o.ulCurrentLBA
        /\ dev'.ucSenseKey = o.ucSenseKey
    BY <2>7, LeavesIs
  <2>9. host' = host /\ disk' = disk
    BY <2>7 DEF Leaves
  <2>10. InCommand' /\ Knows(host.why)'
    BY <1>3, <2>1, <2>8, <2>9 DEF Reading, InCommand, Knows, Media
  <2>11. /\ dev'.ucSCSIState = "SEND_BLOCKS" /\ OutEmpty' /\ ~dev'.outStall
         /\ dev'.csw = [tag |-> host'.tag, status |-> 0]
    BY <1>3, <2>1, <2>8, <2>9 DEF Reading, OutEmpty, OutSide
  <2>12. /\ dev'.ulBytesToTransfer = k /\ dev'.ulCurrentLBA = p
         /\ dev'.run = n /\ dev'.chunk = BlockRead(p, n)
    BY <2>1, <2>4, <2>8
  <2>13. host'.cmd.n = m /\ host'.cmd.lba = a /\ host'.got = g
    BY <1>a, <1>6, <2>9
  <2>14. /\ dev'.ulBytesToTransfer \in 1 .. host'.cmd.n
         /\ dev'.run = Least(dev'.ulBytesToTransfer, Chunk)
         /\ dev'.ulCurrentLBA
              = host'.cmd.lba + (host'.cmd.n - dev'.ulBytesToTransfer)
    BY <2>2, <2>5, <2>12, <2>13 DEF n
  <2>15. Len(host'.got) + Len(dev'.chunk) =
           (host'.cmd.n - dev'.ulBytesToTransfer) + dev'.run
    BY <2>5, <2>6, <2>12, <2>13
  <2>16. \A i \in 1 .. Len(host'.got) :
           host'.got[i] = <<"block", host'.cmd.lba + i - 1>>
    BY <1>7, <2>13
  <2>17. \A i \in 1 .. Len(dev'.chunk) :
           dev'.chunk[i] = <<"block", host'.cmd.lba + Len(host'.got) + i - 1>>
    BY <2>5, <2>6, <2>12, <2>13
  <2>18. /\ host'.phase = (IF Len(host'.got) = host'.cmd.n THEN "csw" ELSE "data")
         /\ host'.cmd.kind = "read" /\ disk'.inserted /\ disk'.written = << >>
    BY <2>9 DEF Reading
  <2> QED BY <2>10, <2>11, <2>14, <2>15, <2>16, <2>17, <2>18
          DEF Reading, CommandInv
<1> QED BY <1>8, <1>9, <1>b

\* A response has left: the status is sent.
LEMMA AnsweringHandled ==
  ASSUME MscTypeOK, PoolInv, Answering, HandleEndpoints, dev'.alloc = "ok"
  PROVE  CommandInv'
<1> DEFINE c == TxCompletion(dev)
           o == SendStatus(c)
<1>0. dev \in DeviceType
  BY DEF MscTypeOK
<1>1. /\ TxPending(dev) /\ dev.chunk = << >> /\ ~dev.irqIn
      /\ dev.inPacket = << >> /\ ~dev.inStall
  BY Completes DEF Answering
<1>2. /\ c \in DeviceType /\ c.run = 0
      /\ c.chunk = dev.chunk /\ c.csw = dev.csw
      /\ OutSide(c) = OutSide(dev) /\ InSide(c) = InSide(dev)
      /\ Media(c) = Media(dev)
  BY <1>0, TxCompletionIs
<1>3. InPart(dev) = o
  BY <1>1 DEF InPart, Answering
<1> HIDE DEF c
<1>4. /\ o \in DeviceType
      /\ o.ucSCSIState = "SENT_STATUS" /\ ~o.coreRx /\ ~o.inStall
      /\ c.inPacket = << >> => o.inPacket = <<c.csw>>
      /\ o.chunk = c.chunk /\ o.run = c.run
      /\ OutSide(o) = OutSide(c) /\ Media(o) = Media(c)
  BY <1>2, SendStatusIs
<1> HIDE DEF o
<1>5. Leaves(o)
  BY <1>2, <1>3, <1>4, OnlyIn DEF Answering
<1>6. o.inPacket = <<dev.csw>> /\ o.chunk = << >> /\ o.run = 0
  BY <1>1, <1>2, <1>4 DEF InSide
<1>7. PICK item \in Items :
        /\ Response(item)
        /\ \/ dev.chunk = <<item>> /\ host.got = << >> /\ host.phase = "data"
           \/ dev.chunk = << >> /\ host.got = <<item>>
  BY DEF Answering
<1>8. host.got = <<item>>
  <2>1. <<item>> # << >>
    OBVIOUS
  <2> QED BY <1>1, <1>7, <2>1
<1>9. host.got = Wanted(host.cmd)
  <2>1. CASE host.cmd.kind = "sense"
    BY <1>7, <1>8, <2>1 DEF Answering, Response, Wanted, Knows
  <2>2. CASE host.cmd.kind \in {"inquiry", "capacity"}
    BY <1>7, <1>8, <2>2 DEF Response, Wanted
  <2> QED BY <2>1, <2>2 DEF Answering
<1>10. disk.written = ToWrite(host.cmd)
  BY DEF Answering, ToWrite
<1>11. StatusDue'
  BY <1>2, <1>4, <1>5, <1>6, <1>9, <1>10, Succeeds DEF Answering
<1> QED BY <1>11 DEF CommandInv

\* The endpoint is no longer stalled: the status of failure is sent.
LEMMA FailingHandled ==
  ASSUME MscTypeOK, PoolInv, Failing, HandleEndpoints, dev'.alloc = "ok"
  PROVE  CommandInv'
<1>0. dev \in DeviceType
  BY DEF MscTypeOK
<1>1. PICK d \in DeviceType, o \in DeviceType :
        /\ d = InPart(dev) /\ o = OutPart(d) /\ o.alloc = "ok"
        /\ dev' = [o EXCEPT !.irqIn = FALSE, !.irqOut = FALSE]
        /\ host' = host
        /\ disk' = IF OutPending(d) /\ d.ucSCSIState = "RECEIVE_BLOCKS"
                     THEN [disk EXCEPT !.written = @ \o BlockWrites(d)]
                     ELSE disk
  BY HandledOk, Zenon
<1>2. ~TxPending(dev)
  BY DEF TxPending, Failing
<1>3. CASE dev.irqIn
  <2>1. /\ host.phase = "csw" /\ ~dev.inStall /\ ~dev.outStall /\ ~dev.irqOut
    BY <1>3 DEF Failing
  <2>2. d = SendStatus(dev)
    BY <1>1, <1>2, <1>3 DEF InPart, Failing
  <2>3. /\ d.ucSCSIState = "SENT_STATUS" /\ ~d.coreRx /\ ~d.inStall
        /\ d.inPacket = <<dev.csw>> /\ d.chunk = dev.chunk /\ d.run = dev.run
        /\ OutSide(d) = OutSide(dev) /\ Media(d) = Media(dev)
    BY <1>0, <2>2, SendStatusIs DEF Failing
  <2>4. o = d /\ disk' = disk
    BY <1>1, <2>3 DEF OutPart
  <2>5. Leaves(d)
    BY <1>1, <2>4 DEF Leaves
  <2>6. /\ ~dev'.irqIn /\ ~dev'.irqOut
        /\ dev'.chunk = d.chunk /\ dev'.run = d.run
        /\ dev'.ucSCSIState = d.ucSCSIState /\ dev'.coreRx = d.coreRx
        /\ dev'.fifo = d.fifo /\ dev'.rxq = d.rxq /\ dev'.outStall = d.outStall
        /\ dev'.inPacket = d.inPacket /\ dev'.inStall = d.inStall
        /\ dev'.ucSenseKey = d.ucSenseKey
    BY <2>5, LeavesIs
  <2>7. PICK w \in CswType : w = dev.csw
    BY <1>0 DEF DeviceType
  <2>8. w.tag = host.tag /\ w.status = 1
    BY <2>7 DEF Failing
  <2>9. dev'.inPacket = <<w>>
    BY <2>3, <2>6, <2>7
  <2>10. OutEmpty' /\ ~dev'.outStall /\ dev'.run = 0 /\ dev'.chunk = << >>
    BY <2>1, <2>3, <2>6 DEF OutEmpty, OutSide, Failing
  <2>11. Outcome(w)'
    <3>1. host'.got = << >> /\ disk'.written = << >> /\ host'.tag = host.tag
      BY <1>1, <2>4 DEF Failing
    <3>2. w.status # 0
      BY <2>8
    <3> QED BY <2>8, <3>1, <3>2 DEF Outcome
  <2>12. Knows(IF w.status = 1 THEN Reason(host.cmd) ELSE host.why)'
    BY <1>1, <2>3, <2>6, <2>8 DEF Knows, Media, Reason, Failing
  <2>13. InCommand' /\ host'.phase = "csw"
    BY <1>1, <2>1 DEF InCommand, Failing
  <2> QED BY <2>3, <2>6, <2>9, <2>10, <2>11, <2>12, <2>13 DEF StatusDue, CommandInv
<1>4. CASE ~dev.irqIn
  <2>1. d = dev
    BY <1>1, <1>2, <1>4 DEF InPart
  <2>2. o = dev /\ disk' = disk
    BY <1>1, <2>1 DEF OutPart, Failing
  <2>3. Leaves(dev)
    BY <1>0, <1>1, <2>2 DEF Leaves
  <2>4. /\ ~dev'.irqIn /\ ~dev'.irqOut
        /\ dev'.chunk = dev.chunk /\ dev'.run = dev.run
        /\ dev'.ucSCSIState = dev.ucSCSIState /\ dev'.csw = dev.csw
        /\ dev'.fifo = dev.fifo /\ dev'.rxq = dev.rxq /\ dev'.outStall = dev.outStall
        /\ dev'.inPacket = dev.inPacket /\ dev'.inStall = dev.inStall
        /\ dev'.ucSenseKey = dev.ucSenseKey
    BY <2>3, LeavesIs
  <2>5. InCommand' /\ Knows(Reason(host.cmd))'
    BY <1>1, <2>4 DEF InCommand, Knows, Reason, Failing
  <2>6. Failing'
    BY <1>1, <2>2, <2>4, <2>5 DEF Failing
  <2> QED BY <2>6 DEF CommandInv
<1> QED BY <1>3, <1>4

\* An interrupt while a status waits to be taken finds nothing to do.
LEMMA StatusDueHandled ==
  ASSUME StatusDue, HandleEndpoints
  PROVE  FALSE
BY DEF StatusDue, HandleEndpoints, TxPending, OutPending, OutEmpty

\* The blocks that have come are written.
LEMMA ReceivingHandled ==
  ASSUME MscTypeOK, PoolInv, Receiving, HandleEndpoints, dev'.alloc = "ok"
  PROVE  CommandInv'
<1>0. dev \in DeviceType /\ host \in HostType /\ disk \in DiskType
  BY DEF MscTypeOK
<1>1. PICK d \in DeviceType, o \in DeviceType :
        /\ d = InPart(dev) /\ o = OutPart(d) /\ o.alloc = "ok"
        /\ dev' = [o EXCEPT !.irqIn = FALSE, !.irqOut = FALSE]
        /\ host' = host
        /\ disk' = IF OutPending(d) /\ d.ucSCSIState = "RECEIVE_BLOCKS"
                     THEN [disk EXCEPT !.written = @ \o BlockWrites(d)]
                     ELSE disk
  BY HandledOk, Zenon
<1>2. ~TxPending(dev) /\ ~dev.irqIn /\ OutPending(dev)
  BY DEF TxPending, OutPending, Receiving, InQuiet, HandleEndpoints
<1>3. d = dev
  BY <1>1, <1>2 DEF InPart
<1>4. PICK m, a, b, r, q, wr, wn :
        /\ m = host.cmd.n /\ a = host.cmd.lba /\ b = dev.ulBytesToTransfer
        /\ q = dev.rxq /\ r = Len(dev.rxq)
        /\ wr = disk.written /\ wn = Len(disk.written)
  OBVIOUS
<1>n. /\ m \in Nat /\ a \in Nat /\ wn \in Nat /\ r \in Nat
      /\ b = m - wn /\ b > 0
  <2>1. m \in Nat /\ a \in Nat
    BY <1>4, CommandNumbers DEF Receiving, InCommand
  <2>2. dev.rxq \in Seq(Packets) /\ disk.written \in Seq(Nat \X Packets)
    BY <1>0 DEF DeviceType, DiskType
  <2>3. wn \in Nat /\ r \in Nat
    BY <1>4, <2>2
  <2> QED BY <1>4, <2>1, <2>3 DEF Receiving
<1>5. /\ q \in Seq(Packets) /\ r = Len(q)
      /\ wr \in Seq(Nat \X Packets) /\ wn = Len(wr)
  BY <1>0, <1>4 DEF DeviceType, DiskType
<1>6. /\ host.sent = wn + r + Len(dev.fifo) /\ host.sent <= m
      /\ Len(dev.fifo) \in Nat /\ dev.ulCurrentLBA = a + wn
      /\ \A i \in 1 .. wn : wr[i] = <<a + i - 1, DataPacket(i - 1)>>
      /\ \A i \in 1 .. r : q[i] = DataPacket(wn + i - 1)
  <2>1. dev.fifo \in Seq(Packets)
    BY <1>0 DEF DeviceType
  <2>2. Len(dev.fifo) \in Nat
    BY <2>1
  <2> QED BY <1>4, <2>2 DEF Receiving
<1>s. PICK fl \in Nat, hs \in Int : /\ fl = Len(dev.fifo) /\ hs = host.sent
                                   /\ hs = wn + r + fl /\ hs <= m
  <2>1. host.sent \in Int
    BY <1>0 DEF HostType
  <2> QED BY <1>6, <2>1
<1>7. disk'.written = wr \o BlockWrites(dev) /\ disk'.inserted = disk.inserted
  BY <1>0, <1>1, <1>2, <1>3, <1>4 DEF DiskType, Receiving
<1>8. BlockWrites(dev) = [i \in 1 .. r |-> <<a + wn + i - 1, q[i]>>]
  BY <1>4, <1>6 DEF BlockWrites, Receiving
<1>9. PICK bw : bw \in Seq(Nat \X Packets) /\ bw = BlockWrites(dev)
  <2>1. BlockWrites(dev) \in Seq(Nat \X Packets)
    BY <1>0, BlockWritesSeq
  <2> QED BY <2>1
<1>10. Len(bw) = r /\ \A i \in 1 .. r : bw[i] = <<a + wn + i - 1, DataPacket(wn + i - 1)>>
  <2>1. DOMAIN bw = 1 .. r
    BY <1>8, <1>9
  <2>2. DOMAIN bw = 1 .. Len(bw) /\ Len(bw) \in Nat
    BY <1>9
  <2>3. Len(bw) = r
    BY <1>n, <2>1, <2>2
  <2> QED BY <1>6, <1>8, <1>9, <2>3
<1>11. PICK ww : ww \in Seq(Nat \X Packets) /\ ww = wr \o bw
  <2> DEFINE S == Nat \X Packets
  <2>1. wr \in Seq(S) /\ bw \in Seq(S)
    BY <1>5, <1>9
  <2> HIDE DEF S
  <2>2. wr \o bw \in Seq(S)
    BY <2>1
  <2> QED BY <2>2 DEF S
<1>12. Len(ww) = wn + r
  BY <1>5, <1>n, <1>9, <1>10, <1>11, ConcatProperties
<1>13. \A i \in 1 .. Len(ww) : ww[i] = <<a + i - 1, DataPacket(i - 1)>>
  <2> SUFFICES ASSUME NEW i \in 1 .. wn + r
               PROVE  ww[i] = <<a + i - 1, DataPacket(i - 1)>>
    BY <1>12
  <2>1. ww[i] = IF i <= wn THEN wr[i] ELSE bw[i - wn]
    BY <1>5, <1>n, <1>9, <1>10, <1>11, ConcatProperties
  <2>2. CASE i <= wn
    BY <1>n, <1>6, <2>1, <2>2
  <2>3. CASE ~(i <= wn)
    <3>1. PICK j \in 1 .. r : j = i - wn
      <4>1. i - wn \in 1 .. r
        BY <1>n, <2>3
      <4> QED BY <4>1
    <3>2. bw[j] = <<a + wn + j - 1, DataPacket(wn + j - 1)>>
      BY <1>10
    <3>3. a + wn + j - 1 = a + i - 1 /\ wn + j - 1 = i - 1
      BY <1>n, <3>1
    <3> QED BY <2>1, <2>3, <3>1, <3>2, <3>3
  <2> QED BY <2>2, <2>3
<1>14. disk'.written = ww
  BY <1>7, <1>9, <1>11
<1> DEFINE f == [dev EXCEPT !.rxq = << >>, !.ulBytesToTransfer = @ - Len(dev.rxq),
                            !.ulCurrentLBA = @ + Len(dev.rxq)]
<1>15. o = IF f.ulBytesToTransfer = 0 THEN SendStatus([f EXCEPT !.csw.status = 0])
           ELSE f
  <2>1. o = ReceiveBlocks(dev)
    BY <1>1, <1>2, <1>3 DEF OutPart, Receiving
  <2>2. ReceiveBlocks(dev)
          = IF f.ulBytesToTransfer = 0 THEN SendStatus([f EXCEPT !.csw.status = 0])
            ELSE f
    BY Zenon DEF ReceiveBlocks
  <2> HIDE DEF f
  <2> QED BY <2>1, <2>2
<1>16. /\ f \in DeviceType /\ f.rxq = << >>
       /\ f.ulBytesToTransfer = dev.ulBytesToTransfer - Len(dev.rxq)
       /\ f.ulCurrentLBA = dev.ulCurrentLBA + Len(dev.rxq)
       /\ f.chunk = dev.chunk /\ f.run = dev.run
       /\ f.ucSCSIState = dev.ucSCSIState /\ f.csw = dev.csw /\ f.coreRx = dev.coreRx
       /\ f.fifo = dev.fifo /\ f.irqOut = dev.irqOut /\ f.outStall = dev.outStall
       /\ InSide(f) = InSide(dev) /\ Media(f) = Media(dev)
  BY <1>0, ReceivedIs
<1> HIDE DEF f
<1>17. f.ulBytesToTransfer = m - Len(ww) /\ f.ulCurrentLBA = a + Len(ww)
  <2>1. f.ulBytesToTransfer = b - r /\ f.ulCurrentLBA = a + wn + r
    BY <1>4, <1>6, <1>16
  <2> QED BY <1>n, <1>12, <2>1
<1>18. /\ f.inPacket = << >> /\ f.csw = [tag |-> host.tag, status |-> 0]
       /\ f.ucSenseKey = dev.ucSenseKey /\ f.run = 0 /\ f.chunk = << >>
       /\ ~f.inStall
  BY <1>16 DEF InSide, Media, Receiving, InQuiet
<1>19. CASE f.ulBytesToTransfer = 0
  <2> DEFINE e == SendStatus([f EXCEPT !.ulBytesToTransfer = 0, !.csw.status = 0])
  <2>0. 0 \in Int
    OBVIOUS
  <2>1. /\ e \in DeviceType
        /\ e.ucSCSIState = "SENT_STATUS" /\ ~e.coreRx /\ ~e.inStall
        /\ f.inPacket = << >> => e.inPacket = <<[tag |-> f.csw.tag, status |-> 0]>>
        /\ e.chunk = f.chunk /\ e.run = f.run
        /\ OutSide(e) = OutSide(f) /\ Media(e) = Media(f)
    BY <1>16, <2>0, SuccessIs, Zenon
  <2>2. [f EXCEPT !.csw.status = 0]
          = [f EXCEPT !.ulBytesToTransfer = 0, !.csw.status = 0]
    <3>1. f = [f EXCEPT !.ulBytesToTransfer = 0]
      BY <1>16, <1>19 DEF DeviceType
    <3>2. \A g : [[g EXCEPT !.ulBytesToTransfer = 0] EXCEPT !.csw.status = 0]
                   = [g EXCEPT !.ulBytesToTransfer = 0, !.csw.status = 0]
      OBVIOUS
    <3> QED BY <3>1, <3>2
  <2>3. o = e
    BY <1>15, <1>19, <2>2
  <2> HIDE DEF e
  <2>4. /\ dev' \in DeviceType /\ ~dev'.irqIn /\ ~dev'.irqOut
        /\ dev'.chunk = e.chunk /\ dev'.run = e.run
        /\ dev'.ucSCSIState = e.ucSCSIState /\ dev'.coreRx = e.coreRx
        /\ dev'.fifo = e.fifo /\ dev'.rxq = e.rxq /\ dev'.outStall = e.outStall
        /\ dev'.inPacket = e.inPacket /\ dev'.inStall = e.inStall
        /\ Media(dev') = Media(e)
    BY <1>1, <2>3, QuietIs
  <2>5. PICK w \in CswType : w = [tag |-> host.tag, status |-> 0]
    BY <1>16, <1>18 DEF DeviceType
  <2>6. dev'.inPacket = <<w>> /\ w.tag = host.tag /\ w.status = 0
    BY <1>18, <2>1, <2>4, <2>5
  <2>7. Len(ww) = m /\ Len(dev.fifo) = 0
    <3>1. m - (wn + r) = 0
      BY <1>12, <1>17, <1>19
    <3>2. wn + r = m /\ fl = 0
      <4>1. wn + r + fl <= m
        BY <1>s
      <4>2. m \in Nat /\ wn \in Nat /\ r \in Nat
        BY <1>n
      <4> QED BY <4>1, <4>2, <3>1
    <3> QED BY <1>s, <1>12, <3>2
  <2>8. dev.fifo = << >>
    <3>1. dev.fifo \in Seq(Packets)
      BY <1>0 DEF DeviceType
    <3> QED BY <2>7, <3>1
  <2>9. OutEmpty' /\ ~dev'.outStall /\ ~dev'.irqIn /\ ~dev'.inStall
    BY <1>16, <2>1, <2>4, <2>8 DEF OutEmpty, OutSide, Receiving
  <2>10. host.phase = "csw" /\ host.cmd.kind = "write"
    <3>1. host.sent = m
      BY <1>n, <1>s, <1>12, <2>7
    <3> QED BY <1>4, <3>1 DEF Receiving
  <2>11. Outcome(w)'
    <3>1. ww = [i \in 1 .. m |-> <<a + i - 1, DataPacket(i - 1)>>]
      <4>1. DOMAIN ww = 1 .. m /\ ww = [i \in DOMAIN ww |-> ww[i]]
        <5>1. DOMAIN ww = 1 .. Len(ww) /\ ww = [i \in DOMAIN ww |-> ww[i]]
          BY <1>11, LenProperties
        <5> QED BY <2>7, <5>1
      <4> QED BY <1>13, <2>7, <4>1, Zenon
    <3>2. ToWrite(host.cmd)' = [i \in 1 .. m |-> <<a + i - 1, DataPacket(i - 1)>>]
      BY <1>1, <1>4, <2>10 DEF ToWrite, DataPacket
    <3>3. Wanted(host.cmd)' = << >> /\ host'.got = << >>
      BY <1>1, <2>10 DEF Wanted, Receiving
    <3> QED BY <1>1, <1>14, <2>6, <3>1, <3>2, <3>3 DEF Outcome
  <2>12. Knows(IF w.status = 1 THEN Reason(host.cmd) ELSE host.why)'
    <3>1. dev'.ucSenseKey = dev.ucSenseKey
      BY <1>16, <2>1, <2>4 DEF Media
    <3> QED BY <1>1, <2>6, <3>1 DEF Knows, Receiving
  <2>13. InCommand'
    BY <1>1 DEF InCommand, Receiving
  <2>14. host'.phase = "csw"
    BY <1>1, <2>10
  <2> QED BY <1>18, <2>1, <2>4, <2>6, <2>9, <2>11, <2>12, <2>13, <2>14
          DEF StatusDue, CommandInv
<1>20. CASE f.ulBytesToTransfer # 0
  <2>1. dev' = [f EXCEPT !.irqIn = FALSE, !.irqOut = FALSE]
    BY <1>1, <1>15, <1>20
  <2>2. /\ dev' \in DeviceType /\ ~dev'.irqIn /\ ~dev'.irqOut
        /\ dev'.chunk = f.chunk /\ dev'.run = f.run
        /\ dev'.ucSCSIState = f.ucSCSIState /\ dev'.csw = f.csw
        /\ dev'.coreRx = f.coreRx
        /\ dev'.fifo = f.fifo /\ dev'.rxq = f.rxq /\ dev'.outStall = f.outStall
        /\ dev'.inPacket = f.inPacket /\ dev'.inStall = f.inStall
        /\ Place(dev') = Place(f) /\ Media(dev') = Media(f)
    BY <1>16, <2>1, QuietIs
  <2>3. /\ dev'.ulBytesToTransfer = m - Len(ww) /\ dev'.ulCurrentLBA = a + Len(ww)
    BY <1>17, <2>2 DEF Place
  <2>4. dev'.fifo = dev.fifo /\ dev'.rxq = << >> /\ Len(dev'.rxq) = 0
    BY <1>16, <2>2
  <2>5. /\ host'.sent = Len(ww) + Len(dev'.rxq) + Len(dev'.fifo)
        /\ host'.sent <= m /\ m - Len(ww) > 0
    <3>1. host'.sent = hs /\ Len(dev'.fifo) = fl /\ Len(dev'.rxq) = 0
      BY <1>1, <1>s, <2>4
    <3>2. m - (wn + r) # 0
      BY <1>12, <1>17, <1>20
    <3>3. hs = wn + r + 0 + fl /\ hs <= m /\ m - (wn + r) > 0
      <4>1. wn + r + fl <= m /\ hs = wn + r + fl
        BY <1>s
      <4>2. m \in Nat /\ wn \in Nat /\ r \in Nat
        BY <1>n
      <4> QED BY <4>1, <4>2, <3>2
    <3> QED BY <1>12, <3>1, <3>3
  <2>6. host'.cmd.n = m /\ host'.cmd.lba = a /\ host' = host
    BY <1>1, <1>4
  <2>7. \A i \in 1 .. Len(dev'.rxq) :
          dev'.rxq[i] = DataPacket(Len(ww) + i - 1)
    BY <2>4
  <2>8. InCommand' /\ Knows(host.why)'
    BY <1>16, <2>2, <2>6 DEF InCommand, Knows, Media, Receiving
  <2>9. InQuiet'
    BY <1>18, <2>2 DEF InQuiet
  <2>10. /\ dev'.ucSCSIState = "RECEIVE_BLOCKS" /\ dev'.coreRx /\ ~dev'.irqOut
         /\ ~dev'.outStall /\ dev'.run = 0 /\ dev'.chunk = << >>
         /\ dev'.csw = [tag |-> host'.tag, status |-> 0]
    BY <1>16, <1>18, <2>2, <2>6 DEF Receiving
  <2>11. /\ host'.phase = (IF host'.sent = host'.cmd.n THEN "csw" ELSE "data")
         /\ host'.cmd.kind = "write" /\ host'.got = << >> /\ disk'.inserted
         /\ dev'.fifo = << >> \/ dev'.fifo = <<DataPacket(host'.sent - 1)>>
    BY <1>7, <2>4, <2>6 DEF Receiving
  <2>12. \A i \in 1 .. Len(disk'.written) :
           disk'.written[i] = <<host'.cmd.lba + i - 1, DataPacket(i - 1)>>
    BY <1>13, <1>14, <2>6
  <2> QED BY <1>14, <2>3, <2>5, <2>6, <2>7, <2>8, <2>9, <2>10, <2>11, <2>12
          DEF Receiving, CommandInv
<1> QED BY <1>19, <1>20

\* A packet of data is taken by the host.
LEMMA DataTaken ==
  ASSUME MscTypeOK, PoolInv, CommandInv, TakeData
  PROVE  CommandInv'
<1>0. dev \in DeviceType /\ host \in HostType /\ disk' = disk
  BY DEF MscTypeOK, TakeData
<1>1. dev.chunk # << >> /\ host.phase = "data"
  BY DEF TakeData
<1>2. PICK q, g, m, a :
        q = dev.chunk /\ g = host.got /\ m = host.cmd.n /\ a = host.cmd.lba
  OBVIOUS
<1>3. /\ q \in Seq(Items) /\ g \in Seq(Items) /\ q # << >>
      /\ Len(q) \in Nat /\ Len(q) > 0 /\ Len(g) \in Nat
      /\ Tail(q) \in Seq(Items) /\ Len(Tail(q)) = Len(q) - 1
      /\ Append(g, Head(q)) \in Seq(Items) /\ Len(Append(g, Head(q))) = Len(g) + 1
  <2>1. q \in Seq(Items) /\ g \in Seq(Items) /\ q # << >>
    BY <1>0, <1>1, <1>2 DEF DeviceType, HostType
  <2>2. Head(q) \in Items
    BY <2>1
  <2> QED BY <2>1, <2>2
<1>4. /\ dev' = [dev EXCEPT !.chunk = Tail(q)]
      /\ host' = [host EXCEPT !.got = Append(g, Head(q)),
                              !.phase = IF Len(g) + 1 = m THEN "csw" ELSE "data"]
  BY <1>2 DEF TakeData
<1>5. /\ dev'.chunk = Tail(q) /\ OutSide(dev') = OutSide(dev)
      /\ dev'.ucSCSIState = dev.ucSCSIState /\ dev'.csw = dev.csw
      /\ dev'.run = dev.run
      /\ Place(dev') = Place(dev) /\ Media(dev') = Media(dev)
  BY <1>0, <1>4 DEF DeviceType, OutSide, Place, Media
<1>6. /\ host'.got = Append(g, Head(q))
      /\ host'.phase = (IF Len(g) + 1 = m THEN "csw" ELSE "data")
      /\ host'.cmd = host.cmd /\ host'.tag = host.tag /\ host'.why = host.why
  BY <1>0, <1>4 DEF HostType
<1>7. Reading \/ Answering
  BY <1>1 DEF CommandInv, Free, Sent, StatusDue, Failing, Receiving
<1>8. /\ OutEmpty => OutEmpty' /\ dev'.outStall = dev.outStall
      /\ dev'.ucSenseKey = dev.ucSenseKey
      /\ dev'.ulBytesToTransfer = dev.ulBytesToTransfer
      /\ dev'.ulCurrentLBA = dev.ulCurrentLBA
  BY <1>5 DEF OutEmpty, OutSide, Place, Media
<1>9. InCommand => InCommand'
  <2>1. host'.phase \in {"data", "csw"}
    BY <1>6
  <2> QED BY <1>6, <2>1 DEF InCommand
<1>10. Knows(host.why) => Knows(host.why)'
  BY <1>6, <1>8 DEF Knows
<1>11. CASE Reading
  <2>1. /\ \A i \in 1 .. Len(g) : g[i] = <<"block", a + i - 1>>
        /\ \A i \in 1 .. Len(q) : q[i] = <<"block", a + Len(g) + i - 1>>
    BY <1>2, <1>11 DEF Reading
  <2>2. a \in Nat /\ m \in Nat
    BY <1>2, <1>11, CommandNumbers DEF Reading, InCommand
  <2> DEFINE gg == Append(g, Head(q))
  <2>3. \A i \in 1 .. Len(g) + 1 : gg[i] = <<"block", a + i - 1>>
    <3> SUFFICES ASSUME NEW i \in 1 .. Len(g) + 1
                 PROVE  gg[i] = <<"block", a + i - 1>>
      OBVIOUS
    <3>1. CASE i \in 1 .. Len(g)
      <4>1. gg[i] = g[i]
        BY <1>3, <3>1
      <4> QED BY <2>1, <3>1, <4>1
    <3>2. CASE i = Len(g) + 1
      <4>1. gg[i] = Head(q) /\ Head(q) = q[1]
        BY <1>3, <3>2
      <4>2. q[1] = <<"block", a + Len(g) + 1 - 1>>
        BY <1>3, <2>1
      <4>3. a + Len(g) + 1 - 1 = a + i - 1
        BY <1>3, <2>2, <3>2
      <4> QED BY <4>1, <4>2, <4>3
    <3> QED BY <1>3, <3>1, <3>2
  <2>4. \A i \in 1 .. Len(q) - 1 :
          Tail(q)[i] = <<"block", a + (Len(g) + 1) + i - 1>>
    <3> SUFFICES ASSUME NEW i \in 1 .. Len(q) - 1
                 PROVE  Tail(q)[i] = <<"block", a + (Len(g) + 1) + i - 1>>
      OBVIOUS
    <3>1. Tail(q)[i] = q[i + 1] /\ i + 1 \in 1 .. Len(q)
      BY <1>3
    <3>2. q[i + 1] = <<"block", a + Len(g) + (i + 1) - 1>>
      BY <2>1, <3>1
    <3>3. a + Len(g) + (i + 1) - 1 = a + (Len(g) + 1) + i - 1
      BY <1>3, <2>2
    <3> QED BY <3>1, <3>2, <3>3
  <2>5. PICK lg \in Nat, lq \in Nat : lg = Len(g) /\ lq = Len(q)
    BY <1>3
  <2>6. Len(host'.got) = lg + 1 /\ Len(dev'.chunk) = lq - 1
    BY <1>3, <1>5, <1>6, <2>5
  <2>7. lg + lq = (host.cmd.n - dev.ulBytesToTransfer) + dev.run
    BY <1>2, <1>11, <2>5 DEF Reading
  <2>8. Len(host'.got) + Len(dev'.chunk) =
          (host'.cmd.n - dev'.ulBytesToTransfer) + dev'.run
    <3>1. (lg + 1) + (lq - 1) = lg + lq
      OBVIOUS
    <3> QED BY <1>5, <1>6, <1>8, <2>6, <2>7, <3>1
  <2>9. \A i \in 1 .. Len(host'.got) :
          host'.got[i] = <<"block", host'.cmd.lba + i - 1>>
    BY <1>2, <1>6, <2>3, <2>5, <2>6
  <2>10. \A i \in 1 .. Len(dev'.chunk) :
           dev'.chunk[i] = <<"block", host'.cmd.lba + Len(host'.got) + i - 1>>
    BY <1>2, <1>5, <1>6, <2>4, <2>5, <2>6
  <2>11. host'.phase = (IF Len(host'.got) = host'.cmd.n THEN "csw" ELSE "data")
    BY <1>2, <1>6, <2>5, <2>6
  <2>12. Reading'
    BY <1>0, <1>5, <1>6, <1>8, <1>9, <1>10, <1>11, <2>8, <2>9, <2>10, <2>11
       DEF Reading
  <2> QED BY <2>12 DEF CommandInv
<1>12. CASE Answering
  <2>1. PICK item \in Items :
          /\ Response(item)
          /\ \/ dev.chunk = <<item>> /\ host.got = << >> /\ host.phase = "data"
             \/ dev.chunk = << >> /\ host.got = <<item>>
    BY <1>12 DEF Answering
  <2>2. q = <<item>> /\ g = << >>
    BY <1>1, <1>2, <2>1
  <2>3. Tail(q) = << >> /\ Append(g, Head(q)) = <<item>>
    BY <2>2
  <2>4. dev'.chunk = << >> /\ host'.got = <<item>>
    BY <1>5, <1>6, <2>3
  <2>5. Response(item)'
    BY <1>6, <1>8, <2>1 DEF Response
  <2>6. Answering'
    BY <1>0, <1>5, <1>6, <1>8, <1>9, <1>10, <1>12, <2>4, <2>5 DEF Answering
  <2> QED BY <2>6 DEF CommandInv
<1> QED BY <1>7, <1>11, <1>12

\* A block is sent by the host.
LEMMA DataSent ==
  ASSUME MscTypeOK, CommandInv, SendData
  PROVE  CommandInv'
<1>0. dev \in DeviceType /\ host \in HostType /\ disk' = disk
  BY DEF MscTypeOK, SendData
<1>1. /\ host.phase = "data" /\ host.cmd.kind \in {"write", "badOut"}
      /\ dev.fifo = << >> /\ ~dev.outStall
  BY DEF SendData
<1>2. Receiving
  <2>1. <<[kind |-> "command", cmd |-> host.cmd, tag |-> host.tag]>> # << >>
    OBVIOUS
  <2> QED BY <1>1, <2>1
          DEF CommandInv, Free, Sent, Reading, Answering, StatusDue, Failing
<1>3. PICK hs, m, wn, r :
        /\ hs = host.sent /\ m = host.cmd.n
        /\ wn = Len(disk.written) /\ r = Len(dev.rxq)
  OBVIOUS
<1>4. hs \in Nat /\ m \in Nat /\ wn \in Nat /\ r \in Nat
  <2>1. hs \in Nat /\ m \in Nat
    BY <1>0, <1>2, <1>3, CommandNumbers DEF HostType, Receiving, InCommand
  <2>2. dev.rxq \in Seq(Packets) /\ disk.written \in Seq(Nat \X Packets)
    BY <1>0 DEF MscTypeOK, DeviceType, DiskType
  <2> QED BY <1>3, <2>1, <2>2
<1>5. Len(dev.fifo) = 0 /\ hs = wn + r /\ hs <= m /\ hs # m
  <2>1. Len(dev.fifo) = 0
    BY <1>1
  <2>2. hs = wn + r + 0 /\ hs <= m /\ hs # m
    BY <1>1, <1>2, <1>3, <2>1 DEF Receiving
  <2> QED BY <1>4, <2>1, <2>2
<1>6. PICK p \in Packets : p = DataPacket(hs)
  <2>1. DataPacket(hs) \in Packets
    BY <1>4 DEF DataPacket, Packets
  <2> QED BY <2>1
<1>7. /\ dev' = Arrive(dev, p)
      /\ host' = [host EXCEPT !.sent = hs + 1,
                              !.phase = IF hs + 1 = m THEN "csw" ELSE "data"]
  BY <1>3, <1>6 DEF SendData, DataPacket
<1>8. /\ dev'.fifo = <<p>> /\ dev'.irqOut = ~dev.coreRx
      /\ dev'.rxq = dev.rxq /\ dev'.outStall = dev.outStall
      /\ dev'.chunk = dev.chunk /\ dev'.run = dev.run
      /\ dev'.ucSCSIState = dev.ucSCSIState /\ dev'.csw = dev.csw
      /\ dev'.coreRx = dev.coreRx
      /\ InSide(dev') = InSide(dev) /\ Place(dev') = Place(dev)
      /\ Media(dev') = Media(dev)
  BY <1>0, <1>7, ArriveIs
<1>9. /\ host'.sent = hs + 1
      /\ host'.phase = (IF hs + 1 = m THEN "csw" ELSE "data")
      /\ host'.cmd = host.cmd /\ host'.tag = host.tag /\ host'.why = host.why
      /\ host'.got = host.got
  BY <1>0, <1>7 DEF HostType
<1>10. InCommand' /\ Knows(host.why)'
  <2>1. host'.phase \in {"data", "csw"}
    BY <1>9
  <2> QED BY <1>2, <1>8, <1>9, <2>1 DEF Receiving, InCommand, Knows, Media
<1>11. dev.coreRx /\ ~dev'.irqOut /\ InQuiet'
  BY <1>2, <1>8 DEF Receiving, InQuiet, InSide
<1>12. Len(dev'.fifo) = 1
  BY <1>8
<1>13. /\ host'.sent = Len(disk'.written) + Len(dev'.rxq) + Len(dev'.fifo)
       /\ host'.sent <= host'.cmd.n
  <2>1. hs + 1 = wn + r + 1 /\ hs + 1 <= m
    BY <1>4, <1>5
  <2> QED BY <1>0, <1>3, <1>8, <1>9, <1>12, <2>1
<1>14. dev'.fifo = <<DataPacket(host'.sent - 1)>>
  <2>1. hs + 1 - 1 = hs
    BY <1>4
  <2>2. PICK n : n = host'.sent /\ n = hs + 1
    BY <1>9
  <2>3. n - 1 = hs
    BY <1>4, <2>2
  <2> QED BY <1>6, <1>8, <2>2, <2>3
<1>15. /\ dev'.ulBytesToTransfer = dev.ulBytesToTransfer
       /\ dev'.ulCurrentLBA = dev.ulCurrentLBA
  BY <1>8 DEF Place
<1>16. host'.phase = (IF host'.sent = host'.cmd.n THEN "csw" ELSE "data")
  BY <1>3, <1>9
<1>17. /\ \A i \in 1 .. Len(disk'.written) :
            disk'.written[i] = <<host'.cmd.lba + i - 1, DataPacket(i - 1)>>
       /\ \A i \in 1 .. Len(dev'.rxq) :
            dev'.rxq[i] = DataPacket(Len(disk'.written) + i - 1)
       /\ dev'.ulBytesToTransfer = host'.cmd.n - Len(disk'.written)
       /\ dev'.ulBytesToTransfer > 0
       /\ dev'.ulCurrentLBA = host'.cmd.lba + Len(disk'.written)
  BY <1>0, <1>2, <1>8, <1>9, <1>15 DEF Receiving
<1>18. /\ dev'.ucSCSIState = "RECEIVE_BLOCKS" /\ dev'.coreRx
       /\ ~dev'.outStall /\ dev'.run = 0 /\ dev'.chunk = << >>
       /\ dev'.csw = [tag |-> host'.tag, status |-> 0]
       /\ host'.cmd.kind = "write" /\ host'.got = << >> /\ disk'.inserted
  BY <1>0, <1>2, <1>8, <1>9 DEF Receiving
<1>19. Receiving'
  BY <1>17, <1>18, <1>9, <1>10, <1>11, <1>13, <1>14, <1>16 DEF Receiving
<1> QED BY <1>19 DEF CommandInv

\* The DMA's step.
LEMMA DmaReceived ==
  ASSUME MscTypeOK, CommandInv, DmaReceive
  PROVE  CommandInv'
<1>0. dev \in DeviceType /\ host \in HostType /\ disk' = disk /\ host' = host
  BY DEF MscTypeOK, DmaReceive
<1>1. dev.coreRx /\ dev.fifo # << >>
  BY DEF DmaReceive
<1>2. Receiving
  BY <1>1 DEF CommandInv, Free, Sent, Reading, Answering, StatusDue, Failing, OutEmpty
<1>3. PICK q, x, wn, hs : /\ q = dev.rxq /\ x = DataPacket(host.sent - 1)
                          /\ wn = Len(disk.written) /\ hs = host.sent
  OBVIOUS
<1>4. /\ q \in Seq(Packets) /\ Len(q) \in Nat /\ wn \in Nat /\ hs \in Nat
      /\ dev.fifo = <<x>> /\ dev.fifo \in Seq(Packets) /\ x \in Packets
  <2>1. /\ dev.rxq \in Seq(Packets) /\ dev.fifo \in Seq(Packets)
        /\ disk.written \in Seq(Nat \X Packets)
    BY <1>0 DEF MscTypeOK, DeviceType, DiskType
  <2>2. dev.fifo = <<x>>
    BY <1>1, <1>2, <1>3 DEF Receiving
  <2>3. Head(dev.fifo) \in Packets /\ Head(dev.fifo) = x
    BY <2>1, <2>2
  <2>4. hs \in Nat
    BY <1>0, <1>3 DEF HostType
  <2> QED BY <1>3, <2>1, <2>2, <2>3, <2>4
<1>5. PICK k \in Nat : k = Len(q) /\ hs = wn + k + 1
  <2>1. Len(dev.fifo) = 1
    BY <1>4
  <2> QED BY <1>2, <1>3, <1>4, <2>1 DEF Receiving
<1>6. PICK qq : /\ qq = q \o <<x>> /\ Len(qq) = k + 1
                /\ \A i \in 1 .. k : qq[i] = q[i]
                /\ qq[k + 1] = x
  <2>1. <<x>> \in Seq(Packets) /\ Len(<<x>>) = 1 /\ <<x>>[1] = x
    BY <1>4
  <2>2. /\ Len(q \o <<x>>) = Len(q) + Len(<<x>>)
        /\ \A i \in 1 .. Len(q) + Len(<<x>>) :
             (q \o <<x>>)[i] = IF i <= Len(q) THEN q[i] ELSE <<x>>[i - Len(q)]
    BY <1>4, <2>1, ConcatProperties
  <2>3. Len(q \o <<x>>) = k + 1
    BY <1>5, <2>1, <2>2
  <2>4. \A i \in 1 .. k : (q \o <<x>>)[i] = q[i]
    BY <1>5, <2>1, <2>2
  <2>5. (q \o <<x>>)[k + 1] = <<x>>[k + 1 - k]
    BY <1>5, <2>1, <2>2
  <2>6. (q \o <<x>>)[k + 1] = x
    <3>1. k + 1 - k = 1
      OBVIOUS
    <3> QED BY <2>1, <2>5, <3>1
  <2> QED BY <2>3, <2>4, <2>6
<1>7. dev' = [dev EXCEPT !.fifo = << >>, !.rxq = qq]
  BY <1>3, <1>4, <1>6 DEF DmaReceive
<1>8. /\ dev'.fifo = << >> /\ dev'.rxq = qq
      /\ dev'.outStall = dev.outStall /\ dev'.irqOut = dev.irqOut
      /\ dev'.chunk = dev.chunk /\ dev'.run = dev.run
      /\ dev'.ucSCSIState = dev.ucSCSIState /\ dev'.csw = dev.csw
      /\ dev'.coreRx = dev.coreRx
      /\ InSide(dev') = InSide(dev) /\ Place(dev') = Place(dev)
      /\ Media(dev') = Media(dev)
  BY <1>0, <1>7 DEF DeviceType, InSide, Place, Media
<1>9. InCommand' /\ Knows(host.why)' /\ InQuiet'
  BY <1>0, <1>2, <1>8 DEF Receiving, InCommand, Knows, Media, InQuiet, InSide
<1>10. Len(dev'.fifo) = 0
  BY <1>8
<1>11. host'.sent = Len(disk'.written) + Len(dev'.rxq) + Len(dev'.fifo)
  <2>1. hs = wn + (k + 1) + 0
    BY <1>4, <1>5
  <2> QED BY <1>0, <1>3, <1>6, <1>8, <1>10, <2>1
<1>12. \A i \in 1 .. Len(dev'.rxq) :
         dev'.rxq[i] = DataPacket(Len(disk'.written) + i - 1)
  <2> SUFFICES ASSUME NEW i \in 1 .. k + 1
               PROVE  qq[i] = DataPacket(wn + i - 1)
    BY <1>0, <1>3, <1>6, <1>8
  <2>1. CASE i \in 1 .. k
    BY <1>2, <1>3, <1>5, <1>6, <2>1 DEF Receiving
  <2>2. CASE i = k + 1
    <3>1. wn + i - 1 = hs - 1
      BY <1>4, <1>5, <2>2
    <3> QED BY <1>3, <1>6, <2>2, <3>1
  <2> QED BY <2>1, <2>2
<1>13. /\ dev'.ulBytesToTransfer = dev.ulBytesToTransfer
       /\ dev'.ulCurrentLBA = dev.ulCurrentLBA
  BY <1>8 DEF Place
<1>14. Receiving'
  BY <1>0, <1>2, <1>8, <1>9, <1>11, <1>12, <1>13 DEF Receiving
<1> QED BY <1>14 DEF CommandInv

\* A stall is seen: the command has failed.
LEMMA StallSeen ==
  ASSUME MscTypeOK, PoolInv, CommandInv, SeeStall
  PROVE  CommandInv'
<1>0. dev \in DeviceType /\ host \in HostType /\ disk' = disk
  BY DEF MscTypeOK, SeeStall
<1>1. host.phase = "data" /\ (dev.inStall \/ dev.outStall)
  BY DEF SeeStall
<1>2. Failing
  <2>1. dev.inStall => dev.ucSCSIState = "SEND_STATUS" /\ dev.run = 0
    BY DEF PoolInv, BooksRight
  <2>2. ~Reading
    BY <1>1, <2>1 DEF Reading
  <2>3. ~Answering
    BY <1>1, <2>1 DEF Answering
  <2> QED BY <1>1, <2>2, <2>3 DEF CommandInv, Free, Sent, StatusDue, Receiving, InQuiet
<1>3. /\ ~dev.irqIn /\ ~dev.irqOut /\ dev.inStall = ~dev.outStall
  BY <1>1, <1>2 DEF Failing
<1>4. /\ host'.phase = "csw" /\ host'.cmd = host.cmd /\ host'.tag = host.tag
      /\ host'.why = host.why /\ host'.got = host.got
  BY <1>0 DEF SeeStall, HostType
<1>5. /\ dev'.ucSCSIState = dev.ucSCSIState /\ dev'.csw = dev.csw
      /\ dev'.fifo = dev.fifo /\ dev'.rxq = dev.rxq
      /\ dev'.run = dev.run /\ dev'.chunk = dev.chunk
      /\ dev'.inPacket = dev.inPacket /\ dev'.ucSenseKey = dev.ucSenseKey
      /\ ~dev'.inStall /\ ~dev'.outStall
      /\ dev'.irqIn => ~dev'.irqOut
  <2>1. CASE dev.inStall /\ dev' = [dev EXCEPT !.inStall = FALSE, !.irqIn = TRUE]
    <3>1. /\ dev'.ucSCSIState = dev.ucSCSIState /\ dev'.csw = dev.csw
          /\ OutSide(dev') = OutSide(dev)
          /\ dev'.run = dev.run /\ dev'.chunk = dev.chunk
          /\ dev'.inPacket = dev.inPacket /\ dev'.ucSenseKey = dev.ucSenseKey
          /\ ~dev'.inStall
      BY <1>0, <2>1 DEF DeviceType, OutSide
    <3>2. ~dev.outStall
      BY <1>3, <2>1
    <3> QED BY <1>3, <3>1, <3>2 DEF OutSide
  <2>2. CASE dev.outStall /\ dev' = [dev EXCEPT !.outStall = FALSE, !.irqOut = TRUE]
    <3>1. /\ dev'.ucSCSIState = dev.ucSCSIState /\ dev'.csw = dev.csw
          /\ dev'.fifo = dev.fifo /\ dev'.rxq = dev.rxq
          /\ dev'.run = dev.run /\ dev'.chunk = dev.chunk
          /\ InSide(dev') = InSide(dev) /\ dev'.ucSenseKey = dev.ucSenseKey
          /\ ~dev'.outStall
      BY <1>0, <2>2 DEF DeviceType, InSide
    <3>2. ~dev.inStall
      BY <1>3, <2>2
    <3> QED BY <1>3, <3>1, <3>2 DEF InSide
  <2> QED BY <2>1, <2>2 DEF SeeStall
<1>6. InCommand' /\ Knows(Reason(host.cmd))'
  BY <1>2, <1>4, <1>5 DEF Failing, InCommand, Knows, Reason
<1>7. Failing'
  BY <1>0, <1>2, <1>4, <1>5, <1>6 DEF Failing
<1> QED BY <1>7 DEF CommandInv

\* The status is taken: the command has ended.
LEMMA StatusTaken ==
  ASSUME MscTypeOK, PoolInv, CommandInv, TakeStatus
  PROVE  CommandInv'
<1>0. dev \in DeviceType /\ host \in HostType /\ disk' = disk
  BY DEF MscTypeOK, TakeStatus
<1>1. host.phase = "csw" /\ dev.inPacket # << >>
  BY DEF TakeStatus
<1>2. StatusDue
  <2>1. dev.ucSCSIState = "SENT_STATUS"
    BY <1>1 DEF PoolInv, BooksRight
  <2> QED BY <1>1, <2>1
          DEF CommandInv, Free, Sent, Reading, Answering, Failing, Receiving
<1>3. PICK s \in CswType :
        /\ dev.inPacket = <<s>> /\ Outcome(s)
        /\ Knows(IF s.status = 1 THEN Reason(host.cmd) ELSE host.why)
  BY <1>2 DEF StatusDue
<1>4. dev.inPacket[1] = s
  BY <1>3
<1>5. PICK why : why = IF s.status = 1 THEN Reason(host.cmd) ELSE host.why
  OBVIOUS
<1>6. host' = [host EXCEPT !.phase = "idle", !.csw = <<s>>, !.why = why]
  BY <1>3, <1>4, <1>5 DEF TakeStatus
<1>7. /\ host'.phase = "idle" /\ host'.csw = <<s>> /\ host'.why = why
      /\ host'.cmd = host.cmd /\ host'.tag = host.tag /\ host'.got = host.got
  BY <1>0, <1>6 DEF HostType
<1>8. dev' = [dev EXCEPT !.inPacket = << >>, !.irqIn = TRUE]
  BY DEF TakeStatus
<1>9. /\ dev'.inPacket = << >> /\ dev'.irqIn
      /\ dev'.inStall = dev.inStall /\ OutSide(dev') = OutSide(dev)
      /\ dev'.chunk = dev.chunk /\ dev'.run = dev.run
      /\ dev'.ucSCSIState = dev.ucSCSIState /\ dev'.coreRx = dev.coreRx
      /\ dev'.ucSenseKey = dev.ucSenseKey
  BY <1>0, <1>8 DEF DeviceType, OutSide
<1>10. OutEmpty' /\ ~dev'.outStall
  BY <1>2, <1>9 DEF StatusDue, OutEmpty, OutSide
<1>11. Knows(host.why)'
  BY <1>3, <1>5, <1>7, <1>9 DEF Knows
<1>12. Outcome(s)'
  <2>1. s.tag = host'.tag
    BY <1>3, <1>7 DEF Outcome
  <2>2. ASSUME s.status = 0
        PROVE  host'.got = Wanted(host.cmd)' /\ disk'.written = ToWrite(host.cmd)'
    <3>1. host'.why = host.why
      BY <1>5, <1>7, <2>2
    <3>2. Wanted(host.cmd)' = Wanted(host.cmd) /\ ToWrite(host.cmd)' = ToWrite(host.cmd)
      BY <1>7, <3>1 DEF Wanted, ToWrite
    <3> QED BY <1>0, <1>3, <1>7, <2>2, <3>2 DEF Outcome
  <2>3. s.status = 1 => host'.got = << >> /\ disk'.written = << >>
    BY <1>0, <1>3, <1>7 DEF Outcome
  <2> QED BY <2>1, <2>2, <2>3 DEF Outcome
<1>13. Outcome(host.csw[1])'
  <2>1. host'.csw[1] = s
    BY <1>7
  <2> QED BY <1>12, <2>1 DEF Outcome
<1>14. Free'
  BY <1>2, <1>7, <1>9, <1>10, <1>11, <1>13 DEF Free, StatusDue
<1> QED BY <1>14 DEF CommandInv

\* The medium goes and comes only where the device notices it.
LEMMA MediumMoves ==
  ASSUME MscTypeOK, MediaStable, CommandInv, Eject \/ Insert, dev.alloc = "ok"
  PROVE  CommandInv'
<1>1. dev' = dev /\ host' = host /\ disk'.written = disk.written
  BY DEF MscTypeOK, DiskType, Eject, Insert
<1>2. Wanted(host.cmd)' = Wanted(host.cmd) /\ ToWrite(host.cmd)' = ToWrite(host.cmd)
  BY <1>1 DEF Wanted, ToWrite
<1>3. \A s : Outcome(s)' <=> Outcome(s)
  BY <1>1, <1>2 DEF Outcome
<1>4. Free => Free'
  BY <1>1, <1>3 DEF Free, OutEmpty, Knows
<1>5. Sent => Sent'
  <2> SUFFICES ASSUME Sent PROVE Sent'
    OBVIOUS
  <2>1. host.cmd.kind = "write" /\ dev.pvMedia => disk'.inserted
    <3>1. CASE Eject
      BY <3>1 DEF Eject, Sent, InCommand
    <3>2. CASE Insert
      BY <3>2 DEF Insert, MscTypeOK, DiskType
    <3> QED BY <3>1, <3>2
  <2> QED BY <1>1, <2>1 DEF Sent, InCommand, Knows
<1>6. ~Reading
  BY DEF Reading, Eject, Insert
<1>7. Answering => Answering'
  BY <1>1 DEF Answering, InCommand, Knows, OutEmpty, Response
<1>8. StatusDue => StatusDue'
  BY <1>1, <1>3 DEF StatusDue, InCommand, Knows, OutEmpty, Reason
<1>9. Failing => Failing'
  BY <1>1 DEF Failing, InCommand, Knows, Reason
<1>10. ~Receiving
  BY DEF Receiving, Eject, Insert
<1> QED BY <1>4, <1>5, <1>6, <1>7, <1>8, <1>9, <1>10 DEF CommandInv

\* The handler keeps a command in one of its stages.
LEMMA HandledCommand ==
  ASSUME MscTypeOK, PoolInv, CommandInv, HandleEndpoints, dev'.alloc = "ok"
  PROVE  CommandInv'
BY FreeHandled, SentHandled, ReadingHandled, AnsweringHandled, StatusDueHandled,
   FailingHandled, ReceivingHandled DEF CommandInv

\* What every command does, as long as the pool lasts.
CommandStages == dev.alloc = "ok" => CommandInv

\* At the start no command is under way.
LEMMA CommandInit == Init => CommandStages
<1> SUFFICES ASSUME Init PROVE CommandInv
  BY DEF CommandStages
<1>1. /\ host.phase = "idle" /\ host.csw = << >>
      /\ host.why = dev.ucSenseKey
      /\ dev.fifo = << >> /\ dev.rxq = << >> /\ ~dev.irqOut
      /\ dev.run = 0 /\ dev.chunk = << >>
      /\ dev.inPacket = << >> /\ ~dev.inStall /\ ~dev.outStall
      /\ dev.ucSCSIState = "IDLE" /\ ~dev.coreRx
  BY DEF Init
<1> QED BY <1>1 DEF CommandInv, Free, OutEmpty, Knows

\* Nothing but the handler allocates, and it does not forget that it has failed.
LEMMA FailedForGood ==
  ASSUME MscTypeOK, PoolInv, [Next]_vars, dev'.alloc = "ok"
  PROVE  dev.alloc = "ok"
<1>0. dev \in DeviceType /\ host \in HostType
  BY DEF MscTypeOK
<1>1. CASE HandleEndpoints
  <2>0. PICK o \in DeviceType : \E a \in Outcomes(o) :
          /\ BooksRight(o)
          /\ dev' = [o EXCEPT !.irqIn = FALSE, !.irqOut = FALSE, !.alloc = a]
    BY <1>1, HandledIs, Zenon
  <2>1. PICK a \in Outcomes(o) :
          /\ BooksRight(o)
          /\ dev' = [o EXCEPT !.irqIn = FALSE, !.irqOut = FALSE, !.alloc = a]
    BY <2>0
  <2>2. a \in {"ok", "failed", "halted"} /\ (a = "ok" <=> o.alloc = "ok")
    BY OutcomeIs
  <2>3. dev'.alloc = a
    BY <2>1, <2>2 DEF DeviceType
  <2> QED BY <2>1, <2>2, <2>3 DEF BooksRight
<1>2. CASE HandleDisconnect
  BY <1>0, <1>2 DEF HandleDisconnect, DeviceType
<1>3. CASE ConfigChangeHandler
  BY <1>0, <1>3 DEF ConfigChangeHandler, DeviceType
<1>4. CASE SendCommand
  BY <1>0, <1>4 DEF SendCommand, Arrive, DeviceType
<1>5. CASE TakeData
  BY <1>0, <1>5 DEF TakeData, DeviceType
<1>6. CASE SendData
  BY <1>0, <1>6 DEF SendData, Arrive, DeviceType
<1>7. CASE SeeStall
  BY <1>0, <1>7 DEF SeeStall, DeviceType
<1>8. CASE TakeStatus
  BY <1>0, <1>8 DEF TakeStatus, DeviceType
<1>9. CASE DmaReceive
  BY <1>0, <1>9 DEF DmaReceive, DeviceType
<1>10. CASE Eject \/ Insert \/ UNCHANGED vars
  BY <1>10 DEF Eject, Insert, vars
<1> QED BY <1>1, <1>2, <1>3, <1>4, <1>5, <1>6, <1>7, <1>8, <1>9, <1>10 DEF Next

\* Every step of device, host, DMA and medium keeps a command in one of its stages.
LEMMA CommandStep ==
  ASSUME MscTypeOK, PoolInv, MediaStable, CommandStages, [Next]_vars
  PROVE  CommandStages'
<1> SUFFICES ASSUME dev'.alloc = "ok" PROVE CommandInv'
  BY DEF CommandStages
<1>0. dev.alloc = "ok" /\ CommandInv
  BY FailedForGood DEF CommandStages
<1>1. CASE HandleDisconnect
  BY <1>0, <1>1, FreeAway DEF CommandInv
<1>2. CASE ConfigChangeHandler
  BY <1>0, <1>2, FreeBack DEF CommandInv
<1>3. CASE SendCommand
  BY <1>0, <1>3, FreeSends DEF CommandInv
<1>4. CASE UNCHANGED vars
  <2>1. dev' = dev /\ host' = host /\ disk' = disk
    BY <1>4 DEF vars
  <2>2. \A s : Outcome(s)' <=> Outcome(s)
    BY <2>1 DEF Outcome, Wanted, ToWrite
  <2>3. Free => Free'
    BY <2>1, <2>2 DEF Free, OutEmpty, Knows
  <2>4. Sent => Sent'
    BY <2>1 DEF Sent, InCommand, Knows
  <2>5. Reading => Reading'
    BY <2>1 DEF Reading, InCommand, Knows, OutEmpty
  <2>6. Answering => Answering'
    BY <2>1 DEF Answering, InCommand, Knows, OutEmpty, Response
  <2>7. StatusDue => StatusDue'
    BY <2>1, <2>2 DEF StatusDue, InCommand, Knows, OutEmpty, Reason
  <2>8. Failing => Failing'
    BY <2>1 DEF Failing, InCommand, Knows, Reason
  <2>9. Receiving => Receiving'
    BY <2>1 DEF Receiving, InCommand, Knows, InQuiet
  <2> QED BY <1>0, <2>3, <2>4, <2>5, <2>6, <2>7, <2>8, <2>9 DEF CommandInv
<1> QED BY <1>0, <1>1, <1>2, <1>3, <1>4, HandledCommand, DataTaken, DataSent,
           StallSeen, StatusTaken, DmaReceived, MediumMoves DEF Next

\* As long as the pool lasts a command is always in one of seven stages, for every chunk
\* size and set of commands: what is in the endpoints and queues, which interrupt is due,
\* and how far the data has got agree with each other (HandleEndpoints, USBDSCSICommand).
THEOREM MscStages ==
  ASSUME MediaStable
  PROVE  Spec => [](MscTypeOK /\ PoolInv /\ CommandStages)
<1> DEFINE Inv == MscTypeOK /\ PoolInv /\ CommandStages
<1>1. Init => Inv
  BY MscInit, CommandInit
<1>2. Inv /\ [Next]_vars => Inv'
  <2> SUFFICES ASSUME MscTypeOK, PoolInv, CommandStages, [Next]_vars
               PROVE  MscTypeOK' /\ PoolInv' /\ CommandStages'
    OBVIOUS
  <2> QED BY MscNext, CommandStep
<1> HIDE DEF Inv
<1>3. Spec => []Inv
  BY <1>1, <1>2, PTL DEF Spec
<1> QED BY <1>3 DEF Inv

\* The status a host receives is that of the command it sent last; it is a success only
\* if every block went over, once and in order, a failure only if none did, and REQUEST
\* SENSE tells why, until an allocation fails, which MscPoolAccounted puts off until
\* failing first reads have left less than a chunk (HandleEndpoints, USBDSCSICommand,
\* USBDSCSIRead10, USBDSCSIWrite10).
THEOREM MscStatusTells ==
  ASSUME MediaStable
  PROVE  Spec => []StatusTells
<1>1. MscTypeOK /\ PoolInv /\ CommandStages => StatusTells
  <2> SUFFICES ASSUME CommandInv, host.phase = "idle", host.csw # << >>
               PROVE  Outcome(host.csw[1])
    BY DEF StatusTells, CommandStages, Outcome
  <2> QED BY DEF CommandInv, Free, Sent, Reading, Answering, StatusDue, Failing,
                 Receiving, InCommand
<1> QED BY <1>1, MscStages, PTL
=============================================================================
