--------------------------- MODULE UsbDevEnum_proofs ---------------------------
(***************************************************************************)
(* Endpoint zero of a USB device: when nothing is due device and host agree *)
(* on the address, and each data stage carries exactly what was asked for,  *)
(* for every packet size, every layout of the configuration descriptor and  *)
(* every set of requests.                                                   *)
(***************************************************************************)
EXTENDS UsbDevEnum, SequenceTheorems, WellFoundedInduction, TLAPS

-----------------------------------------------------------------------------
(* The layout of the configuration descriptor.                              *)

\* Every set of numbers has a least one: what induction amounts to here.
LEMMA LeastNat ==
  ASSUME NEW S \in SUBSET Nat, S # {}
  PROVE  \E m \in S : \A k \in S : m <= k
  <1> DEFINE R == OpToRel(<, Nat)
  <1>1. IsWellFoundedOn(R, Nat) BY NatLessThanWellFounded, Zenon
  <1>2. \A x, y \in Nat : x < y => <<x, y>> \in R BY DEF OpToRel
  <1> HIDE DEF R
  <1>3. PICK m \in S : \A k \in S : ~ (<<k, m>> \in R) BY <1>1, WFMin
  <1>4. \A k \in S : ~ (k < m) BY <1>2, <1>3
  <1> QED BY <1>4

\* f adds up the sizes of the sections before each of the first n.
Sums(f, n) ==
  /\ f \in [1..n -> Nat]
  /\ \A s \in 1..n : f[s] = IF s = 1 THEN 0 ELSE f[s - 1] + SectionSizes[s - 1]

LEMMA SumsExist == \E f : Sums(f, Len(SectionSizes) + 1)
  <1> DEFINE N == Len(SectionSizes) + 1
             Bad == {n \in 1..N : ~ \E f : Sums(f, n)}
  <1>0. N \in Nat \ {0} BY EnumAssumption
  <1> HIDE DEF N
  <1>1. ASSUME Bad # {} PROVE FALSE
    <2>0. Bad \in SUBSET Nat BY <1>0
    <2> HIDE DEF Bad
    <2>1. PICK n \in Bad : \A k \in Bad : n <= k BY <1>1, <2>0, LeastNat
    <2> USE DEF Bad
    <2>2. n # 1
      <3>1. Sums([s \in 1..1 |-> 0], 1) BY DEF Sums
      <3> QED BY <2>1, <3>1
    <2>3. n - 1 \in 1..N /\ n \in 1..N BY <2>1, <2>2, <1>0
    <2>4. n - 1 \notin Bad BY <2>1, <2>3, <1>0
    <2>5. PICK f : Sums(f, n - 1) BY <2>3, <2>4
    <2> DEFINE g == [s \in 1..n |-> IF s = n THEN f[n - 1] + SectionSizes[n - 1] ELSE f[s]]
    <2>6. f[n - 1] \in Nat /\ SectionSizes[n - 1] \in Nat BY <2>5, <2>3, <1>0, EnumAssumption DEF Sums, N
    <2>7. Sums(g, n) BY <2>5, <2>6, <2>2, <2>3, <1>0 DEF Sums
    <2> QED BY <2>7, <2>1
  <1>2. N \notin Bad BY <1>1
  <1> QED BY <1>0, <1>2 DEF N

\* The recursive definition does define those sums.
LEMMA SectionStarts == Sums(SectionStart, Len(SectionSizes) + 1)
  <1> DEFINE N == Len(SectionSizes) + 1
             Is(f) == f = [s \in 1..N |-> IF s = 1 THEN 0 ELSE f[s - 1] + SectionSizes[s - 1]]
  <1>1. \E f : Is(f)
     BY SumsExist DEF Sums
  <1>2. SectionStart = CHOOSE f : Is(f) BY DEF SectionStart
  <1>3. Is(SectionStart) BY <1>1, <1>2
  <1>0. N \in Nat \ {0} BY EnumAssumption
  <1> HIDE DEF N
  <1> DEFINE Bad == {n \in 1..N : SectionStart[n] \notin Nat}
  <1>4. ASSUME Bad # {} PROVE FALSE
    <2>0. Bad \in SUBSET Nat BY <1>0
    <2> HIDE DEF Bad
    <2>1. PICK n \in Bad : \A k \in Bad : n <= k BY <1>4, <2>0, LeastNat
    <2> USE DEF Bad
    <2>2. n \in 1..N /\ n # 1 BY <2>1, <1>3, <1>0
    <2>3. SectionStart[n] = SectionStart[n - 1] + SectionSizes[n - 1] BY <2>2, <1>3, <1>0
    <2>4. SectionStart[n - 1] \in Nat BY <2>1, <2>2, <1>0
    <2>5. SectionSizes[n - 1] \in Nat BY <2>2, <1>0, EnumAssumption DEF N
    <2> QED BY <2>1, <2>3, <2>4, <2>5
  <1>5. \A n \in 1..N : SectionStart[n] \in Nat BY <1>4
  <1> QED BY <1>3, <1>5 DEF Sums, N

LEMMA ConfigSizeType == ConfigSize \in Nat
  BY SectionStarts, EnumAssumption DEF Sums, ConfigSize

\* Every position lies in one section.
LEMMA PlaceFound ==
  ASSUME NEW p \in 0..ConfigSize - 1
  PROVE  /\ Place(p) = <<Place(p)[1], Place(p)[2]>>
         /\ Place(p)[1] \in 1..Len(SectionSizes) /\ Place(p)[2] \in Nat
         /\ SectionStart[Place(p)[1]] + Place(p)[2] = p
  <1> DEFINE N == Len(SectionSizes)
             Over == {t \in 1..N + 1 : p < SectionStart[t]}
             In(t) == p \in SectionStart[t]..SectionStart[t + 1] - 1
  <1>0. N \in Nat \ {0} BY EnumAssumption
  <1>1. \A t \in 1..N + 1 : SectionStart[t] \in Nat
    BY SectionStarts, <1>0 DEF Sums
  <1>2. SectionStart[1] = 0 BY SectionStarts, <1>0 DEF Sums
  <1>3. ConfigSize = SectionStart[N + 1] BY DEF ConfigSize
  <1>4. p \in Nat /\ p < SectionStart[N + 1]
    BY <1>1, <1>3, <1>0
  <1> HIDE DEF N
  <1>5. Over \in SUBSET Nat /\ N + 1 \in Over BY <1>0, <1>4
  <1>6. PICK m \in Over : \A k \in Over : m <= k
    <2> HIDE DEF Over
    <2> QED BY <1>5, LeastNat
  <1>7. m \in 1..N + 1 /\ m # 1 BY <1>6, <1>2, <1>4
  <1>8. m - 1 \in 1..N /\ m - 1 \notin Over BY <1>6, <1>7, <1>0
  <1>9. In(m - 1) BY <1>6, <1>7, <1>8, <1>1, <1>4, <1>0
  <1> DEFINE s == CHOOSE t \in 1..N : In(t)
  <1>10. s \in 1..N /\ In(s)
    <2> HIDE DEF In
    <2> QED BY <1>8, <1>9
  <1>11. Place(p) = <<s, p - SectionStart[s]>> BY DEF Place, N
  <1> HIDE DEF s
  <1> QED BY <1>10, <1>11, <1>1, <1>4, <1>0 DEF N
-----------------------------------------------------------------------------
(* Bytes and packets.                                                       *)

Marks == {"null", "value", "config"} \cup Blocks
Places == Marks \X Nat \X Nat

Packets == {None} \cup Requests \cup [kind : {"data"}, size : Nat]

CsrType == [rx : Packets, fifo : Seq(Places), txRdy : BOOLEAN,
            dataEnd : BOOLEAN, stall : BOOLEAN, sentStall : BOOLEAN]

States == {"IDLE", "STATUS", "STALL", "TX", "TX_CONFIG", "RX"}

Device == [csr : CsrType, faddr : Nat, eEP0State : States, pEP0Data : Places,
           ulEP0DataRemain : Nat, ulOUTDataSize : Nat, ulDevAddress : Nat,
           pending : BOOLEAN, ulConfiguration : Nat, ucConfigSection : Nat,
           ucSectionOffset : Nat, received : Nat]

Host == [phase : {"idle", "in", "out", "statusIn", "statusOut"},
         req : {None} \cup Requests, got : Seq(Places),
         sent : Nat, result : {"none", "done", "stall"}, address : Nat, configuration : Nat]

LEMMA ConfigBytesType ==
  /\ ConfigBytes \in Seq(Places) /\ Len(ConfigBytes) = ConfigSize
  <1>1. \A i \in 1..ConfigSize :
          <<"config", Place(i - 1)[1], Place(i - 1)[2]>> \in Places
    <2> TAKE i \in 1..ConfigSize
    <2>1. i - 1 \in 0..ConfigSize - 1 BY ConfigSizeType
    <2>2. Place(i - 1)[1] \in Nat /\ Place(i - 1)[2] \in Nat
      <3>1. Len(SectionSizes) \in Nat BY EnumAssumption
      <3> DEFINE q == Place(i - 1)
      <3>2. q[1] \in 1..Len(SectionSizes) /\ q[2] \in Nat
        BY <2>1, PlaceFound
      <3> HIDE DEF q
      <3>3. q[1] \in Nat BY <3>1, <3>2
      <3> QED BY <3>2, <3>3, Zenon DEF q
    <2> QED BY <2>2 DEF Places, Marks, Blocks
  <1>2. ConfigBytes \in [1..ConfigSize -> Places] BY <1>1 DEF ConfigBytes
  <1> QED BY <1>2, ConfigSizeType, IsASeq, LenProperties

\* The packet cut out of the sections is the next n bytes, and the place of
\* the byte after it is remembered.
LEMMA SectionsInOrder ==
  ASSUME NEW s \in 1..Len(SectionSizes) + 1, NEW o \in Nat, NEW n \in Nat,
         NEW k \in Nat, SectionStart[s] + o = k, k + n <= ConfigSize
  PROVE  LET f == FromSections(s, o, n)
         IN  /\ f.bytes = SubSeq(ConfigBytes, k + 1, k + n)
             /\ f.section \in 1..Len(SectionSizes) + 1 /\ f.offset \in Nat
             /\ SectionStart[f.section] + f.offset = k + n
             /\ f.section > Len(SectionSizes) => k + n = ConfigSize
  <1> DEFINE N == Len(SectionSizes)
  <1>0. N \in Nat /\ ConfigSize \in Nat BY EnumAssumption, ConfigSizeType
  <1>1. CASE k + n = ConfigSize
    <2>1. FromSections(s, o, n) =
            [section |-> N + 1, offset |-> 0, bytes |-> SubSeq(ConfigBytes, k + 1, k + n)]
      BY <1>1 DEF FromSections
    <2>2. SectionStart[N + 1] = ConfigSize BY DEF ConfigSize
    <2> QED BY <2>1, <2>2, <1>0, <1>1
  <1>2. CASE k + n # ConfigSize
    <2> DEFINE p == Place(k + n)
    <2>0. k + n \in 0..ConfigSize - 1 BY <1>0, <1>2
    <2>1. FromSections(s, o, n) =
            [section |-> p[1], offset |-> p[2], bytes |-> SubSeq(ConfigBytes, k + 1, k + n)]
      BY <1>2 DEF FromSections
    <2>2. /\ p[1] \in 1..N /\ p[2] \in Nat
          /\ SectionStart[p[1]] + p[2] = k + n
      BY <2>0, PlaceFound
    <2> HIDE DEF p
    <2> QED BY <2>1, <2>2, <1>0
  <1> QED BY <1>1, <1>2

\* An answer sent from one block, or the one byte of the configuration.
Source(r, c) == IF r.kind = "getConfiguration" THEN "value" ELSE r.kind
Second(r, c) == IF r.kind = "getConfiguration" THEN c ELSE 0
SizeOf(r) == IF r.kind = "config" THEN ConfigSize
             ELSE IF r.kind = "getConfiguration" THEN 1 ELSE BlockSize[r.kind]

LEMMA Kinds ==
  ASSUME NEW r \in Requests
  PROVE  /\ r.wLength \in Nat /\ r.wValue \in Nat
         /\ r.kind \in {"config", "getConfiguration", "unsupported", "device",
                        "class", "setAddress", "setConfiguration", "classOut",
                        "refused"}
  <1>1. /\ r.wLength \in Nat /\ r.wValue \in Nat
        /\ r.kind \in {"config", "getConfiguration", "unsupported", "device",
                       "class", "setAddress", "setConfiguration", "classOut",
                       "refused"}
    BY EnumAssumption DEF Answered, Blocks
  <1> QED BY <1>1

\* The whole answer, and how much of it the host asks for.
LEMMA TotalIs ==
  ASSUME NEW r \in Requests, NEW c \in Nat, r.kind \in Answered \ {"unsupported"}
  PROVE  /\ SizeOf(r) \in Nat
         /\ Total(r, c) \in Seq(Places) /\ Len(Total(r, c)) = SizeOf(r)
         /\ r.kind # "config" =>
              Total(r, c) = [i \in 1..SizeOf(r) |-> <<Source(r, c), Second(r, c), i - 1>>]
         /\ r.kind = "config" => Total(r, c) = ConfigBytes
         /\ Expected(r, c) = SubSeq(Total(r, c), 1, Min2(SizeOf(r), r.wLength))
         /\ Len(Expected(r, c)) = Min2(SizeOf(r), r.wLength)
  <1>k. r.kind \in {"config", "getConfiguration", "device", "class"} /\ r.wLength \in Nat
    BY Kinds DEF Answered, Blocks
  <1>1. SizeOf(r) \in Nat
    BY <1>k, ConfigSizeType, EnumAssumption DEF SizeOf, Blocks
  <1> DEFINE Typed == Total(r, c) \in Seq(Places) /\ Len(Total(r, c)) = SizeOf(r)
             Listed == Total(r, c) = [i \in 1..SizeOf(r) |-> <<Source(r, c), Second(r, c), i - 1>>]
  <1>2. r.kind = "config" => Typed /\ Total(r, c) = ConfigBytes
    BY ConfigBytesType DEF Total, SizeOf
  <1>3. ASSUME r.kind = "getConfiguration" PROVE Typed /\ Listed
    <2>1. Total(r, c) = << <<"value", c, 0>> >> BY <1>3 DEF Total
    <2>2. <<"value", c, 0>> \in Places BY DEF Places, Marks
    <2>3. \A i \in 1..1 : i - 1 = 0 OBVIOUS
    <2>4. Total(r, c) = [i \in 1..1 |-> <<"value", c, i - 1>>]
      BY <2>1, <2>3
    <2>5. SizeOf(r) = 1 /\ Source(r, c) = "value" /\ Second(r, c) = c
      BY <1>3 DEF SizeOf, Source, Second
    <2>6. Total(r, c) \in Seq(Places) /\ Len(Total(r, c)) = 1
      BY <2>1, <2>2
    <2> QED BY <2>4, <2>5, <2>6
  <1>4. ASSUME r.kind \in {"device", "class"} PROVE Typed /\ Listed
    <2>0. r.kind # "config" /\ r.kind # "getConfiguration" BY <1>4
    <2>a. SizeOf(r) = BlockSize[r.kind] BY <2>0 DEF SizeOf
    <2>b. Total(r, c) = [i \in 1..BlockSize[r.kind] |-> <<r.kind, 0, i - 1>>]
      BY <2>0 DEF Total
    <2>1. Total(r, c) = [i \in 1..SizeOf(r) |-> <<r.kind, 0, i - 1>>]
      BY <2>a, <2>b
    <2>c. r.kind \in Marks BY <1>4 DEF Marks, Blocks
    <2>d. \A i \in 1..SizeOf(r) : <<r.kind, 0, i - 1>> \in Places
      BY <2>c, <1>1 DEF Places
    <2>2. Total(r, c) \in [1..SizeOf(r) -> Places] BY <2>1, <2>d
    <2>3. Total(r, c) \in Seq(Places) /\ Len(Total(r, c)) = SizeOf(r)
      BY <2>2, <1>1, IsASeq, LenProperties
    <2>4. Source(r, c) = r.kind /\ Second(r, c) = 0 BY <1>4 DEF Source, Second
    <2> QED BY <2>1, <2>3, <2>4
  <1>5. /\ Total(r, c) \in Seq(Places) /\ Len(Total(r, c)) = SizeOf(r)
    BY <1>k, <1>2, <1>3, <1>4
  <1>6. Expected(r, c) = SubSeq(Total(r, c), 1, Min2(SizeOf(r), r.wLength))
    BY <1>5 DEF Expected
  <1>7. Min2(SizeOf(r), r.wLength) \in 0..SizeOf(r)
    BY <1>1, <1>k DEF Min2
  <1>8. Len(Expected(r, c)) = Min2(SizeOf(r), r.wLength)
    BY <1>5, <1>6, <1>7, <1>1, SubSeqProperties
  <1> QED BY <1>k, <1>1, <1>2, <1>3, <1>4, <1>6, <1>8, <1>5

\* A request that asks for exactly as much as fills its last packet leaves
\* room for more than there is (EnumAssumption).
LEMMA FullPackets ==
  ASSUME NEW r \in Requests, r.kind \in Answered \ {"unsupported"}, NEW m \in Nat,
         Min2(SizeOf(r), r.wLength) = m * Packet
  PROVE  r.wLength > SizeOf(r)
  <1>1. Len(Total(r, 0)) = SizeOf(r) /\ Len(Expected(r, 0)) = Min2(SizeOf(r), r.wLength)
    BY TotalIs
  <1>2. r.wLength > Len(Total(r, 0)) \/ Len(Expected(r, 0)) % Packet # 0
    BY EnumAssumption
  <1>3. Packet \in Nat \ {0} BY EnumAssumption
  <1>4. (m * Packet) % Packet = 0 BY <1>3, SMTT(60)
  <1> QED BY <1>1, <1>2, <1>4

LEMMA BytesAre ==
  ASSUME NEW p \in Places, NEW n \in Nat
  PROVE  /\ Bytes(p, n) \in Seq(Places) /\ Len(Bytes(p, n)) = n
         /\ Advanced(p, n) \in Places
  <1>1. p[1] \in Marks /\ p[2] \in Nat /\ p[3] \in Nat BY DEF Places
  <1>2. \A i \in Nat : <<p[1], p[2], p[3] + i>> \in Places BY <1>1 DEF Places
  <1>3. \A i \in 1..n : Advanced(p, i - 1) \in Places
    <2> TAKE i \in 1..n
    <2>1. i - 1 \in Nat OBVIOUS
    <2> QED BY <2>1, <1>2 DEF Advanced
  <1>4. Bytes(p, n) \in [1..n -> Places] BY <1>3 DEF Bytes
  <1>5. Bytes(p, n) \in Seq(Places) /\ Len(Bytes(p, n)) = n
    BY <1>4, IsASeq, LenProperties
  <1> QED BY <1>2, <1>5 DEF Advanced

\* Sending on from a block is cutting the next n bytes out of the answer.
LEMMA BlockInOrder ==
  ASSUME NEW r \in Requests, r.kind \in Answered \ {"unsupported"},
         r.kind # "config", NEW c \in Nat, NEW k \in Nat, NEW n \in Nat,
         k + n <= SizeOf(r)
  PROVE  /\ Bytes(<<Source(r, c), Second(r, c), k>>, n)
              = SubSeq(Total(r, c), k + 1, k + n)
         /\ Advanced(<<Source(r, c), Second(r, c), k>>, n)
              = <<Source(r, c), Second(r, c), k + n>>
  <1> DEFINE W == Total(r, c)
             p == <<Source(r, c), Second(r, c), k>>
             s == Source(r, c)
             t == Second(r, c)
  <1>1. /\ SizeOf(r) \in Nat /\ W \in Seq(Places) /\ Len(W) = SizeOf(r)
        /\ W = [i \in 1..SizeOf(r) |-> <<s, t, i - 1>>]
    BY TotalIs
  <1>2. p[1] = s /\ p[2] = t /\ p[3] = k OBVIOUS
  <1> HIDE DEF W, p, s, t
  <1>3. Bytes(p, n) = [i \in 1..n |-> <<s, t, k + (i - 1)>>]
    BY <1>2 DEF Bytes, Advanced
  <1>4. SubSeq(W, k + 1, k + n) = [i \in 1..n |-> W[i + k]]
    <2>1. SubSeq(W, k + 1, k + n) = [i \in 1..(k + n) - (k + 1) + 1 |-> W[i + (k + 1) - 1]]
      OBVIOUS
    <2>2. (k + n) - (k + 1) + 1 = n OBVIOUS
    <2>3. \A i \in 1..n : i + (k + 1) - 1 = i + k OBVIOUS
    <2> QED BY <2>1, <2>2, <2>3
  <1>5. \A i \in 1..n : W[i + k] = <<s, t, k + (i - 1)>>
    <2> TAKE i \in 1..n
    <2>1. i + k \in 1..SizeOf(r) BY <1>1
    <2>2. W[i + k] = <<s, t, (i + k) - 1>> BY <2>1, <1>1
    <2>3. (i + k) - 1 = k + (i - 1) OBVIOUS
    <2> QED BY <2>2, <2>3
  <1>6. Bytes(p, n) = SubSeq(W, k + 1, k + n) BY <1>3, <1>4, <1>5
  <1>7. Advanced(p, n) = <<s, t, k + n>> BY <1>2 DEF Advanced
  <1> QED BY <1>6, <1>7 DEF W, p, s, t

LEMMA Joined ==
  ASSUME NEW W \in Seq(Places), NEW k \in Nat, NEW n \in Nat, k + n <= Len(W)
  PROVE  /\ SubSeq(W, 1, k) \o SubSeq(W, k + 1, k + n) = SubSeq(W, 1, k + n)
         /\ SubSeq(W, k + 1, k + n) \in Seq(Places)
         /\ Len(SubSeq(W, k + 1, k + n)) = n
         /\ Len(SubSeq(W, 1, k + n)) = k + n
  <1>1. Len(W) \in Nat BY LenProperties
  <1>2. SubSeq(W, 1, k) \o SubSeq(W, k + 1, k + n) = SubSeq(W, 1, k + n)
    <2>1. 1 \in 1..Len(W) + 1 /\ k \in 1 - 1..Len(W) /\ k + n \in k..Len(W)
      BY <1>1
    <2> QED BY <2>1, ConcatAdjacentSubSeq
  <1>3. /\ SubSeq(W, k + 1, k + n) \in Seq(Places)
        /\ Len(SubSeq(W, k + 1, k + n)) = n
    <2>1. k + 1 \in 1..Len(W) + 1 /\ k + n \in (k + 1) - 1..Len(W) BY <1>1
    <2> QED BY <2>1, SubSeqProperties
  <1>4. Len(SubSeq(W, 1, k + n)) = k + n
    <2>1. 1 \in 1..Len(W) + 1 /\ k + n \in 1 - 1..Len(W) BY <1>1
    <2> QED BY <2>1, SubSeqProperties
  <1> QED BY <1>2, <1>3, <1>4

-----------------------------------------------------------------------------
(* What the handlers do to the fields of the device.                        *)

\* The fields that sending a packet leaves alone.
SameRest(e, d) ==
  /\ e.faddr = d.faddr /\ e.ulDevAddress = d.ulDevAddress
  /\ e.pending = d.pending /\ e.ulConfiguration = d.ulConfiguration
  /\ e.received = d.received

\* Nothing lies in the endpoint.
Free(d) == ~d.csr.txRdy /\ d.csr.fifo = << >>

\* An armed packet.
Sent(e, d, bytes, n) ==
  /\ e.csr.fifo = bytes /\ e.csr.txRdy = TRUE /\ e.csr.dataEnd = (n # Packet)
  /\ e.csr.stall = FALSE /\ e.csr.sentStall = FALSE /\ e.csr.rx = d.csr.rx

LEMMA DataPutAndSendDoes ==
  ASSUME NEW csr \in CsrType, ~csr.txRdy, csr.fifo = << >>,
         NEW bytes \in Seq(Places), NEW last \in BOOLEAN
  PROVE  LET e == DataPutAndSend(csr, bytes, last)
         IN  /\ e \in CsrType
             /\ e.fifo = bytes /\ e.txRdy = TRUE /\ e.dataEnd = last
             /\ e.stall = FALSE /\ e.sentStall = FALSE /\ e.rx = csr.rx
  <1> DEFINE e == DataPutAndSend(csr, bytes, last)
  <1>1. csr.fifo \o bytes = bytes BY ConcatEmptySeq
  <1>2. e = [csr EXCEPT !.fifo = csr.fifo \o bytes, !.txRdy = TRUE, !.dataEnd = last,
                        !.stall = FALSE, !.sentStall = FALSE]
    BY DEF DataPutAndSend
  <1>3. e = [csr EXCEPT !.fifo = bytes, !.txRdy = TRUE, !.dataEnd = last,
                        !.stall = FALSE, !.sentStall = FALSE]
    BY <1>1, <1>2
  <1> HIDE DEF e
  <1> QED BY <1>3 DEF CsrType, e

LEMMA DataAckDoes ==
  ASSUME NEW csr \in CsrType, NEW last \in BOOLEAN
  PROVE  LET e == DataAck(csr, last)
         IN  /\ e \in CsrType
             /\ e.fifo = csr.fifo /\ e.txRdy = csr.txRdy /\ e.dataEnd = last
             /\ e.stall = FALSE /\ e.sentStall = FALSE /\ e.rx = None
  BY DEF DataAck, CsrType, Packets

LEMMA StateTxDoes ==
  ASSUME NEW d \in Device, Free(d)
  PROVE  LET e == StateTx(d)
             n == Min2(d.ulEP0DataRemain, Packet)
         IN  /\ e \in Device /\ SameRest(e, d)
             /\ Sent(e, d, Bytes(d.pEP0Data, n), n)
             /\ e.eEP0State = IF n # Packet THEN "STATUS" ELSE "TX"
             /\ e.ulEP0DataRemain = d.ulEP0DataRemain - n
             /\ e.pEP0Data = Advanced(d.pEP0Data, n)
  <1> DEFINE e == StateTx(d)
             n == Min2(d.ulEP0DataRemain, Packet)
             c == DataPutAndSend(d.csr, Bytes(d.pEP0Data, n), IsLast(n))
  <1>1. d.csr \in CsrType /\ d.pEP0Data \in Places /\ d.ulEP0DataRemain \in Nat
        /\ d.ulOUTDataSize \in Nat
    BY DEF Device
  <1>2. n \in Nat /\ d.ulEP0DataRemain - n \in Nat BY <1>1, EnumAssumption DEF Min2
  <1>3. IsLast(n) = (n # Packet) /\ IsLast(n) \in BOOLEAN BY DEF IsLast
  <1> HIDE DEF n
  <1>4. Bytes(d.pEP0Data, n) \in Seq(Places) /\ Advanced(d.pEP0Data, n) \in Places
    BY <1>1, <1>2, BytesAre
  <1>5. /\ c \in CsrType /\ c.fifo = Bytes(d.pEP0Data, n) /\ c.txRdy = TRUE
        /\ c.dataEnd = IsLast(n) /\ c.stall = FALSE /\ c.sentStall = FALSE
        /\ c.rx = d.csr.rx
    BY <1>1, <1>3, <1>4, DataPutAndSendDoes DEF Free
  <1>6. e = [d EXCEPT
        !.eEP0State = IF IsLast(n) THEN "STATUS" ELSE "TX",
        !.ulEP0DataRemain = d.ulEP0DataRemain - n,
        !.pEP0Data = Advanced(d.pEP0Data, n),
        !.csr = c,
        !.ulOUTDataSize = IF IsLast(n) THEN 0 ELSE d.ulOUTDataSize]
    BY DEF StateTx, n
  <1> HIDE DEF c, e
  <1>7. e \in Device
    BY <1>1, <1>2, <1>4, <1>5, <1>6 DEF Device, States
  <1>8. /\ e.csr = c /\ e.ulEP0DataRemain = d.ulEP0DataRemain - n
        /\ e.pEP0Data = Advanced(d.pEP0Data, n)
        /\ e.eEP0State = (IF IsLast(n) THEN "STATUS" ELSE "TX")
    BY <1>6 DEF Device
  <1>9. SameRest(e, d) BY <1>6 DEF Device, SameRest
  <1>10. Sent(e, d, Bytes(d.pEP0Data, n), n) BY <1>8, <1>5, <1>3 DEF Sent
  <1> QED BY <1>7, <1>8, <1>9, <1>10, <1>3 DEF e, n

LEMMA StateTxConfigDoes ==
  ASSUME NEW d \in Device, Free(d), NEW k \in Nat,
         d.ucConfigSection \in 1..Len(SectionSizes) + 1,
         SectionStart[d.ucConfigSection] + d.ucSectionOffset = k,
         k + d.ulEP0DataRemain <= ConfigSize
  PROVE  LET e == StateTxConfig(d)
             n == Min2(d.ulEP0DataRemain, Packet)
         IN  /\ e \in Device /\ SameRest(e, d)
             /\ Sent(e, d, SubSeq(ConfigBytes, k + 1, k + n), n)
             /\ e.eEP0State = IF n # Packet THEN "STATUS" ELSE "TX_CONFIG"
             /\ e.ulEP0DataRemain = d.ulEP0DataRemain - n
             /\ e.ucConfigSection \in 1..Len(SectionSizes) + 1
             /\ SectionStart[e.ucConfigSection] + e.ucSectionOffset = k + n
  <1> DEFINE e == StateTxConfig(d)
             n == Min2(d.ulEP0DataRemain, Packet)
             f == FromSections(d.ucConfigSection, d.ucSectionOffset, n)
             left == IF f.section > Len(SectionSizes) THEN 0 ELSE d.ulEP0DataRemain - n
             p == IF left = 0 THEN d.pEP0Data ELSE <<"config", f.section, f.offset>>
             c == DataPutAndSend(d.csr, f.bytes, IsLast(n))
  <1>1. d.csr \in CsrType /\ d.pEP0Data \in Places /\ d.ulEP0DataRemain \in Nat
        /\ d.ulOUTDataSize \in Nat /\ d.ucSectionOffset \in Nat
    BY DEF Device
  <1>2. n \in Nat /\ d.ulEP0DataRemain - n \in Nat /\ n <= d.ulEP0DataRemain
    BY <1>1, EnumAssumption DEF Min2
  <1>3. IsLast(n) = (n # Packet) /\ IsLast(n) \in BOOLEAN BY DEF IsLast
  <1>e. e = [d EXCEPT
        !.eEP0State = IF IsLast(n) THEN "STATUS" ELSE "TX_CONFIG",
        !.ucConfigSection = f.section,
        !.ucSectionOffset = f.offset,
        !.ulEP0DataRemain = left,
        !.pEP0Data = p,
        !.csr = c,
        !.ulOUTDataSize = IF IsLast(n) THEN 0 ELSE d.ulOUTDataSize]
    BY DEF StateTxConfig
  <1> HIDE DEF n
  <1>4. k + n <= ConfigSize BY <1>1, <1>2, ConfigSizeType
  <1>5. /\ f.bytes = SubSeq(ConfigBytes, k + 1, k + n)
        /\ f.section \in 1..Len(SectionSizes) + 1 /\ f.offset \in Nat
        /\ SectionStart[f.section] + f.offset = k + n
        /\ f.section > Len(SectionSizes) => k + n = ConfigSize
    BY <1>1, <1>2, <1>4, SectionsInOrder, SMTT(30)
  <1> HIDE DEF f
  <1>6. f.bytes \in Seq(Places)
    BY <1>5, <1>2, <1>4, Joined, ConfigBytesType
  <1>7. left = d.ulEP0DataRemain - n
    BY <1>5, <1>1, <1>2, ConfigSizeType
  <1>8. /\ c \in CsrType /\ c.fifo = f.bytes /\ c.txRdy = TRUE
        /\ c.dataEnd = IsLast(n) /\ c.stall = FALSE /\ c.sentStall = FALSE
        /\ c.rx = d.csr.rx
    <2>1. ~d.csr.txRdy /\ d.csr.fifo = << >> BY DEF Free
    <2>2. PICK b \in Seq(Places) : b = f.bytes BY <1>6
    <2>3. PICK last \in BOOLEAN : last = IsLast(n) BY <1>3
    <2>4. LET x == DataPutAndSend(d.csr, b, last)
          IN  /\ x \in CsrType /\ x.fifo = b /\ x.txRdy = TRUE
              /\ x.dataEnd = last /\ x.stall = FALSE /\ x.sentStall = FALSE
              /\ x.rx = d.csr.rx
      BY <2>1, <1>1, DataPutAndSendDoes
    <2> QED BY <2>2, <2>3, <2>4
  <1>9. f.section \in Nat /\ p \in Places
    <2>1. Len(SectionSizes) \in Nat BY EnumAssumption
    <2>2. f.section \in Nat BY <2>1, <1>5
    <2>3. <<"config", f.section, f.offset>> \in Places
      BY <2>2, <1>5 DEF Places, Marks
    <2> QED BY <2>2, <2>3, <1>1
  <1> HIDE DEF c, e, left, p
  <1>10. e \in Device
    BY <1>1, <1>2, <1>5, <1>7, <1>8, <1>9, <1>e DEF Device, States
  <1>11. /\ e.csr = c /\ e.ulEP0DataRemain = left
         /\ e.ucConfigSection = f.section /\ e.ucSectionOffset = f.offset
         /\ e.eEP0State = (IF IsLast(n) THEN "STATUS" ELSE "TX_CONFIG")
    BY <1>e DEF Device
  <1>12. SameRest(e, d) BY <1>e DEF Device, SameRest
  <1>13. Sent(e, d, SubSeq(ConfigBytes, k + 1, k + n), n)
    BY <1>11, <1>8, <1>3, <1>5 DEF Sent
  <1> QED BY <1>10, <1>11, <1>12, <1>13, <1>3, <1>5, <1>7 DEF e, n

-----------------------------------------------------------------------------
(* The inductive invariant: the stages of a control transfer, and in each    *)
(* what the endpoint holds, which interrupt is due and how far the answer is. *)

\* The host resets the bus and sends requests only where the handlers cope,
\* and leaves room for the whole answer of a class request, which the class
\* sends whatever length was asked for (usbdcdc.c:1761).
Tame ==
  /\ TidyResets /\ ~Window
  /\ \A r \in Requests : r.kind = "class" => r.wLength >= SizeOf(r)

Types ==
  /\ dev \in Device /\ host \in Host
  /\ irq \subseteq {"reset", "ep0"} /\ latched \subseteq {"reset", "ep0"}

Plain == Answered \ {"unsupported"}

\* How many bytes the host wants.
Wanted(r) == Min2(SizeOf(r), r.wLength)

\* What the host has taken and what lies in the endpoint for it.
Gone == host.got \o dev.csr.fifo

\* No interrupt is due; the endpoint's is due, once; no bus reset is due.
Quiet == irq = {} /\ latched = {}
OneDue == \/ irq = {"ep0"} /\ latched = {}
          \/ irq = {} /\ latched = {"ep0"}
NoReset == irq \subseteq {"ep0"} /\ latched \subseteq {"ep0"}

Agreed == dev.faddr = host.address

\* Nothing of an answer is left.
Rest == dev.ulEP0DataRemain = 0 /\ Free(dev) /\ ~dev.csr.sentStall

\* Nobody has stalled and no address waits.
Smooth == ~dev.csr.stall /\ ~dev.csr.sentStall /\ ~dev.pending /\ Agreed

\* Between transfers.  Where an address waits, or a stall has been sent, the
\* interrupt that will see to it is due.
Idle ==
  /\ host.phase = "idle" /\ dev.csr.rx = None
  /\ dev.ulEP0DataRemain = 0 /\ Free(dev) /\ ~dev.csr.stall
  /\ \/ dev.eEP0State \in {"IDLE", "STATUS"} /\ Smooth
     \/ /\ dev.eEP0State = "STALL" /\ dev.csr.sentStall
        /\ ~dev.pending /\ Agreed /\ NoReset
     \/ /\ dev.eEP0State = "STATUS" /\ ~dev.csr.sentStall
        /\ dev.pending /\ dev.ulDevAddress = host.address /\ OneDue

\* A request lies in the endpoint and will be looked at once.
FirstPhase(r) == IF r.kind \in Answered THEN "in"
                 ELSE IF r.kind = "classOut" THEN "out" ELSE "statusIn"

Setup ==
  /\ host.req \in Requests /\ dev.csr.rx = host.req
  /\ host.phase = FirstPhase(host.req) /\ host.got = << >> /\ host.sent = 0
  /\ Rest /\ ~dev.csr.stall /\ Agreed
  /\ dev.eEP0State \in {"IDLE", "STATUS"}
  /\ dev.pending => dev.eEP0State = "STATUS" /\ dev.ulDevAddress = host.address
  /\ \/ latched = {} /\ "ep0" \in irq
     \/ irq = {} /\ "ep0" \in latched

\* Where the driver goes on with the answer, k bytes of which are gone.
Points(d, r, k) ==
  IF r.kind = "config"
    THEN /\ d.ucConfigSection \in 1..Len(SectionSizes) + 1
         /\ SectionStart[d.ucConfigSection] + d.ucSectionOffset = k
    ELSE d.pEP0Data =
           <<Source(r, d.ulConfiguration), Second(r, d.ulConfiguration), k>>

Ahead(k) ==
  /\ Points(dev, host.req, k)
  /\ dev.eEP0State = IF host.req.kind = "config" THEN "TX_CONFIG" ELSE "TX"

\* An answer is under way, in packets that are full so far.
Answering ==
  /\ host.phase = "in" /\ host.req \in Requests /\ host.req.kind \in Plain
  /\ dev.csr.rx = None /\ Smooth
  /\ Len(Gone) <= Wanted(host.req)
  /\ Gone = SubSeq(Total(host.req, dev.ulConfiguration), 1, Len(Gone))
  /\ dev.ulEP0DataRemain = Wanted(host.req) - Len(Gone)
  /\ \E m \in Nat : Len(host.got) = m * Packet

Armed ==
  /\ Answering /\ Quiet
  /\ dev.csr.txRdy /\ Len(dev.csr.fifo) <= Packet
  /\ IF Len(dev.csr.fifo) = Packet
       THEN Ahead(Len(Gone))
       ELSE dev.eEP0State = "STATUS" /\ dev.ulEP0DataRemain = 0

Taken == Answering /\ OneDue /\ Free(dev) /\ Ahead(Len(host.got))

\* The empty packet that answers a descriptor the device does not have.
Apology ==
  /\ host.phase = "in" /\ host.req \in Requests
  /\ host.req.kind = "unsupported"
  /\ dev.csr.rx = None /\ Smooth /\ Quiet
  /\ dev.csr.txRdy /\ dev.csr.fifo = << >> /\ dev.ulEP0DataRemain = 0
  /\ dev.eEP0State = "STATUS"

Stalled ==
  /\ host.req \in Requests /\ host.phase = FirstPhase(host.req)
  /\ host.phase # "out"
  /\ dev.csr.rx = None /\ Rest /\ dev.csr.stall /\ ~dev.pending /\ Agreed
  /\ Quiet /\ dev.eEP0State = "STALL"

StatusOut ==
  /\ host.phase = "statusOut" /\ host.req \in Requests
  /\ host.req.kind \in Answered
  /\ dev.csr.rx = None /\ Rest /\ Smooth /\ NoReset
  /\ dev.eEP0State \in {"IDLE", "STATUS"}
  /\ host.req.kind \in Plain =>
       host.got = Expected(host.req, dev.ulConfiguration)

\* Data of the host is under way.
Receiving ==
  /\ host.req \in Requests /\ host.req.kind = "classOut"
  /\ dev.eEP0State = "RX" /\ Smooth /\ ~dev.csr.dataEnd /\ Free(dev)
  /\ dev.ulOUTDataSize = host.req.wLength /\ dev.received = 0

OutWait ==
  /\ host.phase = "out" /\ Receiving /\ dev.csr.rx = None /\ Quiet
  /\ host.sent <= host.req.wLength
  /\ dev.ulEP0DataRemain = host.req.wLength - host.sent

OutPacket ==
  /\ host.phase \in {"out", "statusIn"} /\ Receiving /\ OneDue
  /\ dev.csr.rx \in [kind : {"data"}, size : Nat]
  /\ IF host.phase = "out"
       THEN /\ host.sent < host.req.wLength
            /\ dev.ulEP0DataRemain = host.req.wLength - host.sent + Packet
       ELSE dev.ulEP0DataRemain <= Packet

\* The request has been carried out, but for the address.
StatusIn ==
  /\ host.phase = "statusIn" /\ host.req \in Requests
  /\ dev.csr.rx = None /\ Rest /\ ~dev.csr.stall /\ Agreed /\ Quiet
  /\ \/ /\ host.req.kind = "setAddress" /\ dev.eEP0State = "STATUS"
        /\ dev.pending /\ dev.ulDevAddress = host.req.wValue
     \/ /\ host.req.kind = "setConfiguration" /\ dev.eEP0State = "IDLE"
        /\ ~dev.pending /\ dev.ulConfiguration = host.req.wValue
     \/ /\ host.req.kind = "classOut" /\ dev.eEP0State = "IDLE"
        /\ ~dev.pending /\ dev.received = host.req.wLength

\* The configuration the host has set is the device's, until a bus reset.
Configured ==
  host.configuration # 0 =>
    /\ NoReset
    /\ \/ dev.ulConfiguration = host.configuration
       \/ StatusIn /\ host.req.kind = "setConfiguration"

Stage == \/ Idle \/ Setup \/ Armed \/ Taken \/ Apology \/ Stalled
         \/ StatusOut \/ OutWait \/ OutPacket \/ StatusIn

IInv == Types /\ Stage /\ Configured

-----------------------------------------------------------------------------
(* The handlers.                                                            *)

\* The next part of an answer that lies in one block.
LEMMA BlockPart ==
  ASSUME NEW r \in Requests, r.kind \in Plain, r.kind # "config",
         NEW d \in Device, NEW k \in Nat, NEW n \in Nat, k + n <= SizeOf(r),
         d.pEP0Data =
           <<Source(r, d.ulConfiguration), Second(r, d.ulConfiguration), k>>
  PROVE  /\ Bytes(d.pEP0Data, n) = SubSeq(Total(r, d.ulConfiguration), k + 1, k + n)
         /\ Advanced(d.pEP0Data, n) =
              <<Source(r, d.ulConfiguration), Second(r, d.ulConfiguration), k + n>>
  <1>1. r.kind \in Answered \ {"unsupported"} BY DEF Plain
  <1>2. \A v \in Nat : /\ Bytes(<<Source(r, v), Second(r, v), k>>, n)
                            = SubSeq(Total(r, v), k + 1, k + n)
                      /\ Advanced(<<Source(r, v), Second(r, v), k>>, n)
                            = <<Source(r, v), Second(r, v), k + n>>
    BY <1>1, BlockInOrder
  <1>3. d.ulConfiguration \in Nat BY DEF Device
  <1> QED BY <1>2, <1>3

\* The next packet of an answer: the first, and those after it.
LEMMA SendOn ==
  ASSUME host \in Host, host.phase = "in",
         NEW r, r = host.req, r \in Requests, r.kind \in Plain,
         NEW d \in Device, Free(d), d.csr.rx = None, ~d.pending,
         d.faddr = host.address,
         NEW k \in Nat, k = Len(host.got), k <= Wanted(r),
         host.got = SubSeq(Total(r, d.ulConfiguration), 1, k),
         d.ulEP0DataRemain = Wanted(r) - k,
         Points(d, r, k),
         \E m \in Nat : k = m * Packet,
         dev' = IF r.kind = "config" THEN StateTxConfig(d) ELSE StateTx(d),
         host' = host, irq' = {}, latched' = {}
  PROVE  Types' /\ Armed' /\ dev'.ulConfiguration = d.ulConfiguration
  <1> DEFINE n == Min2(d.ulEP0DataRemain, Packet)
             W == Total(r, d.ulConfiguration)
             part == SubSeq(W, k + 1, k + n)
  <1>1. /\ d.ulConfiguration \in Nat /\ d.ulEP0DataRemain \in Nat
        /\ d.csr \in CsrType /\ d.pEP0Data \in Places
    BY DEF Device
  <1>2. /\ SizeOf(r) \in Nat /\ W \in Seq(Places) /\ Len(W) = SizeOf(r)
        /\ r.kind = "config" => W = ConfigBytes
    BY <1>1, TotalIs DEF Plain
  <1>3. r.wLength \in Nat BY Kinds
  <1>4. Wanted(r) \in Nat /\ Wanted(r) <= SizeOf(r)
    BY <1>2, <1>3 DEF Wanted, Min2
  <1>0. k + d.ulEP0DataRemain = Wanted(r) BY <1>4
  <1>5. Packet \in Nat \ {0} BY EnumAssumption
  <1>6. n \in Nat /\ n <= d.ulEP0DataRemain /\ n <= Packet
        /\ (n # Packet => n = d.ulEP0DataRemain)
    BY <1>1, <1>5 DEF Min2
  <1>7. k + n <= Wanted(r) /\ k + n <= Len(W) BY <1>2, <1>4, <1>6
  <1>8. /\ dev' \in Device /\ SameRest(dev', d) /\ Sent(dev', d, part, n)
        /\ dev'.ulEP0DataRemain = d.ulEP0DataRemain - n
        /\ dev'.eEP0State = (IF n # Packet THEN "STATUS"
                             ELSE IF r.kind = "config" THEN "TX_CONFIG" ELSE "TX")
        /\ Points(dev', r, k + n)
    <2>1. CASE r.kind = "config"
      <3>1. SizeOf(r) = ConfigSize BY <2>1 DEF SizeOf
      <3>2. /\ d.ucConfigSection \in 1..Len(SectionSizes) + 1
            /\ SectionStart[d.ucConfigSection] + d.ucSectionOffset = k
        BY <2>1 DEF Points
      <3>3. k + d.ulEP0DataRemain <= ConfigSize BY <3>1, <1>0, <1>4
      <3>4. dev' = StateTxConfig(d) BY <2>1
      <3>5. /\ dev' \in Device /\ SameRest(dev', d)
            /\ Sent(dev', d, SubSeq(ConfigBytes, k + 1, k + n), n)
            /\ dev'.eEP0State = (IF n # Packet THEN "STATUS" ELSE "TX_CONFIG")
            /\ dev'.ulEP0DataRemain = d.ulEP0DataRemain - n
            /\ dev'.ucConfigSection \in 1..Len(SectionSizes) + 1
            /\ SectionStart[dev'.ucConfigSection] + dev'.ucSectionOffset = k + n
        BY <3>2, <3>3, <3>4, StateTxConfigDoes
      <3>6. Points(dev', r, k + n) BY <3>5, <2>1 DEF Points
      <3>7. Sent(dev', d, part, n) BY <3>5, <2>1, <1>2
      <3> QED BY <3>5, <3>6, <3>7, <2>1
    <2>2. CASE r.kind # "config"
      <3>1. d.pEP0Data =
              <<Source(r, d.ulConfiguration), Second(r, d.ulConfiguration), k>>
        BY <2>2 DEF Points
      <3>2. /\ Bytes(d.pEP0Data, n) = part
            /\ Advanced(d.pEP0Data, n) =
                 <<Source(r, d.ulConfiguration), Second(r, d.ulConfiguration), k + n>>
        <4>1. k + n <= SizeOf(r) BY <1>2, <1>7
        <4> QED BY <4>1, <3>1, <2>2, <1>6, BlockPart
      <3>3. dev' = StateTx(d) BY <2>2
      <3>4. /\ dev' \in Device /\ SameRest(dev', d)
            /\ Sent(dev', d, Bytes(d.pEP0Data, n), n)
            /\ dev'.eEP0State = (IF n # Packet THEN "STATUS" ELSE "TX")
            /\ dev'.ulEP0DataRemain = d.ulEP0DataRemain - n
            /\ dev'.pEP0Data = Advanced(d.pEP0Data, n)
        BY <3>3, StateTxDoes
      <3>5. dev'.ulConfiguration = d.ulConfiguration BY <3>4 DEF SameRest
      <3>6. Points(dev', r, k + n) BY <3>4, <3>5, <3>2, <2>2 DEF Points
      <3> QED BY <3>2, <3>4, <3>6, <2>2
    <2> QED BY <2>1, <2>2
  <1> HIDE DEF n
  <1>9. /\ SubSeq(W, 1, k) \o part = SubSeq(W, 1, k + n)
        /\ part \in Seq(Places) /\ Len(part) = n
        /\ Len(SubSeq(W, 1, k + n)) = k + n
    BY <1>2, <1>6, <1>7, Joined
  <1>10. Gone' = SubSeq(W, 1, k + n) /\ Len(Gone') = k + n
    <2>1. dev'.csr.fifo = part BY <1>8 DEF Sent
    <2>2. Gone' = host.got \o part BY <2>1 DEF Gone
    <2> QED BY <2>2, <1>9
  <1>11. dev'.ulConfiguration = d.ulConfiguration BY <1>8 DEF SameRest
  <1>12. Types'
    BY <1>8 DEF Types
  <1>13. Smooth'
    BY <1>8 DEF Smooth, Agreed, Sent, SameRest
  <1>14. Answering'
    <2>1. dev'.csr.rx = None BY <1>8 DEF Sent
    <2>2. dev'.ulEP0DataRemain = Wanted(r) - Len(Gone')
      <3>1. dev'.ulEP0DataRemain = d.ulEP0DataRemain - n BY <1>8
      <3>2. d.ulEP0DataRemain - n = Wanted(r) - (k + n) BY <1>4, <1>6
      <3> QED BY <3>1, <3>2, <1>10
    <2>3. Gone' = SubSeq(Total(host'.req, dev'.ulConfiguration), 1, Len(Gone'))
      BY <1>10, <1>11
    <2>4. Len(Gone') <= Wanted(host'.req) BY <1>10, <1>7
    <2>5. \E j \in Nat : Len(host'.got) = j * Packet OBVIOUS
    <2> QED BY <2>1, <2>2, <2>3, <2>4, <2>5, <1>13 DEF Answering
  <1>15. Armed'
    <2>1. dev'.csr.txRdy /\ dev'.csr.fifo = part BY <1>8 DEF Sent
    <2>2. Quiet' BY DEF Quiet
    <2>3. CASE n = Packet
      <3>1. Ahead(Len(Gone))' BY <1>8, <1>10, <2>3 DEF Ahead
      <3> QED BY <3>1, <2>1, <2>2, <2>3, <1>9, <1>14, <1>5 DEF Armed
    <2>4. CASE n # Packet
      <3>1. dev'.eEP0State = "STATUS" /\ dev'.ulEP0DataRemain = 0
        BY <1>8, <1>6, <1>1, <2>4
      <3> QED BY <3>1, <2>1, <2>2, <2>4, <1>9, <1>6, <1>14 DEF Armed
    <2> QED BY <2>3, <2>4
  <1> QED BY <1>11, <1>12, <1>15

LEMMA StallDoes ==
  ASSUME NEW d \in Device
  PROVE  LET e == StallEP0(d)
         IN  /\ e \in Device /\ SameRest(e, d)
             /\ e.eEP0State = "STALL" /\ e.csr.stall = TRUE /\ e.csr.rx = None
             /\ e.csr.fifo = d.csr.fifo /\ e.csr.txRdy = d.csr.txRdy
             /\ e.csr.sentStall = d.csr.sentStall
             /\ e.ulEP0DataRemain = d.ulEP0DataRemain
             /\ e.pEP0Data = d.pEP0Data
  <1> DEFINE e == StallEP0(d)
             c == [[d.csr EXCEPT !.stall = TRUE] EXCEPT !.rx = None]
  <1>1. d.csr \in CsrType BY DEF Device
  <1>2. None \in Packets BY DEF Packets
  <1>3. /\ c \in CsrType /\ c.stall = TRUE /\ c.rx = None
        /\ c.fifo = d.csr.fifo /\ c.txRdy = d.csr.txRdy
        /\ c.sentStall = d.csr.sentStall
    BY <1>1, <1>2 DEF CsrType
  <1>4. e.csr = c BY DEF StallEP0, Device
  <1>5. /\ e = [e EXCEPT !.csr = c] /\ e.eEP0State = "STALL" /\ SameRest(e, d)
        /\ e.ulEP0DataRemain = d.ulEP0DataRemain /\ e.pEP0Data = d.pEP0Data
    BY DEF StallEP0, Device, SameRest
  <1>6. e \in Device
    BY <1>3, <1>4 DEF StallEP0, Device, States
  <1> QED BY <1>3, <1>4, <1>5, <1>6

\* A device that is about to look at a request.
Fresh(d) ==
  /\ d \in Device /\ d.eEP0State = "IDLE" /\ ~d.pending
  /\ d.faddr = host.address /\ d.ulEP0DataRemain = 0 /\ Free(d)
  /\ ~d.csr.stall /\ ~d.csr.sentStall

\* The first packet of an answer goes out with the request.
LEMMA FirstPacket ==
  ASSUME host \in Host, host.phase = "in", host.got = << >>,
         NEW r, r = host.req, r \in Requests, r.kind \in Plain,
         NEW d, Fresh(d), NEW e \in Device,
         SameRest(e, d), Free(e), e.csr.rx = None,
         e.ulEP0DataRemain = Wanted(r), Points(e, r, 0),
         dev' = IF r.kind = "config" THEN StateTxConfig(e) ELSE StateTx(e),
         host' = host, irq' = {}, latched' = {}
  PROVE  Types' /\ Armed' /\ dev'.ulConfiguration = d.ulConfiguration
  <1>1. e.ulConfiguration = d.ulConfiguration /\ ~e.pending /\ e.faddr = host.address
    BY DEF SameRest, Fresh
  <1>2. PICK k \in Nat : k = 0 OBVIOUS
  <1>3. k = Len(host.got) BY <1>2
  <1>4. host.got = SubSeq(Total(r, e.ulConfiguration), 1, k)
    BY <1>2, SubSeqEmpty
  <1>5. Wanted(r) \in Nat BY DEF Device
  <1>6. \E m \in Nat : k = m * Packet
    <2>1. 0 = 0 * Packet BY EnumAssumption
    <2> QED BY <1>2, <2>1
  <1>7. e.ulEP0DataRemain = Wanted(r) - k /\ k <= Wanted(r) BY <1>2, <1>5
  <1>8. Points(e, r, k) BY <1>2
  <1>9. Types' /\ Armed' /\ dev'.ulConfiguration = e.ulConfiguration
    BY <1>1, <1>3, <1>4, <1>6, <1>7, <1>8, SendOn
  <1> QED BY <1>9, <1>1

\* A configuration the device does not have is asked for.
NotThere(r) == r.kind = "config" /\ r.wValue >= bNumConfigurations

\* USBDGetDescriptor, USBDGetConfiguration and the class's answers.
LEMMA AnswerBegins ==
  ASSUME Tame, host \in Host, host.phase = "in", host.got = << >>,
         NEW r, r = host.req, r \in Requests, r.kind \in Plain, ~NotThere(r),
         NEW d, Fresh(d), d.csr.rx = r,
         dev' = Dispatch(d, r), host' = host, irq' = {}, latched' = {}
  PROVE  Types' /\ Armed' /\ dev'.ulConfiguration = d.ulConfiguration
  <1> DEFINE a == DataAck(d.csr, FALSE)
  <1>0. /\ d \in Device /\ d.csr \in CsrType /\ d.ulConfiguration \in Nat
        /\ ~d.pending /\ Free(d)
    BY DEF Fresh, Device
  <1>1. /\ a \in CsrType /\ a.fifo = d.csr.fifo /\ a.txRdy = d.csr.txRdy
        /\ a.rx = None
    BY <1>0, DataAckDoes
  <1>2. /\ r.kind \in {"config", "getConfiguration", "device", "class"}
        /\ r.wLength \in Nat
    BY Kinds DEF Plain, Answered, Blocks
  <1>3. SizeOf(r) \in Nat BY <1>0, TotalIs DEF Plain
  <1>4. Wanted(r) \in Nat BY <1>2, <1>3 DEF Wanted, Min2
  <1> HIDE DEF a
  <1>5. CASE r.kind = "config"
    <2> DEFINE e == [d EXCEPT !.csr = a, !.pEP0Data = <<"config", 1, 0>>,
                       !.ucConfigSection = 1, !.ucSectionOffset = 0,
                       !.ulEP0DataRemain = Wanted(r)]
    <2>1. Wanted(r) = Min2(ConfigSize, r.wLength) BY <1>5 DEF Wanted, SizeOf
    <2>2. dev' = StateTxConfig(e)
      <3>1. dev' = StateTxConfig([[d EXCEPT !.csr = DataAck(@, FALSE)] EXCEPT
               !.pEP0Data = <<"config", 1, 0>>,
               !.ucConfigSection = 1, !.ucSectionOffset = 0,
               !.ulEP0DataRemain = Min2(ConfigSize, r.wLength)])
        BY <1>5 DEF Dispatch, GetDescriptor, ConfigDescriptor, NotThere
      <3>2. [[d EXCEPT !.csr = DataAck(@, FALSE)] EXCEPT
               !.pEP0Data = <<"config", 1, 0>>,
               !.ucConfigSection = 1, !.ucSectionOffset = 0,
               !.ulEP0DataRemain = Wanted(r)] = e
        BY <1>0 DEF Device, a
      <3> QED BY <2>1, <3>1, <3>2
    <2>3. <<"config", 1, 0>> \in Places BY DEF Places, Marks
    <2>4. e \in Device BY <1>0, <1>1, <1>4, <2>3 DEF Device
    <2>5. SameRest(e, d) BY <1>0 DEF SameRest, Device
    <2>6. e.csr = a /\ e.ulEP0DataRemain = Wanted(r)
          /\ e.ucConfigSection = 1 /\ e.ucSectionOffset = 0
      BY <1>0 DEF Device
    <2>7. Free(e) /\ e.csr.rx = None BY <2>6, <1>1, <1>0 DEF Free
    <2>8. Points(e, r, 0)
      <3>1. SectionStart[1] = 0 /\ 1 \in 1..Len(SectionSizes) + 1
        BY SectionStarts, EnumAssumption DEF Sums
      <3> QED BY <3>1, <2>6, <1>5 DEF Points
    <2> HIDE DEF e
    <2> QED BY <2>2, <2>4, <2>5, <2>6, <2>7, <2>8, <1>5, FirstPacket
  <1>6. CASE r.kind # "config"
    <2> DEFINE p == <<Source(r, d.ulConfiguration), Second(r, d.ulConfiguration), 0>>
               e(x) == [x EXCEPT !.csr = DataAck(x.csr, FALSE), !.pEP0Data = p,
                                 !.ulEP0DataRemain = Wanted(r)]
               y == [d EXCEPT !.ulOUTDataSize = BlockSize["class"]]
    <2>1. \E x \in {d, y} : dev' = StateTx(e(x))
      <3>1. CASE r.kind = "getConfiguration"
        <4>1. Wanted(r) = 1
          <5>1. SizeOf(r) = 1 BY <3>1 DEF SizeOf
          <5>2. r.wLength # 0
            <6>1. SUFFICES ASSUME r.wLength = 0 PROVE FALSE OBVIOUS
            <6>2. Min2(SizeOf(r), r.wLength) = 0 * Packet
              BY <5>1, <6>1, EnumAssumption DEF Min2
            <6>3. r.wLength > SizeOf(r) BY <6>2, FullPackets DEF Plain
            <6> QED BY <6>1, <6>3, <5>1
          <5> QED BY <5>1, <5>2, <1>2 DEF Wanted, Min2
        <4>2. p = <<"value", d.ulConfiguration, 0>> BY <3>1 DEF Source, Second
        <4>3. dev' = SendBlock(d, <<"value", d.ulConfiguration, 0>>, 1)
          BY <3>1, <1>0 DEF Dispatch, GetConfiguration
        <4>4. dev' = SendBlock(d, p, Wanted(r)) BY <4>1, <4>2, <4>3
        <4> QED BY <4>4 DEF SendBlock
      <3>2. CASE r.kind = "device"
        <4>1. Wanted(r) = Min2(BlockSize["device"], r.wLength)
          BY <3>2 DEF Wanted, SizeOf
        <4>2. p = <<"device", 0, 0>> BY <3>2 DEF Source, Second
        <4>3. dev' = SendBlock(d, <<"device", 0, 0>>, Min2(BlockSize["device"], r.wLength))
          BY <3>2 DEF Dispatch, GetDescriptor
        <4>4. dev' = SendBlock(d, p, Wanted(r)) BY <4>1, <4>2, <4>3
        <4> QED BY <4>4 DEF SendBlock
      <3>3. CASE r.kind = "class"
        <4>1. SizeOf(r) = BlockSize["class"] BY <3>3 DEF SizeOf
        <4>2. Wanted(r) = BlockSize["class"]
          BY <4>1, <3>3, <1>2, <1>3 DEF Wanted, Min2, Tame
        <4>3. p = <<"class", 0, 0>> BY <3>3 DEF Source, Second
        <4>4. dev' = SendBlock(y, <<"class", 0, 0>>, BlockSize["class"])
          BY <3>3 DEF Dispatch, ClassIn
        <4>5. dev' = SendBlock(y, p, Wanted(r)) BY <4>2, <4>3, <4>4
        <4> QED BY <4>5 DEF SendBlock
      <3> QED BY <3>1, <3>2, <3>3, <1>2, <1>6
    <2>2. y \in Device /\ SameRest(y, d) /\ y.csr = d.csr
      <3>1. BlockSize["class"] \in Nat BY EnumAssumption DEF Blocks
      <3> QED BY <3>1, <1>0 DEF Device, SameRest
    <2>3. PICK x \in {d, y} : dev' = StateTx(e(x)) BY <2>1
    <2> HIDE DEF y
    <2>4. x \in Device /\ SameRest(x, d) /\ x.csr = d.csr
      BY <2>2, <2>3, <1>0 DEF SameRest
    <2>5. p \in Places
      <3>1. Source(r, d.ulConfiguration) \in Marks
        BY <1>2, <1>6 DEF Source, Marks, Blocks
      <3>2. Second(r, d.ulConfiguration) \in Nat BY <1>0 DEF Second
      <3> QED BY <3>1, <3>2 DEF Places
    <2> HIDE DEF p
    <2>6. e(x) \in Device BY <2>4, <2>5, <1>1, <1>4 DEF Device, a
    <2>7. SameRest(e(x), d) BY <2>4 DEF SameRest, Device
    <2>8. e(x).csr = a /\ e(x).ulEP0DataRemain = Wanted(r) /\ e(x).pEP0Data = p
          /\ e(x).ulConfiguration = d.ulConfiguration
      BY <2>4 DEF SameRest, Device, a
    <2> DEFINE z == e(x)
    <2>9. dev' = StateTx(z) BY <2>3
    <2>10. z \in Device /\ SameRest(z, d) /\ z.csr = a
           /\ z.ulEP0DataRemain = Wanted(r) /\ z.pEP0Data = p
           /\ z.ulConfiguration = d.ulConfiguration
      BY <2>6, <2>7, <2>8
    <2> HIDE DEF z
    <2>11. Free(z) /\ z.csr.rx = None BY <2>10, <1>1, <1>0 DEF Free
    <2>12. Points(z, r, 0) BY <2>10, <1>6 DEF Points, p
    <2> QED BY <2>9, <2>10, <2>11, <2>12, <1>6, FirstPacket
  <1> QED BY <1>5, <1>6

\* A request has been carried out, answered, stalled, or waits for its data.
LEMMA RequestDone ==
  ASSUME Tame, host \in Host, NEW r, r = host.req, r \in Requests,
         host.phase = FirstPhase(r), host.got = << >>, host.sent = 0,
         NEW d, Fresh(d), d.csr.rx = r,
         dev' = Dispatch(d, r), host' = host, irq' = {}, latched' = {}
  PROVE  /\ Types' /\ Stage'
         /\ \/ dev'.ulConfiguration = d.ulConfiguration
            \/ StatusIn' /\ r.kind = "setConfiguration"
  <1> DEFINE a(last) == DataAck(d.csr, last)
  <1>0. /\ d \in Device /\ d.csr \in CsrType /\ d.ulConfiguration \in Nat
        /\ ~d.pending /\ Free(d) /\ d.faddr = host.address
        /\ d.ulEP0DataRemain = 0 /\ d.eEP0State = "IDLE" /\ d.pEP0Data \in Places
        /\ ~d.csr.stall /\ ~d.csr.sentStall
    BY DEF Fresh, Device
  <1>1. \A last \in BOOLEAN :
          /\ a(last) \in CsrType /\ a(last).fifo = d.csr.fifo
          /\ a(last).txRdy = d.csr.txRdy /\ a(last).rx = None
          /\ a(last).dataEnd = last
          /\ a(last).stall = FALSE /\ a(last).sentStall = FALSE
    BY <1>0, DataAckDoes
  <1>2. /\ r.wLength \in Nat /\ r.wValue \in Nat
        /\ r.kind \in {"config", "getConfiguration", "unsupported", "device",
                       "class", "setAddress", "setConfiguration", "classOut",
                       "refused"}
    BY Kinds
  <1> HIDE DEF a
  <1>3. Quiet' BY DEF Quiet
  <1>4. CASE r.kind \in Plain /\ ~NotThere(r)
    <2>1. host.phase = "in" BY <1>4 DEF FirstPhase, Plain
    <2> QED BY <2>1, <1>4, AnswerBegins DEF Stage
  <1>10. ASSUME NEW b, b \in Device, SameRest(b, d), b.csr \in {a(TRUE), a(FALSE)},
                b.ulEP0DataRemain = 0, host.phase # "out"
         PROVE  LET e == StallEP0(b)
                IN  /\ e \in Device /\ SameRest(e, d) /\ e.eEP0State = "STALL"
                    /\ e.csr.stall = TRUE /\ e.csr.rx = None /\ Free(e)
                    /\ e.csr.sentStall = FALSE /\ e.ulEP0DataRemain = 0
    <2> DEFINE e == StallEP0(b)
    <2>1. /\ e \in Device /\ SameRest(e, b)
          /\ e.eEP0State = "STALL" /\ e.csr.stall = TRUE /\ e.csr.rx = None
          /\ e.csr.fifo = b.csr.fifo /\ e.csr.txRdy = b.csr.txRdy
          /\ e.csr.sentStall = b.csr.sentStall
          /\ e.ulEP0DataRemain = b.ulEP0DataRemain
      BY <1>10, StallDoes
    <2>2. SameRest(e, d) BY <1>10, <2>1 DEF SameRest
    <2>3. /\ b.csr.fifo = d.csr.fifo /\ b.csr.txRdy = d.csr.txRdy
          /\ b.csr.sentStall = FALSE
      BY <1>10, <1>1
    <2>4. Free(e) BY <2>1, <2>3, <1>0 DEF Free
    <2> HIDE DEF e
    <2>5. /\ e \in Device /\ SameRest(e, d) /\ e.eEP0State = "STALL"
          /\ e.csr.stall = TRUE /\ e.csr.rx = None /\ Free(e)
          /\ e.csr.sentStall = FALSE /\ e.ulEP0DataRemain = 0
      BY <1>10, <2>1, <2>2, <2>3, <2>4
    <2> QED BY <2>5 DEF e
  <1>11. ASSUME dev' \in Device, SameRest(dev', d), dev'.eEP0State = "STALL",
                dev'.csr.stall = TRUE, dev'.csr.rx = None, Free(dev'),
                dev'.csr.sentStall = FALSE, dev'.ulEP0DataRemain = 0,
                host.phase # "out"
         PROVE  Types' /\ Stage' /\ dev'.ulConfiguration = d.ulConfiguration
    <2>1. Stalled'
      BY <1>11, <1>0, <1>3 DEF Stalled, Rest, Free, Agreed, SameRest
    <2> QED BY <1>11, <2>1 DEF Types, Stage, SameRest
  <1>12. CASE NotThere(r)
    <2> DEFINE b == [d EXCEPT !.csr = a(FALSE)]
               e == StallEP0(b)
    <2>1. dev' = [e EXCEPT !.pEP0Data = Nowhere, !.ulEP0DataRemain = 0]
      BY <1>12 DEF Dispatch, GetDescriptor, ConfigDescriptor, NotThere, a
    <2>2. host.phase = "in" BY <1>12 DEF FirstPhase, Answered, NotThere
    <2>3. /\ b \in Device /\ SameRest(b, d) /\ b.csr = a(FALSE)
          /\ b.ulEP0DataRemain = 0
      BY <1>0, <1>1 DEF Device, SameRest
    <2> HIDE DEF b
    <2>4. /\ e \in Device /\ SameRest(e, d) /\ e.eEP0State = "STALL"
          /\ e.csr.stall = TRUE /\ e.csr.rx = None /\ Free(e)
          /\ e.csr.sentStall = FALSE /\ e.ulEP0DataRemain = 0
      BY <1>10, <2>2, <2>3
    <2> HIDE DEF e
    <2>5. Nowhere \in Places BY DEF Nowhere, Places, Marks
    <2>6. /\ dev' \in Device /\ SameRest(dev', d) /\ dev'.eEP0State = "STALL"
          /\ dev'.csr = e.csr /\ dev'.ulEP0DataRemain = 0
      BY <2>1, <2>4, <2>5 DEF Device, SameRest
    <2> QED BY <2>2, <2>4, <2>6, <1>11 DEF Free
  <1>5. CASE r.kind = "setAddress"
    <2>1. dev' = [d EXCEPT !.csr = a(TRUE), !.eEP0State = "STATUS",
                           !.ulDevAddress = r.wValue, !.pending = TRUE]
      BY <1>5 DEF Dispatch, SetAddress, a
    <2>2. dev' \in Device BY <2>1, <1>0, <1>1, <1>2 DEF Device, States
    <2>3. /\ dev'.csr = a(TRUE) /\ dev'.eEP0State = "STATUS" /\ dev'.pending = TRUE
          /\ dev'.ulDevAddress = r.wValue /\ dev'.faddr = d.faddr
          /\ dev'.ulEP0DataRemain = 0 /\ dev'.ulConfiguration = d.ulConfiguration
      BY <2>1, <1>0 DEF Device
    <2>4. host.phase = "statusIn"
      BY <1>5 DEF FirstPhase, Answered, Blocks
    <2>5. StatusIn'
      BY <2>3, <2>4, <1>0, <1>1, <1>3, <1>5 DEF StatusIn, Rest, Free, Agreed
    <2> QED BY <2>2, <2>3, <2>5 DEF Types, Stage
  <1>13. CASE r.kind = "setConfiguration" /\ r.wValue > bNumConfigurations
    <2> DEFINE b == [d EXCEPT !.csr = a(TRUE)]
    <2>1. dev' = StallEP0(b)
      BY <1>13 DEF Dispatch, SetConfiguration, a
    <2>2. host.phase = "statusIn" BY <1>13 DEF FirstPhase, Answered, Blocks
    <2>3. /\ b \in Device /\ SameRest(b, d) /\ b.csr = a(TRUE)
          /\ b.ulEP0DataRemain = 0
      BY <1>0, <1>1 DEF Device, SameRest
    <2> HIDE DEF b
    <2> QED BY <2>1, <2>2, <2>3, <1>10, <1>11
  <1>6. CASE r.kind = "setConfiguration" /\ ~(r.wValue > bNumConfigurations)
    <2>1. dev' = [d EXCEPT !.csr = a(TRUE), !.ulConfiguration = r.wValue]
      BY <1>6 DEF Dispatch, SetConfiguration, a
    <2>2. dev' \in Device BY <2>1, <1>0, <1>1, <1>2 DEF Device
    <2>3. /\ dev'.csr = a(TRUE) /\ dev'.eEP0State = "IDLE" /\ dev'.pending = d.pending
          /\ dev'.faddr = d.faddr
          /\ dev'.ulEP0DataRemain = 0 /\ dev'.ulConfiguration = r.wValue
      BY <2>1, <1>0 DEF Device
    <2>4. host.phase = "statusIn"
      BY <1>6 DEF FirstPhase, Answered, Blocks
    <2>5. StatusIn'
      BY <2>3, <2>4, <1>0, <1>1, <1>3, <1>6 DEF StatusIn, Rest, Free, Agreed
    <2> QED BY <2>2, <2>5, <1>6 DEF Types, Stage
  <1>7. CASE r.kind = "classOut"
    <2>1. dev' = [d EXCEPT !.eEP0State = "RX", !.pEP0Data = <<"class", 0, 0>>,
            !.ulOUTDataSize = r.wLength, !.ulEP0DataRemain = r.wLength,
            !.received = 0, !.csr = a(FALSE)]
      BY <1>7 DEF Dispatch, ClassOut, a
    <2>2. <<"class", 0, 0>> \in Places BY DEF Places, Marks, Blocks
    <2>3. dev' \in Device BY <2>1, <2>2, <1>0, <1>1, <1>2 DEF Device, States
    <2>4. /\ dev'.csr = a(FALSE) /\ dev'.eEP0State = "RX" /\ dev'.pending = d.pending
          /\ dev'.faddr = d.faddr /\ dev'.ulOUTDataSize = r.wLength
          /\ dev'.ulEP0DataRemain = r.wLength /\ dev'.received = 0
          /\ dev'.ulConfiguration = d.ulConfiguration
      BY <2>1, <1>0 DEF Device
    <2>5. host.phase = "out"
      BY <1>7 DEF FirstPhase, Answered, Blocks
    <2>6. Receiving'
      BY <2>4, <1>0, <1>1, <1>7 DEF Receiving, Smooth, Free, Agreed
    <2>7. OutWait'
      <3>1. 0 <= r.wLength /\ r.wLength = r.wLength - 0 BY <1>2
      <3> QED BY <3>1, <2>4, <2>5, <2>6, <1>1, <1>3 DEF OutWait
    <2> QED BY <2>3, <2>4, <2>7 DEF Types, Stage
  <1>8. CASE r.kind = "refused"
    <2>1. dev' = StallEP0(d) BY <1>8 DEF Dispatch
    <2>2. host.phase = "statusIn"
      BY <1>8 DEF FirstPhase, Answered, Blocks
    <2>3. Stalled'
      BY <2>1, <2>2, <1>0, <1>3, StallDoes DEF Stalled, Rest, Free, Agreed, SameRest
    <2>4. dev' \in Device /\ dev'.ulConfiguration = d.ulConfiguration
      BY <2>1, <1>0, StallDoes DEF SameRest
    <2> QED BY <2>3, <2>4 DEF Types, Stage
  <1>9. CASE r.kind = "unsupported"
    <2> DEFINE b == [d EXCEPT !.csr = a(FALSE)]
               e == StallEP0(b)
               z == [e EXCEPT !.ulEP0DataRemain = Min2(e.ulEP0DataRemain, r.wLength)]
    <2>1. dev' = IF d.pEP0Data = Nowhere THEN e ELSE StateTx(z)
      <3>1. dev' = UnknownDescriptor(d, r) BY <1>9 DEF Dispatch, GetDescriptor
      <3> QED BY <3>1 DEF UnknownDescriptor, a
    <2>4. host.phase = "in" BY <1>9 DEF FirstPhase, Answered
    <2>2. /\ b \in Device /\ SameRest(b, d) /\ b.csr = a(FALSE)
          /\ b.ulEP0DataRemain = 0
      BY <1>0, <1>1 DEF Device, SameRest
    <2> HIDE DEF b
    <2>3. /\ e \in Device /\ SameRest(e, d) /\ e.eEP0State = "STALL"
          /\ e.csr.stall = TRUE /\ e.csr.rx = None /\ Free(e)
          /\ e.csr.sentStall = FALSE /\ e.ulEP0DataRemain = 0
      BY <2>2, <2>4, <1>10
    <2> HIDE DEF e
    <2>5. CASE dev' = e
      <3>1. Stalled'
        BY <2>5, <2>3, <2>4, <1>0, <1>3 DEF Stalled, Rest, Free, Agreed, SameRest
      <3>2. dev' \in Device /\ dev'.ulConfiguration = d.ulConfiguration
        BY <2>5, <2>3 DEF SameRest
      <3> QED BY <3>1, <3>2 DEF Types, Stage
    <2>6. CASE dev' = StateTx(z)
      <3>1. Min2(e.ulEP0DataRemain, r.wLength) = 0
        BY <2>3, <1>2 DEF Min2
      <3>2. /\ z \in Device /\ SameRest(z, d) /\ Free(z) /\ z.csr.rx = None
            /\ z.ulEP0DataRemain = 0 /\ z.pEP0Data \in Places
        BY <2>3, <3>1 DEF Device, SameRest, Free
      <3>3. Min2(z.ulEP0DataRemain, Packet) = 0 /\ 0 # Packet
        BY <3>2, EnumAssumption DEF Min2
      <3> HIDE DEF z
      <3>4. /\ dev' \in Device /\ SameRest(dev', z)
            /\ Sent(dev', z, Bytes(z.pEP0Data, 0), 0)
            /\ dev'.eEP0State = "STATUS"
            /\ dev'.ulEP0DataRemain = 0 - 0
        BY <2>6, <3>2, <3>3, StateTxDoes
      <3>5. Bytes(z.pEP0Data, 0) = << >>
        BY <3>2, BytesAre, EmptySeq
      <3>6. SameRest(dev', d) BY <3>4, <3>2 DEF SameRest
      <3>7. Smooth' BY <3>4, <3>6, <1>0 DEF Smooth, Agreed, Sent, SameRest
      <3>8. Apology'
        BY <3>2, <3>4, <3>5, <3>7, <2>4, <1>3, <1>9 DEF Apology, Sent
      <3> QED BY <3>4, <3>6, <3>8 DEF Types, Stage, SameRest
    <2> QED BY <2>1, <2>5, <2>6
  <1> QED BY <1>2, <1>4, <1>5, <1>6, <1>7, <1>8, <1>9, <1>12, <1>13
           DEF Plain, Answered, Blocks

-----------------------------------------------------------------------------
(* The steps of the handler.                                                *)

\* What the handler makes of a status stage before it looks for a request.
Settled(d) ==
  IF d.eEP0State = "STATUS"
    THEN [d EXCEPT !.eEP0State = "IDLE", !.pending = FALSE,
                   !.faddr = IF d.pending THEN d.ulDevAddress ELSE d.faddr]
    ELSE d

LEMMA SettledIs ==
  ASSUME NEW d \in Device, d.eEP0State \in {"IDLE", "STATUS"},
         d.eEP0State = "IDLE" => ~d.pending
  PROVE  LET f == Settled(d)
         IN  /\ f \in Device /\ f.eEP0State = "IDLE" /\ f.pending = FALSE
             /\ f.faddr = (IF d.pending THEN d.ulDevAddress ELSE d.faddr)
             /\ f.csr = d.csr /\ f.ulEP0DataRemain = d.ulEP0DataRemain
             /\ f.ulConfiguration = d.ulConfiguration
             /\ EnumHandler(d) = Dispatch(f, d.csr.rx)
             /\ d.csr.rx = None => EnumHandler(d) = f
  <1> DEFINE f == Settled(d)
  <1>1. f \in Device BY DEF Settled, Device, States
  <1>2. /\ f.eEP0State = "IDLE" /\ f.pending = FALSE
        /\ f.faddr = (IF d.pending THEN d.ulDevAddress ELSE d.faddr)
        /\ f.csr = d.csr /\ f.ulEP0DataRemain = d.ulEP0DataRemain
        /\ f.ulConfiguration = d.ulConfiguration
    BY DEF Settled, Device
  <1>3. EnumHandler(d) = Dispatch(f, d.csr.rx)
    BY DEF EnumHandler, StateStatus, ReadAndDispatchRequest, Settled
  <1>4. d.csr.rx = None => Dispatch(f, d.csr.rx) = f
    BY DEF Dispatch, None
  <1> QED BY <1>1, <1>2, <1>3, <1>4

\* A bus reset changes the configuration and nothing else.
LEMMA ResetHandlerIs ==
  ASSUME NEW d \in Device
  PROVE  LET e == ResetHandler(d)
         IN  /\ e \in Device /\ e.eEP0State = d.eEP0State
             /\ e.pending = d.pending /\ e.faddr = d.faddr
             /\ e.ulDevAddress = d.ulDevAddress
             /\ e.csr = d.csr /\ e.ulEP0DataRemain = d.ulEP0DataRemain
  BY DEF ResetHandler, Device

\* The next packet from the host.
LEMMA StateRxDoes ==
  ASSUME NEW d \in Device, d.eEP0State = "RX"
  PROVE  LET e == StateRx(d)
             last == d.ulEP0DataRemain <= Packet
         IN  /\ e \in Device /\ EnumHandler(d) = e
             /\ e.csr.fifo = d.csr.fifo /\ e.csr.txRdy = d.csr.txRdy
             /\ e.csr.dataEnd = last
             /\ e.csr.stall = FALSE /\ e.csr.sentStall = FALSE
             /\ e.csr.rx = None
             /\ e.eEP0State = IF last THEN "IDLE" ELSE "RX"
             /\ e.ulEP0DataRemain = IF last THEN 0 ELSE d.ulEP0DataRemain - Packet
             /\ e.received =
                  IF last THEN d.received + d.ulOUTDataSize ELSE d.received
             /\ ~last => e.ulOUTDataSize = d.ulOUTDataSize
             /\ e.pending = d.pending /\ e.faddr = d.faddr
             /\ e.ulConfiguration = d.ulConfiguration
  <1> DEFINE e == StateRx(d)
             last == d.ulEP0DataRemain <= Packet
             n == Min2(d.ulEP0DataRemain, Packet)
             c == DataAck(d.csr, last)
  <1>1. /\ d.csr \in CsrType /\ d.pEP0Data \in Places
        /\ d.ulEP0DataRemain \in Nat /\ d.ulOUTDataSize \in Nat
        /\ d.received \in Nat
    BY DEF Device
  <1>2. /\ n \in Nat /\ d.ulEP0DataRemain - n \in Nat
        /\ d.ulEP0DataRemain - n =
             (IF last THEN 0 ELSE d.ulEP0DataRemain - Packet)
    BY <1>1, EnumAssumption DEF Min2
  <1>3. last \in BOOLEAN OBVIOUS
  <1> HIDE DEF n
  <1>4. Advanced(d.pEP0Data, n) \in Places BY <1>1, <1>2, BytesAre
  <1>5. e = [d EXCEPT
        !.csr = c,
        !.pEP0Data = Advanced(d.pEP0Data, n),
        !.ulEP0DataRemain = d.ulEP0DataRemain - n,
        !.eEP0State = IF last THEN "IDLE" ELSE d.eEP0State,
        !.received = IF last THEN d.received + d.ulOUTDataSize ELSE d.received,
        !.ulOUTDataSize = IF last THEN 0 ELSE d.ulOUTDataSize]
    BY DEF StateRx, n
  <1> HIDE DEF last
  <1>6. /\ c \in CsrType /\ c.fifo = d.csr.fifo /\ c.txRdy = d.csr.txRdy
        /\ c.dataEnd = last
        /\ c.stall = FALSE /\ c.sentStall = FALSE /\ c.rx = None
    BY <1>1, <1>3, DataAckDoes
  <1> DEFINE state == IF last THEN "IDLE" ELSE d.eEP0State
             got == IF last THEN d.received + d.ulOUTDataSize ELSE d.received
             size == IF last THEN 0 ELSE d.ulOUTDataSize
  <1>a. state \in States /\ got \in Nat /\ size \in Nat BY <1>1 DEF States
  <1>b. e = [d EXCEPT !.csr = c, !.pEP0Data = Advanced(d.pEP0Data, n),
                      !.ulEP0DataRemain = d.ulEP0DataRemain - n,
                      !.eEP0State = state, !.received = got,
                      !.ulOUTDataSize = size]
    BY <1>5
  <1> HIDE DEF e, c, state, got, size
  <1>7. e \in Device BY <1>a, <1>b, <1>2, <1>4, <1>6 DEF Device
  <1>8. /\ e.csr = c /\ e.eEP0State = IF last THEN "IDLE" ELSE "RX"
        /\ e.ulEP0DataRemain = d.ulEP0DataRemain - n
        /\ e.received = IF last THEN d.received + d.ulOUTDataSize ELSE d.received
        /\ ~last => e.ulOUTDataSize = d.ulOUTDataSize
        /\ e.pending = d.pending /\ e.faddr = d.faddr
        /\ e.ulConfiguration = d.ulConfiguration
    BY <1>b DEF Device, state, got, size
  <1>9. EnumHandler(d) = e BY DEF EnumHandler, e
  <1> QED BY <1>2, <1>6, <1>7, <1>8, <1>9 DEF e, last, n

\* A packet of an answer has been taken: the next one is armed.
LEMMA GoesOn ==
  ASSUME Tame, Types, Taken, "ep0" \in latched,
         dev' = EnumHandler(dev), latched' = {}, irq' = irq, host' = host
  PROVE  Types' /\ Armed' /\ dev'.ulConfiguration = dev.ulConfiguration
  <1>1. /\ dev \in Device /\ host \in Host /\ host.phase = "in"
        /\ host.req \in Requests /\ host.req.kind \in Plain
        /\ Free(dev) /\ dev.csr.rx = None /\ ~dev.pending
        /\ dev.faddr = host.address /\ irq = {} /\ Ahead(Len(host.got))
    BY DEF Types, Taken, Answering, Smooth, Agreed, OneDue
  <1>2. host.got \in Seq(Places) BY <1>1 DEF Host
  <1>3. Gone = host.got BY <1>1, <1>2, ConcatEmptySeq DEF Gone, Free
  <1>4. /\ Len(host.got) <= Wanted(host.req)
        /\ host.got = SubSeq(Total(host.req, dev.ulConfiguration), 1, Len(host.got))
        /\ dev.ulEP0DataRemain = Wanted(host.req) - Len(host.got)
        /\ \E m \in Nat : Len(host.got) = m * Packet
    BY <1>3 DEF Taken, Answering
  <1>6. Len(host.got) \in Nat BY <1>2, LenProperties
  <1>7. /\ Points(dev, host.req, Len(host.got))
        /\ dev.eEP0State = IF host.req.kind = "config" THEN "TX_CONFIG" ELSE "TX"
    BY <1>1 DEF Ahead
  <1>8. dev' = IF host.req.kind = "config" THEN StateTxConfig(dev) ELSE StateTx(dev)
    BY <1>7 DEF EnumHandler
  <1>9. irq' = {} BY <1>1
  <1> QED BY <1>1, <1>4, <1>6, <1>7, <1>8, <1>9, SendOn

\* A packet of the host's data is read: there are more, or the client is called.
LEMMA Receives ==
  ASSUME Types, OutPacket, "ep0" \in latched,
         dev' = EnumHandler(dev), latched' = {}, irq' = irq, host' = host
  PROVE  /\ Types' /\ (OutWait' \/ StatusIn')
         /\ dev'.ulConfiguration = dev.ulConfiguration
  <1>1. /\ dev \in Device /\ host \in Host
        /\ host.req \in Requests /\ host.req.kind = "classOut"
        /\ dev.eEP0State = "RX" /\ Smooth /\ Free(dev)
        /\ dev.ulOUTDataSize = host.req.wLength /\ dev.received = 0
        /\ irq = {} /\ ~dev.pending /\ Agreed
    BY DEF Types, OutPacket, Receiving, OneDue, Smooth
  <1>2. /\ host.req.wLength \in Nat /\ host.sent \in Nat
        /\ dev.ulEP0DataRemain \in Nat /\ Packet \in Nat \ {0}
    BY <1>1, Kinds, EnumAssumption DEF Device, Host
  <1>3. Quiet' BY <1>1 DEF Quiet
  <1> DEFINE last == dev.ulEP0DataRemain <= Packet
  <1>4. /\ dev' \in Device
        /\ dev'.csr.fifo = dev.csr.fifo /\ dev'.csr.txRdy = dev.csr.txRdy
        /\ dev'.csr.dataEnd = last
        /\ dev'.csr.stall = FALSE /\ dev'.csr.sentStall = FALSE
        /\ dev'.csr.rx = None
        /\ dev'.eEP0State = (IF last THEN "IDLE" ELSE "RX")
        /\ dev'.ulEP0DataRemain = (IF last THEN 0 ELSE dev.ulEP0DataRemain - Packet)
        /\ dev'.received =
             (IF last THEN dev.received + dev.ulOUTDataSize ELSE dev.received)
        /\ ~last => dev'.ulOUTDataSize = dev.ulOUTDataSize
        /\ dev'.pending = dev.pending /\ dev'.faddr = dev.faddr
        /\ dev'.ulConfiguration = dev.ulConfiguration
    <2> DEFINE e == StateRx(dev)
    <2>1. dev' = e BY <1>1 DEF EnumHandler
    <2>2. /\ e \in Device
          /\ e.csr.fifo = dev.csr.fifo /\ e.csr.txRdy = dev.csr.txRdy
          /\ e.csr.dataEnd = last
          /\ e.csr.stall = FALSE /\ e.csr.sentStall = FALSE
          /\ e.csr.rx = None
          /\ e.eEP0State = (IF last THEN "IDLE" ELSE "RX")
          /\ e.ulEP0DataRemain = (IF last THEN 0 ELSE dev.ulEP0DataRemain - Packet)
          /\ e.received =
               (IF last THEN dev.received + dev.ulOUTDataSize ELSE dev.received)
          /\ ~last => e.ulOUTDataSize = dev.ulOUTDataSize
          /\ e.pending = dev.pending /\ e.faddr = dev.faddr
          /\ e.ulConfiguration = dev.ulConfiguration
      BY <1>1, StateRxDoes
    <2> HIDE DEF e
    <2> QED BY <2>1, <2>2
  <1>5. Types' BY <1>4 DEF Types
  <1>6. CASE host.phase = "out"
    <2>1. /\ host.sent < host.req.wLength
          /\ dev.ulEP0DataRemain = host.req.wLength - host.sent + Packet
      BY <1>6 DEF OutPacket
    <2>2. ~last /\ dev.ulEP0DataRemain - Packet = host.req.wLength - host.sent
      BY <2>1, <1>2
    <2>3. Receiving'
      BY <1>1, <1>4, <2>2 DEF Receiving, Smooth, Free, Agreed
    <2>4. OutWait' BY <1>3, <1>4, <1>6, <2>1, <2>2, <2>3, <1>2 DEF OutWait
    <2> QED BY <1>4, <1>5, <2>4
  <1>7. CASE host.phase # "out"
    <2>1. last /\ host.phase = "statusIn" BY <1>7 DEF OutPacket
    <2>2. dev'.received = host.req.wLength BY <2>1, <1>1, <1>2, <1>4
    <2>3. StatusIn'
      BY <1>1, <1>3, <1>4, <2>1, <2>2 DEF StatusIn, Rest, Free, Agreed
    <2> QED BY <1>4, <1>5, <2>3
  <1> QED BY <1>6, <1>7

\* The handler in each stage; d is the device after a reset has been handled.
LEMMA HandlerStage ==
  ASSUME Tame, Types, Stage, RunHandler,
         NEW d, d = IF "reset" \in latched THEN ResetHandler(dev) ELSE dev,
         dev' = IF "ep0" \in latched THEN EnumHandler(d) ELSE d
  PROVE  /\ Types' /\ Stage'
         /\ \/ dev'.ulConfiguration = d.ulConfiguration
            \/ StatusIn' /\ host.req.kind = "setConfiguration"
  <1>1. /\ dev \in Device /\ host \in Host /\ latched' = {} /\ irq' = irq
        /\ host' = host /\ latched # {} /\ latched \subseteq {"reset", "ep0"}
        /\ irq \subseteq {"reset", "ep0"}
    BY DEF Types, RunHandler
  <1>2. /\ d \in Device /\ d.eEP0State = dev.eEP0State
        /\ d.pending = dev.pending /\ d.faddr = dev.faddr
        /\ d.ulDevAddress = dev.ulDevAddress
        /\ d.csr = dev.csr /\ d.ulEP0DataRemain = dev.ulEP0DataRemain
    BY <1>1, ResetHandlerIs
  <1>3. NoReset => d = dev BY <1>1 DEF NoReset
  <1>4. ~Quiet BY <1>1 DEF Quiet
  <1>5. OneDue => irq = {} /\ latched = {"ep0"} BY <1>1 DEF OneDue
  <1>6. CASE Idle
    <2>1. CASE "ep0" \notin latched
      <3>1. ~OneDue /\ ~NoReset BY <2>1, <1>1, <1>5 DEF NoReset
      <3>2. dev' = d BY <2>1
      <3>3. Idle' BY <3>1, <3>2, <1>1, <1>2, <1>6 DEF Idle, Smooth, Agreed, Free
      <3> QED BY <3>2, <3>3, <1>1, <1>2 DEF Types, Stage
    <2>2. CASE "ep0" \in latched /\ dev.eEP0State # "STALL"
      <3>1. /\ d.eEP0State \in {"IDLE", "STATUS"} /\ d.csr.rx = None
            /\ d.eEP0State = "IDLE" => ~d.pending
            /\ dev.pending => dev.ulDevAddress = host.address
            /\ ~dev.pending => dev.faddr = host.address
            /\ ~dev.csr.stall /\ ~dev.csr.sentStall
        BY <2>2, <1>2, <1>6 DEF Idle, Smooth, Agreed
      <3> DEFINE f == Settled(d)
      <3>2. /\ f \in Device /\ f.eEP0State = "IDLE" /\ f.pending = FALSE
            /\ f.faddr = (IF d.pending THEN d.ulDevAddress ELSE d.faddr)
            /\ f.csr = d.csr /\ f.ulEP0DataRemain = d.ulEP0DataRemain
            /\ f.ulConfiguration = d.ulConfiguration
            /\ EnumHandler(d) = f
        BY <3>1, <1>2, SettledIs
      <3> HIDE DEF f
      <3>3. dev' = f BY <2>2, <3>2
      <3>4. f.faddr = host.address BY <3>1, <3>2, <1>2
      <3>5. Smooth' BY <3>1, <3>2, <3>3, <3>4, <1>1, <1>2 DEF Smooth, Agreed
      <3>6. Idle'
        BY <3>2, <3>3, <3>5, <1>1, <1>2, <1>6 DEF Idle, Free
      <3> QED BY <3>2, <3>3, <3>6, <1>1 DEF Types, Stage
    <2>3. CASE "ep0" \in latched /\ dev.eEP0State = "STALL"
      <3>1. /\ dev.csr.sentStall /\ ~dev.pending /\ Agreed /\ NoReset
            /\ d = dev /\ dev.csr.rx = None /\ dev.ulEP0DataRemain = 0
            /\ Free(dev) /\ ~dev.csr.stall /\ host.phase = "idle"
        BY <2>3, <1>3, <1>6 DEF Idle
      <3>2. dev' = [dev EXCEPT !.csr.sentStall = FALSE, !.eEP0State = "IDLE"]
        BY <2>3, <3>1 DEF EnumHandler, StateStall
      <3> DEFINE c == [dev.csr EXCEPT !.sentStall = FALSE]
      <3>3. dev.csr \in CsrType BY <1>1 DEF Device
      <3>4. /\ c \in CsrType /\ c.sentStall = FALSE /\ c.stall = dev.csr.stall
            /\ c.fifo = dev.csr.fifo /\ c.txRdy = dev.csr.txRdy /\ c.rx = dev.csr.rx
        BY <3>3 DEF CsrType
      <3>5. dev' = [dev EXCEPT !.csr = c, !.eEP0State = "IDLE"] BY <3>2
      <3> HIDE DEF c
      <3>6. dev' \in Device BY <3>4, <3>5, <1>1 DEF Device, States
      <3>7. /\ dev'.csr = c /\ dev'.eEP0State = "IDLE"
            /\ dev'.pending = dev.pending /\ dev'.faddr = dev.faddr
            /\ dev'.ulEP0DataRemain = dev.ulEP0DataRemain
            /\ dev'.ulConfiguration = dev.ulConfiguration
        BY <3>5, <1>1 DEF Device
      <3>8. Smooth' BY <3>1, <3>4, <3>7, <1>1 DEF Smooth, Agreed
      <3>9. Idle' BY <3>1, <3>4, <3>7, <3>8, <1>1 DEF Idle, Free
      <3> QED BY <3>1, <3>6, <3>7, <3>9, <1>1 DEF Types, Stage
    <2> QED BY <2>1, <2>2, <2>3
  <1>7. CASE Setup
    <2>1. /\ host.req \in Requests /\ d.csr.rx = host.req
          /\ host.phase = FirstPhase(host.req)
          /\ host.got = << >> /\ host.sent = 0
          /\ d.ulEP0DataRemain = 0 /\ Free(d) /\ ~d.csr.sentStall /\ ~d.csr.stall
          /\ d.faddr = host.address /\ d.eEP0State \in {"IDLE", "STATUS"}
          /\ d.pending => d.eEP0State = "STATUS" /\ d.ulDevAddress = host.address
      BY <1>2, <1>7 DEF Setup, Rest, Agreed, Free
    <2>2. CASE "ep0" \notin latched
      <3>1. dev' = d BY <2>2
      <3>2. latched' = {} /\ "ep0" \in irq' BY <2>2, <1>1, <1>7 DEF Setup
      <3>3. Setup'
        BY <3>1, <3>2, <2>1, <1>1 DEF Setup, Rest, Agreed, Free
      <3> QED BY <3>1, <3>3, <1>1, <1>2 DEF Types, Stage
    <2>3. CASE "ep0" \in latched
      <3>1. irq' = {} BY <2>3, <1>1, <1>7 DEF Setup
      <3> DEFINE f == Settled(d)
      <3>2. /\ f \in Device /\ f.eEP0State = "IDLE" /\ f.pending = FALSE
            /\ f.faddr = (IF d.pending THEN d.ulDevAddress ELSE d.faddr)
            /\ f.csr = d.csr /\ f.ulEP0DataRemain = d.ulEP0DataRemain
            /\ f.ulConfiguration = d.ulConfiguration
            /\ EnumHandler(d) = Dispatch(f, d.csr.rx)
        BY <2>1, <1>2, SettledIs
      <3> HIDE DEF f
      <3>3. Fresh(f) /\ f.csr.rx = host.req BY <3>2, <2>1 DEF Fresh, Free
      <3>4. dev' = Dispatch(f, host.req) BY <3>2, <2>1, <2>3
      <3>5. /\ Types' /\ Stage'
            /\ \/ dev'.ulConfiguration = f.ulConfiguration
               \/ StatusIn' /\ host.req.kind = "setConfiguration"
        BY <3>1, <3>3, <3>4, <2>1, <1>1, RequestDone
      <3> QED BY <3>5, <3>2
    <2> QED BY <2>2, <2>3
  <1>8. CASE Taken
    <2>1. OneDue BY <1>8 DEF Taken
    <2>2. d = dev /\ "ep0" \in latched BY <2>1, <1>3, <1>5 DEF NoReset
    <2>3. dev' = EnumHandler(dev) BY <2>2
    <2>4. Types' /\ Armed' /\ dev'.ulConfiguration = dev.ulConfiguration
      BY <2>2, <2>3, <1>1, <1>8, GoesOn
    <2> QED BY <2>2, <2>4 DEF Stage
  <1>9. CASE OutPacket
    <2>1. OneDue BY <1>9 DEF OutPacket
    <2>2. d = dev /\ "ep0" \in latched BY <2>1, <1>3, <1>5 DEF NoReset
    <2>3. dev' = EnumHandler(dev) BY <2>2
    <2>4. /\ Types' /\ (OutWait' \/ StatusIn')
          /\ dev'.ulConfiguration = dev.ulConfiguration
      BY <2>2, <2>3, <1>1, <1>9, Receives
    <2> QED BY <2>2, <2>4 DEF Stage
  <1>10. CASE StatusOut
    <2>1. /\ NoReset /\ d = dev /\ dev.csr.rx = None
          /\ dev.eEP0State \in {"IDLE", "STATUS"} /\ Smooth /\ Rest
      BY <1>3, <1>10 DEF StatusOut
    <2>2. "ep0" \in latched BY <2>1, <1>1 DEF NoReset
    <2> DEFINE f == Settled(dev)
    <2>3. /\ f \in Device /\ f.eEP0State = "IDLE" /\ f.pending = FALSE
          /\ f.faddr = (IF dev.pending THEN dev.ulDevAddress ELSE dev.faddr)
          /\ f.csr = dev.csr /\ f.ulEP0DataRemain = dev.ulEP0DataRemain
          /\ f.ulConfiguration = dev.ulConfiguration
          /\ EnumHandler(dev) = f
      BY <2>1, <1>1, SettledIs DEF Smooth
    <2> HIDE DEF f
    <2>4. dev' = f BY <2>1, <2>2, <2>3
    <2>5. Smooth' BY <2>1, <2>3, <2>4, <1>1 DEF Smooth, Agreed
    <2>6. Rest' BY <2>1, <2>3, <2>4 DEF Rest, Free
    <2>7. NoReset' BY <2>1, <1>1 DEF NoReset
    <2>8. StatusOut'
      BY <2>3, <2>4, <2>5, <2>6, <2>7, <1>1, <1>10 DEF StatusOut
    <2> QED BY <2>1, <2>3, <2>4, <2>8, <1>1 DEF Types, Stage
  <1> QED
    BY <1>4, <1>6, <1>7, <1>8, <1>9, <1>10
    DEF Stage, Armed, Apology, Stalled, OutWait, StatusIn

LEMMA RunHandlerStep ==
  ASSUME Tame, IInv, RunHandler
  PROVE  IInv'
  <1>1. PICK d : /\ d = IF "reset" \in latched THEN ResetHandler(dev) ELSE dev
                 /\ dev' = IF "ep0" \in latched THEN EnumHandler(d) ELSE d
    BY DEF RunHandler
  <1>2. /\ latched' = {} /\ irq' = irq /\ host' = host /\ latched # {}
        /\ latched \subseteq {"reset", "ep0"}
    BY DEF RunHandler, IInv, Types
  <1>3. /\ Types' /\ Stage'
        /\ \/ dev'.ulConfiguration = d.ulConfiguration
           \/ StatusIn' /\ host.req.kind = "setConfiguration"
    BY <1>1, HandlerStage DEF IInv
  <1>4. Configured'
    <2>1. SUFFICES ASSUME host.configuration # 0
                   PROVE  /\ NoReset'
                          /\ \/ dev'.ulConfiguration = host.configuration
                             \/ StatusIn' /\ host.req.kind = "setConfiguration"
      BY <1>2 DEF Configured
    <2>2. NoReset /\ ~StatusIn
      BY <2>1, <1>2 DEF IInv, Configured, StatusIn, Quiet
    <2>3. dev.ulConfiguration = host.configuration
      BY <2>1, <2>2 DEF IInv, Configured
    <2>4. d = dev /\ NoReset' BY <2>2, <1>1, <1>2 DEF NoReset
    <2> QED BY <2>3, <2>4, <1>3
  <1> QED BY <1>3, <1>4 DEF IInv

LEMMA EnterHandlerStep ==
  ASSUME IInv, EnterHandler
  PROVE  IInv'
  <1>1. /\ latched = {} /\ irq # {} /\ latched' = irq /\ irq' = {}
        /\ dev' = dev /\ host' = host /\ irq \subseteq {"reset", "ep0"}
    BY DEF EnterHandler, IInv, Types
  <1>2. Types' BY <1>1 DEF IInv, Types
  <1>3. ~Quiet BY <1>1 DEF Quiet
  <1>4. NoReset => NoReset' BY <1>1 DEF NoReset
  <1>5. OneDue => OneDue' BY <1>1 DEF OneDue
  <1>6. Smooth => Smooth' BY <1>1 DEF Smooth, Agreed
  <1>7. Stage'
    <2>1. Idle => Idle'
      BY <1>1, <1>4, <1>5, <1>6 DEF Idle, Agreed, Free
    <2>2. Setup => Setup'
      BY <1>1 DEF Setup, Rest, Agreed, Free, FirstPhase
    <2>3. Taken => Taken'
      BY <1>1, <1>5 DEF Taken, Answering, Gone, Smooth, Agreed, Ahead, Points, Free
    <2>4. StatusOut => StatusOut'
      BY <1>1, <1>4, <1>6 DEF StatusOut, Rest, Free
    <2>5. OutPacket => OutPacket'
      BY <1>1, <1>5, <1>6 DEF OutPacket, Receiving, Free
    <2> QED
      BY <1>3, <2>1, <2>2, <2>3, <2>4, <2>5
      DEF IInv, Stage, Armed, Apology, Stalled, OutWait, StatusIn
  <1>8. Configured'
    BY <1>1, <1>3, <1>4 DEF IInv, Configured, StatusIn
  <1> QED BY <1>2, <1>7, <1>8 DEF IInv

-----------------------------------------------------------------------------
(* The steps of the host.                                                   *)

LEMMA SendSetupStep ==
  ASSUME Tame, IInv, NEW r \in Requests, SendSetup(r)
  PROVE  IInv'
  <1> DEFINE c == [dev.csr EXCEPT !.rx = r]
  <1>1. /\ dev \in Device /\ host \in Host /\ dev.csr \in CsrType
        /\ host.phase = "idle" /\ Agreed /\ latched = {} /\ ~dev.csr.sentStall
        /\ dev' = [dev EXCEPT !.csr = c]
        /\ irq' = irq \cup {"ep0"} /\ latched' = {}
        /\ irq \subseteq {"reset", "ep0"}
    BY DEF SendSetup, Tame, IInv, Types, Device, Heard, Agreed, Interrupt
  <1>2. /\ host' \in Host /\ host'.req = r /\ host'.phase = FirstPhase(r)
        /\ host'.got = << >> /\ host'.sent = 0
        /\ host'.address = host.address
        /\ host'.configuration = host.configuration
    <2> DEFINE phase == CASE r.kind \in Answered -> "in"
                          [] r.kind = "classOut" -> "out"
                          [] OTHER -> "statusIn"
    <2>1. phase = FirstPhase(r) BY DEF FirstPhase, Answered, Blocks
    <2>2. phase \in {"in", "out", "statusIn"} BY <2>1 DEF FirstPhase
    <2>3. host' = [host EXCEPT !.phase = phase, !.req = r, !.got = << >>,
                               !.sent = 0, !.result = "none"]
      BY DEF SendSetup
    <2>4. << >> \in Seq(Places) OBVIOUS
    <2> HIDE DEF phase
    <2> QED BY <2>1, <2>2, <2>3, <2>4, <1>1 DEF Host
  <1>3. /\ c \in CsrType /\ c.rx = r
        /\ c.fifo = dev.csr.fifo /\ c.txRdy = dev.csr.txRdy
        /\ c.stall = dev.csr.stall /\ c.sentStall = dev.csr.sentStall
    <2>1. r \in Packets BY DEF Packets
    <2> QED BY <2>1, <1>1 DEF CsrType
  <1> HIDE DEF c
  <1>4. /\ dev' \in Device /\ dev'.csr = c /\ dev'.eEP0State = dev.eEP0State
        /\ dev'.pending = dev.pending /\ dev'.faddr = dev.faddr
        /\ dev'.ulDevAddress = dev.ulDevAddress
        /\ dev'.ulEP0DataRemain = dev.ulEP0DataRemain
        /\ dev'.ulConfiguration = dev.ulConfiguration
    BY <1>1, <1>3 DEF Device
  <1>5. Idle
    BY <1>1 DEF IInv, Stage, Setup, FirstPhase, Armed, Taken, Answering, Apology,
                Stalled, StatusOut, OutWait, OutPacket, StatusIn
  <1>6. Setup'
    BY <1>1, <1>2, <1>3, <1>4, <1>5
    DEF Setup, Idle, Rest, Free, Agreed, Smooth
  <1>7. Configured'
    <2>1. ~StatusIn BY <1>1 DEF StatusIn
    <2>2. NoReset => NoReset' BY <1>1 DEF NoReset
    <2> QED BY <2>1, <2>2, <1>2, <1>4 DEF IInv, Configured
  <1>8. Types' BY <1>1, <1>2, <1>4 DEF Types
  <1> QED BY <1>6, <1>7, <1>8 DEF IInv, Stage

LEMMA TakeInStep ==
  ASSUME IInv, TakeIn
  PROVE  IInv'
  <1> DEFINE c == [dev.csr EXCEPT !.txRdy = FALSE, !.fifo = << >>]
             over == \/ Len(dev.csr.fifo) < Packet
                     \/ Len(Gone) >= host.req.wLength
  <1>1. /\ dev \in Device /\ host \in Host /\ dev.csr \in CsrType
        /\ host.got \in Seq(Places) /\ dev.csr.fifo \in Seq(Places)
        /\ host.phase = "in" /\ dev.csr.txRdy
        /\ dev' = [dev EXCEPT !.csr = c]
        /\ host' = [host EXCEPT !.got = Gone,
                                !.phase = IF over THEN "statusOut" ELSE "in"]
        /\ irq' = irq \cup {"ep0"} /\ latched' = latched
    BY DEF TakeIn, IInv, Types, Device, Host, CsrType, Interrupt, Gone
  <1>2. Armed \/ Apology
    BY <1>1 DEF IInv, Stage, Idle, Setup, Rest, Free, Taken,
                Stalled, StatusOut, OutWait, OutPacket, Receiving, StatusIn
  <1>3. Quiet /\ Smooth /\ host.req \in Requests /\ dev.csr.rx = None
    BY <1>2 DEF Armed, Answering, Apology
  <1>4. irq' = {"ep0"} /\ latched' = {} BY <1>1, <1>3 DEF Quiet
  <1>5. OneDue' /\ NoReset' BY <1>4 DEF OneDue, NoReset
  <1>6. /\ c \in CsrType /\ c.rx = dev.csr.rx /\ c.fifo = << >> /\ c.txRdy = FALSE
        /\ c.stall = dev.csr.stall /\ c.sentStall = dev.csr.sentStall
    <2>1. << >> \in Seq(Places) OBVIOUS
    <2> QED BY <2>1, <1>1 DEF CsrType
  <1> HIDE DEF c
  <1>7. /\ dev' \in Device /\ dev'.csr = c /\ dev'.eEP0State = dev.eEP0State
        /\ dev'.pending = dev.pending /\ dev'.faddr = dev.faddr
        /\ dev'.ulEP0DataRemain = dev.ulEP0DataRemain
        /\ dev'.pEP0Data = dev.pEP0Data
        /\ dev'.ucConfigSection = dev.ucConfigSection
        /\ dev'.ucSectionOffset = dev.ucSectionOffset
        /\ dev'.ulConfiguration = dev.ulConfiguration
    BY <1>1, <1>6 DEF Device
  <1>8. Gone \in Seq(Places) /\ Len(Gone) = Len(host.got) + Len(dev.csr.fifo)
    BY <1>1, ConcatProperties DEF Gone
  <1> HIDE DEF over
  <1>9. /\ host' \in Host /\ host'.got = Gone /\ host'.req = host.req
        /\ host'.phase = (IF over THEN "statusOut" ELSE "in")
        /\ host'.address = host.address
        /\ host'.configuration = host.configuration
    BY <1>1, <1>8 DEF Host
  <1>10. Types' BY <1>4, <1>7, <1>9 DEF Types
  <1>11. Smooth' BY <1>3, <1>6, <1>7, <1>9 DEF Smooth, Agreed
  <1>12. Free(dev)' BY <1>6, <1>7 DEF Free
  <1>13. Configured'
    <2>1. ~StatusIn BY <1>1 DEF StatusIn
    <2> QED BY <2>1, <1>5, <1>7, <1>9 DEF IInv, Configured
  <1>14. Packet \in Nat \ {0} /\ host.req.wLength \in Nat
    BY <1>3, Kinds, EnumAssumption
  <1>15. CASE Apology
    <2>1. /\ host.req.kind = "unsupported" /\ dev.csr.fifo = << >>
          /\ dev.eEP0State = "STATUS" /\ dev.ulEP0DataRemain = 0
      BY <1>15 DEF Apology
    <2>2. over BY <2>1, <1>14 DEF over
    <2>3. Rest' BY <2>1, <1>11, <1>12, <1>7 DEF Rest, Smooth
    <2>4. StatusOut'
      BY <2>1, <2>2, <2>3, <1>3, <1>5, <1>6, <1>7, <1>9, <1>11
      DEF StatusOut, Answered, Plain
    <2> QED BY <2>4, <1>10, <1>13 DEF IInv, Stage
  <1>16. CASE Armed
    <2>1. /\ Answering /\ Len(dev.csr.fifo) <= Packet
          /\ host.req.kind \in Plain
          /\ Len(Gone) <= Wanted(host.req)
          /\ Gone = SubSeq(Total(host.req, dev.ulConfiguration), 1, Len(Gone))
          /\ dev.ulEP0DataRemain = Wanted(host.req) - Len(Gone)
      BY <1>16 DEF Armed, Answering
    <2>2. PICK m \in Nat : Len(host.got) = m * Packet
      BY <2>1 DEF Answering
    <2>3. dev.ulConfiguration \in Nat BY <1>1 DEF Device
    <2>4. /\ SizeOf(host.req) \in Nat
          /\ Expected(host.req, dev.ulConfiguration)
               = SubSeq(Total(host.req, dev.ulConfiguration), 1,
                        Min2(SizeOf(host.req), host.req.wLength))
      BY <2>1, <2>3, <1>3, TotalIs DEF Plain
    <2>5. Len(Gone) \in Nat /\ Len(dev.csr.fifo) \in Nat
      BY <1>1, <1>8, LenProperties
    <2>6. Wanted(host.req) \in Nat BY <2>4, <1>14 DEF Wanted, Min2
    <2>7. CASE Len(dev.csr.fifo) = Packet
      <3>1. Ahead(Len(Gone)) BY <2>7, <1>16 DEF Armed
      <3>2. Len(Gone) = (m + 1) * Packet
        BY <2>2, <2>7, <1>8, <1>14
      <3>3. ~over
        <4>1. SUFFICES ASSUME over PROVE FALSE OBVIOUS
        <4>2. Len(Gone) >= host.req.wLength BY <4>1, <2>7, <1>14 DEF over
        <4>3. Wanted(host.req) = Len(Gone) /\ host.req.wLength = Len(Gone)
          BY <4>2, <2>1, <2>4, <2>5, <1>14 DEF Wanted, Min2
        <4>4. m + 1 \in Nat OBVIOUS
        <4>5. Min2(SizeOf(host.req), host.req.wLength) = (m + 1) * Packet
          BY <4>3, <3>2 DEF Wanted
        <4>6. host.req.wLength > SizeOf(host.req)
          BY <4>4, <4>5, <2>1, <1>3, FullPackets DEF Plain
        <4>7. Wanted(host.req) = SizeOf(host.req)
          BY <4>6, <2>4, <1>14 DEF Wanted, Min2
        <4> QED BY <4>3, <4>6, <4>7, <2>4, <2>5
      <3>4. host'.phase = "in" BY <3>3, <1>9
      <3>5. Gone' = Gone BY <1>6, <1>7, <1>8, <1>9, ConcatEmptySeq DEF Gone
      <3>6. \E j \in Nat : Len(host'.got) = j * Packet
        <4>1. m + 1 \in Nat OBVIOUS
        <4> QED BY <4>1, <3>2, <1>9
      <3>7. Answering'
        BY <3>4, <3>5, <3>6, <2>1, <1>3, <1>6, <1>7, <1>9, <1>11 DEF Answering
      <3>8. Ahead(Len(host.got))'
        BY <3>1, <1>7, <1>9 DEF Ahead, Points
      <3>9. Taken' BY <3>7, <3>8, <1>5, <1>12 DEF Taken
      <3> QED BY <3>9, <1>10, <1>13 DEF IInv, Stage
    <2>8. CASE Len(dev.csr.fifo) # Packet
      <3>1. dev.eEP0State = "STATUS" /\ dev.ulEP0DataRemain = 0
        BY <2>8, <1>16 DEF Armed
      <3>2. over BY <2>1, <2>5, <2>8, <1>14 DEF over
      <3>3. Len(Gone) = Wanted(host.req) BY <3>1, <2>1, <2>5, <2>6
      <3>4. Gone = Expected(host.req, dev.ulConfiguration)
        BY <3>3, <2>1, <2>4 DEF Wanted
      <3>5. Rest' BY <3>1, <1>11, <1>12, <1>7 DEF Rest, Smooth
      <3>6. host.req.kind \in Answered BY <2>1 DEF Plain
      <3>7. StatusOut'
        BY <3>1, <3>2, <3>4, <3>5, <3>6, <1>3, <1>5, <1>6, <1>7, <1>9, <1>11
        DEF StatusOut
      <3> QED BY <3>7, <1>10, <1>13 DEF IInv, Stage
    <2> QED BY <2>7, <2>8
  <1> QED BY <1>2, <1>15, <1>16

LEMMA SendOutStep ==
  ASSUME IInv, SendOut
  PROVE  IInv'
  <1> DEFINE n == Min2(host.req.wLength - host.sent, Packet)
             packet == [kind |-> "data", size |-> n]
             c == [dev.csr EXCEPT !.rx = packet]
             ends == host.sent + n = host.req.wLength
  <1>1. /\ dev \in Device /\ host \in Host /\ dev.csr \in CsrType
        /\ host.phase = "out" /\ dev.csr.rx = None
        /\ dev' = [dev EXCEPT !.csr = c]
        /\ host' = [host EXCEPT !.sent = host.sent + n,
                                !.phase = IF ends THEN "statusIn" ELSE "out"]
        /\ irq' = irq \cup {"ep0"} /\ latched' = latched
    BY DEF SendOut, IInv, Types, Device, Interrupt
  <1>2. OutWait
    <2>1. ~Setup
      <3>1. SUFFICES ASSUME Setup PROVE FALSE OBVIOUS
      <3>2. host.req \in Requests /\ host.req = None BY <3>1, <1>1 DEF Setup
      <3> QED BY <3>2, Kinds DEF None
    <2>2. ~OutPacket BY <1>1 DEF OutPacket, None
    <2> QED
      BY <2>1, <2>2, <1>1
      DEF IInv, Stage, Idle, Armed, Taken, Answering, Apology, Stalled,
          StatusOut, StatusIn
  <1>3. /\ Quiet /\ Receiving /\ host.sent <= host.req.wLength
        /\ dev.ulEP0DataRemain = host.req.wLength - host.sent
        /\ host.req \in Requests /\ host.req.kind = "classOut"
    BY <1>2 DEF OutWait, Receiving
  <1>4. /\ irq' = {"ep0"} /\ latched' = {} /\ OneDue' /\ NoReset'
    BY <1>1, <1>3 DEF Quiet, OneDue, NoReset
  <1>5. /\ host.req.wLength \in Nat /\ host.sent \in Nat /\ Packet \in Nat \ {0}
    BY <1>1, <1>3, Kinds, EnumAssumption DEF Host
  <1>6. /\ n \in Nat /\ n <= host.req.wLength - host.sent
        /\ ends => host.req.wLength - host.sent <= Packet
        /\ ~ends => n = Packet /\ host.sent + n < host.req.wLength
    BY <1>3, <1>5 DEF Min2
  <1> HIDE DEF n
  <1>7. packet \in [kind : {"data"}, size : Nat] BY <1>6
  <1>8. /\ c \in CsrType /\ c.rx = packet
        /\ c.fifo = dev.csr.fifo /\ c.txRdy = dev.csr.txRdy
        /\ c.dataEnd = dev.csr.dataEnd
        /\ c.stall = dev.csr.stall /\ c.sentStall = dev.csr.sentStall
    <2>1. packet \in Packets BY <1>7 DEF Packets
    <2> HIDE DEF packet
    <2> QED BY <2>1, <1>1 DEF CsrType
  <1> HIDE DEF c, packet, ends
  <1>9. /\ dev' \in Device /\ dev'.csr = c /\ dev'.eEP0State = dev.eEP0State
        /\ dev'.pending = dev.pending /\ dev'.faddr = dev.faddr
        /\ dev'.ulEP0DataRemain = dev.ulEP0DataRemain
        /\ dev'.ulOUTDataSize = dev.ulOUTDataSize
        /\ dev'.received = dev.received
        /\ dev'.ulConfiguration = dev.ulConfiguration
    BY <1>1, <1>8 DEF Device
  <1>10. /\ host' \in Host /\ host'.req = host.req
         /\ host'.sent = host.sent + n
         /\ host'.phase = (IF ends THEN "statusIn" ELSE "out")
         /\ host'.address = host.address
         /\ host'.configuration = host.configuration
    <2>1. host.sent + n \in Nat BY <1>5, <1>6
    <2> QED BY <2>1, <1>1 DEF Host
  <1>11. Types' BY <1>4, <1>9, <1>10 DEF Types
  <1>12. Receiving'
    BY <1>3, <1>8, <1>9, <1>10 DEF Receiving, Smooth, Free, Agreed
  <1>13. OutPacket'
    <2>1. CASE ends
      BY <2>1, <1>3, <1>4, <1>6, <1>7, <1>8, <1>9, <1>10, <1>12 DEF OutPacket
    <2>2. CASE ~ends
      <3>1. host'.sent < host'.req.wLength BY <2>2, <1>6, <1>10
      <3>2. dev'.ulEP0DataRemain = host'.req.wLength - host'.sent + Packet
        BY <2>2, <1>3, <1>5, <1>6, <1>9, <1>10
      <3>3. dev'.csr.rx \in [kind : {"data"}, size : Nat] BY <1>7, <1>8, <1>9
      <3>4. host'.phase = "out" BY <2>2, <1>10
      <3> QED BY <3>1, <3>2, <3>3, <3>4, <1>4, <1>12 DEF OutPacket
    <2> QED BY <2>1, <2>2
  <1>14. Configured'
    <2>1. ~StatusIn BY <1>1 DEF StatusIn
    <2> QED BY <2>1, <1>4, <1>9, <1>10 DEF IInv, Configured
  <1> QED BY <1>11, <1>13, <1>14 DEF IInv, Stage

LEMMA StatusStageStep ==
  ASSUME IInv, StatusStage
  PROVE  IInv'
  <1> DEFINE c == [dev.csr EXCEPT !.dataEnd = FALSE]
             address == IF host.req.kind = "setAddress"
                          THEN host.req.wValue ELSE host.address
             configuration == IF host.req.kind = "setConfiguration"
                                THEN host.req.wValue ELSE host.configuration
  <1>1. /\ dev \in Device /\ host \in Host /\ dev.csr \in CsrType
        /\ host.phase \in {"statusOut", "statusIn"} /\ Agreed
        /\ dev.csr.rx = None /\ ~dev.csr.stall
        /\ dev' = [dev EXCEPT !.csr = c]
        /\ host' = [host EXCEPT !.phase = "idle", !.result = "done",
                                !.address = address,
                                !.configuration = configuration]
        /\ irq' = irq \cup {"ep0"} /\ latched' = latched
    BY DEF StatusStage, IInv, Types, Device, Interrupt, Heard, Agreed
  <1>2. StatusOut \/ StatusIn
    <2>1. ~Setup
      <3>1. SUFFICES ASSUME Setup PROVE FALSE OBVIOUS
      <3>2. host.req \in Requests /\ host.req = None BY <3>1, <1>1 DEF Setup
      <3> QED BY <3>2, Kinds DEF None
    <2>2. ~OutPacket BY <1>1 DEF OutPacket, None
    <2> QED
      BY <2>1, <2>2, <1>1
      DEF IInv, Stage, Idle, Armed, Taken, Answering, Apology, Stalled, OutWait
  <1>3. /\ host.req \in Requests /\ Rest /\ NoReset
        /\ host.req.wValue \in Nat
    BY <1>2, Kinds DEF StatusOut, StatusIn, Quiet, NoReset
  <1>4. NoReset' BY <1>1, <1>3 DEF NoReset
  <1>5. /\ c \in CsrType /\ c.rx = None
        /\ c.fifo = dev.csr.fifo /\ c.txRdy = dev.csr.txRdy
        /\ c.stall = dev.csr.stall /\ c.sentStall = dev.csr.sentStall
    BY <1>1 DEF CsrType
  <1> HIDE DEF c
  <1>6. /\ dev' \in Device /\ dev'.csr = c /\ dev'.eEP0State = dev.eEP0State
        /\ dev'.pending = dev.pending /\ dev'.faddr = dev.faddr
        /\ dev'.ulDevAddress = dev.ulDevAddress
        /\ dev'.ulEP0DataRemain = dev.ulEP0DataRemain
        /\ dev'.ulConfiguration = dev.ulConfiguration
    BY <1>1, <1>5 DEF Device
  <1>7. address \in Nat /\ configuration \in Nat BY <1>1, <1>3 DEF Host
  <1> HIDE DEF address, configuration
  <1>8. /\ host' \in Host /\ host'.phase = "idle" /\ host'.address = address
        /\ host'.configuration = configuration
    BY <1>1, <1>7 DEF Host
  <1>9. Types' BY <1>1, <1>6, <1>8 DEF Types, IInv
  <1>10. /\ host'.phase = "idle" /\ dev'.csr.rx = None
         /\ dev'.ulEP0DataRemain = 0 /\ Free(dev)' /\ ~dev'.csr.stall
         /\ ~dev'.csr.sentStall
    BY <1>1, <1>3, <1>5, <1>6, <1>8 DEF Rest, Free
  <1>11. CASE StatusOut
    <2>1. /\ Smooth /\ dev.eEP0State \in {"IDLE", "STATUS"}
          /\ host.req.kind \in Answered /\ host.phase = "statusOut"
      BY <1>11 DEF StatusOut
    <2>2. address = host.address /\ configuration = host.configuration
      BY <2>1 DEF address, configuration, Answered, Blocks
    <2>3. Smooth' BY <2>1, <2>2, <1>6, <1>8, <1>10 DEF Smooth, Agreed
    <2>4. Idle' BY <2>1, <2>3, <1>6, <1>10 DEF Idle
    <2>5. Configured'
      BY <2>1, <2>2, <1>4, <1>6, <1>8 DEF IInv, Configured, StatusIn
    <2> QED BY <2>4, <2>5, <1>9 DEF IInv, Stage
  <1>12. CASE StatusIn
    <2>1. Quiet BY <1>12 DEF StatusIn
    <2>2. OneDue' BY <2>1, <1>1 DEF Quiet, OneDue
    <2>3. CASE host.req.kind = "setAddress"
      <3>1. /\ dev.eEP0State = "STATUS" /\ dev.pending
            /\ dev.ulDevAddress = host.req.wValue
        BY <2>3, <1>12 DEF StatusIn
      <3>2. address = host.req.wValue /\ configuration = host.configuration
        BY <2>3 DEF address, configuration
      <3>3. Idle' BY <3>1, <3>2, <2>2, <1>6, <1>8, <1>10 DEF Idle
      <3>4. Configured'
        BY <3>2, <2>3, <1>4, <1>6, <1>8 DEF IInv, Configured
      <3> QED BY <3>3, <3>4, <1>9 DEF IInv, Stage
    <2>4. CASE host.req.kind = "setConfiguration"
      <3>1. /\ dev.eEP0State = "IDLE" /\ ~dev.pending
            /\ dev.ulConfiguration = host.req.wValue
        BY <2>4, <1>12 DEF StatusIn
      <3>2. address = host.address /\ configuration = host.req.wValue
        BY <2>4 DEF address, configuration
      <3>3. Smooth' BY <3>1, <3>2, <1>1, <1>6, <1>8, <1>10 DEF Smooth, Agreed
      <3>4. Idle' BY <3>1, <3>3, <1>6, <1>10 DEF Idle
      <3>5. Configured' BY <3>1, <3>2, <1>4, <1>6, <1>8 DEF Configured
      <3> QED BY <3>4, <3>5, <1>9 DEF IInv, Stage
    <2>5. CASE host.req.kind = "classOut"
      <3>1. dev.eEP0State = "IDLE" /\ ~dev.pending
        BY <2>5, <1>12 DEF StatusIn
      <3>2. address = host.address /\ configuration = host.configuration
        BY <2>5 DEF address, configuration
      <3>3. Smooth' BY <3>1, <3>2, <1>1, <1>6, <1>8, <1>10 DEF Smooth, Agreed
      <3>4. Idle' BY <3>1, <3>3, <1>6, <1>10 DEF Idle
      <3>5. Configured'
        BY <3>2, <2>5, <1>4, <1>6, <1>8 DEF IInv, Configured
      <3> QED BY <3>4, <3>5, <1>9 DEF IInv, Stage
    <2> QED BY <2>3, <2>4, <2>5, <1>12 DEF StatusIn
  <1> QED BY <1>2, <1>11, <1>12

LEMMA SeeStallStep ==
  ASSUME IInv, SeeStall
  PROVE  IInv'
  <1> DEFINE c == [dev.csr EXCEPT !.stall = FALSE, !.sentStall = TRUE,
                                  !.dataEnd = FALSE]
  <1>1. /\ dev \in Device /\ host \in Host /\ dev.csr \in CsrType
        /\ host.phase # "idle" /\ dev.csr.stall
        /\ dev' = [dev EXCEPT !.csr = c]
        /\ host' = [host EXCEPT !.phase = "idle", !.result = "stall"]
        /\ irq' = irq \cup {"ep0"} /\ latched' = latched
    BY DEF SeeStall, Done, IInv, Types, Device, Interrupt
  <1>2. Stalled
    BY <1>1 DEF IInv, Stage, Idle, Setup, Armed, Taken, Answering, Smooth,
                Apology, StatusOut, OutWait, OutPacket, Receiving, StatusIn
  <1>3. /\ irq' = {"ep0"} /\ latched' = {} /\ NoReset'
    BY <1>1, <1>2 DEF Stalled, Quiet, NoReset
  <1>4. /\ c \in CsrType /\ c.rx = dev.csr.rx
        /\ c.fifo = dev.csr.fifo /\ c.txRdy = dev.csr.txRdy
        /\ c.stall = FALSE /\ c.sentStall = TRUE
    BY <1>1 DEF CsrType
  <1> HIDE DEF c
  <1>5. /\ dev' \in Device /\ dev'.csr = c /\ dev'.eEP0State = dev.eEP0State
        /\ dev'.pending = dev.pending /\ dev'.faddr = dev.faddr
        /\ dev'.ulEP0DataRemain = dev.ulEP0DataRemain
        /\ dev'.ulConfiguration = dev.ulConfiguration
    BY <1>1, <1>4 DEF Device
  <1>6. /\ host' \in Host /\ host'.phase = "idle" /\ host'.address = host.address
        /\ host'.configuration = host.configuration /\ host'.req = host.req
    BY <1>1 DEF Host
  <1>7. Types' BY <1>3, <1>5, <1>6 DEF Types
  <1>8. Idle'
    BY <1>2, <1>3, <1>4, <1>5, <1>6 DEF Stalled, Idle, Rest, Free, Agreed
  <1>9. Configured'
    <2>1. ~StatusIn BY <1>1 DEF StatusIn
    <2> QED BY <2>1, <1>3, <1>5, <1>6 DEF IInv, Configured
  <1> QED BY <1>7, <1>8, <1>9 DEF IInv, Stage

LEMMA BusResetStep ==
  ASSUME Tame, IInv, BusReset
  PROVE  IInv'
  <1>1. /\ dev \in Device /\ host \in Host
        /\ dev.eEP0State \in {"IDLE", "STATUS"} /\ ~dev.pending
        /\ dev' = [dev EXCEPT !.csr = Registers, !.faddr = 0]
        /\ host' = [host EXCEPT !.phase = "idle", !.result = "none",
                                !.address = 0, !.configuration = 0]
        /\ irq' = irq \cup {"reset"} /\ latched' = latched
    BY DEF BusReset, Tidy, Tame, IInv, Types
  <1>2. dev.ulEP0DataRemain = 0
    BY <1>1 DEF IInv, Stage, Idle, Setup, Rest, Armed, Taken, Ahead, Apology,
                Stalled, StatusOut, OutWait, OutPacket, Receiving, StatusIn
  <1>3. Registers \in CsrType
    <2>1. None \in Packets /\ << >> \in Seq(Places) BY DEF Packets
    <2> QED BY <2>1 DEF Registers, CsrType
  <1>4. /\ dev' \in Device /\ dev'.csr = Registers /\ dev'.faddr = 0
        /\ dev'.eEP0State = dev.eEP0State /\ dev'.pending = dev.pending
        /\ dev'.ulEP0DataRemain = dev.ulEP0DataRemain
    BY <1>1, <1>3 DEF Device
  <1>5. /\ host' \in Host /\ host'.phase = "idle" /\ host'.address = 0
        /\ host'.configuration = 0
    BY <1>1 DEF Host
  <1>6. Types' BY <1>1, <1>4, <1>5 DEF Types, IInv
  <1>7. /\ dev'.csr.rx = None /\ dev'.csr.fifo = << >> /\ dev'.csr.txRdy = FALSE
        /\ dev'.csr.stall = FALSE /\ dev'.csr.sentStall = FALSE
    BY <1>4 DEF Registers
  <1>8. Smooth' BY <1>1, <1>4, <1>5, <1>7 DEF Smooth, Agreed
  <1>9. Idle' BY <1>1, <1>2, <1>4, <1>5, <1>7, <1>8 DEF Idle, Free
  <1>10. Configured' BY <1>5 DEF Configured
  <1> QED BY <1>6, <1>9, <1>10 DEF IInv, Stage

-----------------------------------------------------------------------------
(* The theorems.                                                            *)

LEMMA InitHolds == ASSUME Init PROVE IInv
  <1>1. None \in Packets /\ << >> \in Seq(Places) /\ Nowhere \in Places
    BY DEF Packets, Places, Marks, Nowhere
  <1>2. Registers \in CsrType BY <1>1 DEF Registers, CsrType
  <1>3. dev \in Device BY <1>1, <1>2 DEF Init, Device, States
  <1>4. host \in Host BY <1>1 DEF Init, Host
  <1>5. Types BY <1>3, <1>4 DEF Init, Types
  <1>6. /\ dev.csr = Registers /\ dev.eEP0State = "IDLE" /\ dev.pending = FALSE
        /\ dev.faddr = 0 /\ dev.ulEP0DataRemain = 0
        /\ host.phase = "idle" /\ host.address = 0 /\ host.configuration = 0
    BY DEF Init
  <1>7. Idle BY <1>6 DEF Idle, Smooth, Free, Agreed, Registers
  <1> QED BY <1>5, <1>6, <1>7 DEF IInv, Stage, Configured

LEMMA StepHolds == ASSUME Tame, IInv, [Next]_vars PROVE IInv'
  <1>1. CASE EnterHandler BY <1>1, EnterHandlerStep
  <1>2. CASE RunHandler BY <1>2, RunHandlerStep
  <1>3. CASE TakeIn BY <1>3, TakeInStep
  <1>4. CASE SendOut BY <1>4, SendOutStep
  <1>5. CASE StatusStage BY <1>5, StatusStageStep
  <1>6. CASE SeeStall BY <1>6, SeeStallStep
  <1>7. CASE BusReset BY <1>7, BusResetStep
  <1>8. CASE \E r \in Requests : SendSetup(r) BY <1>8, SendSetupStep
  <1>9. CASE UNCHANGED vars
    <2>1. dev' = dev /\ host' = host /\ irq' = irq /\ latched' = latched
      BY <1>9 DEF vars
    <2> QED
      BY <2>1
      DEF IInv, Types, Stage, Configured, Idle, Setup, Armed, Taken, Answering,
          Apology, Stalled, StatusOut, OutWait, OutPacket, Receiving, StatusIn,
          Rest, Free, Smooth, Agreed, Quiet, OneDue, NoReset, Gone, Ahead,
          Points
  <1> QED
    BY <1>1, <1>2, <1>3, <1>4, <1>5, <1>6, <1>7, <1>8, <1>9
    DEF Next, Handler, HostGoesOn

\* At any moment the transfer is in one of the stages above: what
\* USBDeviceEnumHandler finds in the endpoint, in its state and in the count
\* of bytes left fits what the host is doing (usbdenum.c), for any request,
\* packet size and configuration descriptor.
THEOREM EnumStages == ASSUME Tame PROVE Spec => []IInv
  <1>1. Init => IInv BY InitHolds
  <1>2. IInv /\ [Next]_vars => IInv' BY StepHolds
  <1> QED BY <1>1, <1>2, PTL DEF Spec

\* A new address takes effect when the status stage of its request has been
\* seen (USBDEnumHandler, DEV_ADDR_PENDING) and before any other request: with
\* nothing left to handle, device and host agree on it.
THEOREM EnumAddressAgreed == ASSUME Tame PROVE Spec => []AddressAgreed
  <1>1. IInv => AddressAgreed
    BY DEF IInv, Stage, AddressAgreed, Agreed, Smooth, Quiet, OneDue, Idle,
           Setup, Armed, Taken, Answering, Apology, Stalled, StatusOut,
           OutWait, OutPacket, Receiving, StatusIn
  <1> QED BY <1>1, EnumStages, PTL

\* What USBDEP0StateTx and USBDEP0StateTxConfig send packet by packet is, put
\* together, the answer, cut to what the host asked for, across the borders of
\* the sections of the descriptor and whatever a packet holds; and the client
\* is handed the host's data before the host is told that it has arrived.
THEOREM EnumDataStageExact == ASSUME Tame PROVE Spec => []DataStageExact
  <1>1. ASSUME IInv PROVE Len(dev.csr.fifo) <= Packet
    <2>1. Packet \in Nat /\ Packet > 0 BY EnumAssumption
    <2>2. dev.csr.fifo = << >> => Len(dev.csr.fifo) <= Packet BY <2>1
    <2> QED
      BY <1>1, <2>2
      DEF IInv, Stage, Idle, Setup, Rest, Free, Armed, Taken, Apology, Stalled,
          StatusOut, OutWait, OutPacket, Receiving, StatusIn
  <1>2. ASSUME IInv, host.phase = "statusOut", host.req.kind # "unsupported"
        PROVE  \/ host.got = Expected(host.req, host.configuration)
               \/ host.req.kind = "getConfiguration" /\ host.configuration = 0
    <2>1. StatusOut
      BY <1>2 DEF IInv, Stage, Idle, Setup, FirstPhase, Armed, Taken, Answering,
                  Apology, Stalled, OutWait, OutPacket, StatusIn
    <2>2. host.got = Expected(host.req, dev.ulConfiguration)
      BY <2>1, <1>2 DEF StatusOut, Plain
    <2>3. CASE host.req.kind # "getConfiguration"
      <3>1. Total(host.req, dev.ulConfiguration) = Total(host.req, host.configuration)
        BY <2>3 DEF Total
      <3> QED BY <2>2, <3>1 DEF Expected
    <2>4. CASE host.req.kind = "getConfiguration" /\ host.configuration # 0
      <3>1. dev.ulConfiguration = host.configuration
        BY <2>4, <1>2 DEF IInv, Configured, StatusIn
      <3> QED BY <2>2, <3>1
    <2> QED BY <2>3, <2>4
  <1>3. ASSUME IInv, host.phase = "statusIn", host.req.kind = "classOut",
               dev.csr.dataEnd
        PROVE  dev.received = host.req.wLength
    <2>1. StatusIn
      BY <1>3 DEF IInv, Stage, Idle, Setup, FirstPhase, Answered, Blocks, Armed,
                  Taken, Answering, Apology, Stalled, StatusOut, OutWait,
                  OutPacket, Receiving
    <2> QED BY <2>1, <1>3 DEF StatusIn
  <1>4. IInv => DataStageExact BY <1>1, <1>2, <1>3 DEF DataStageExact
  <1> QED BY <1>4, EnumStages, PTL

=============================================================================
