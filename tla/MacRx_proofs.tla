---------------------------- MODULE MacRx_proofs ----------------------------
(***************************************************************************)
(* Proofs about the receive side of the MAC driver, for every size of the  *)
(* ring and of the pool and every length of a frame.                       *)
(***************************************************************************)
EXTENDS MacRx, FiniteSetTheorems, TLAPS

USE MacRxAssumption DEF MacRxAssumption, Ring, Slots

(***************************************************************************)
(* The inductive invariant                                                 *)
(***************************************************************************)
\* In a ring of n places: the place k after i, and the places from i to j.
At(n, i, k) == IF i + k < n THEN i + k ELSE i + k - n

Dist(n, i, j) == IF i <= j THEN j - i ELSE j - i + n

\* Descriptors the device owns; descriptors taken and not yet given to it.
Handed == Cardinality(own)

Kept == IF pc = "own" THEN 1 ELSE 0

\* The device owns one stretch of the ring, from its own position on.
OwnInv == \A i \in Ring : i \in own <=> Dist(NumRds, hwIndex, i) < Handed

\* The driver's position is where that stretch, and what it keeps, ends.
IndexInv ==
    /\ Handed + Kept <= NumRds
    /\ rxIndex = At(NumRds, hwIndex, Handed + Kept)
    /\ pc = "recv" => Handed < NumRds

\* A segment is followed by the next one of its frame, or by the first one of
\* another.
Continues(d, tag, seg) ==
    IF d.ls THEN seg = 1 ELSE seg = d.seg + 1 /\ tag = d.tag

\* So are the segments in the ring, up to what the device receives next.
ChainInv ==
    \A i \in Untaken :
        IF NextIndex(i) = hwIndex
          THEN Continues(desc[i], hwTag, hwSeg + 1)
          ELSE LET d == desc[NextIndex(i)] IN Continues(desc[i], d.tag, d.seg)

\* What the driver takes next.
NextTag == IF rxIndex \in Untaken THEN desc[rxIndex].tag ELSE hwTag

NextSeg == IF rxIndex \in Untaken THEN desc[rxIndex].seg ELSE hwSeg + 1

\* All segments of one frame, from the first one on.
Whole(s) ==
    /\ s # <<>>
    /\ \A k \in DOMAIN s : s[k] = [tag |-> s[1].tag, seg |-> k]

\* The slot of the frame being assembled is not the last free one.
Room == NextSlot(rx_PooliWrite) # rx_PooliRead

\* The driver is between two frames, or it goes on with the one it has begun
\* in a slot of its own.
HeadInv ==
    IF rx_FristNeeded
      THEN NextSeg = 1
      ELSE /\ Whole(pool[rx_PooliWrite]) /\ Room
           /\ NextSeg = Len(pool[rx_PooliWrite]) + 1
           /\ NextTag = pool[rx_PooliWrite][1].tag

\* The slots to be read hold whole frames.
PoolInv ==
    \A s \in Slots :
        Dist(PooliMax, rx_PooliRead, s)
          < Dist(PooliMax, rx_PooliRead, rx_PooliWrite)
        => Whole(pool[s])

\* A suspended device has told so in an interrupt that is still to come, or
\* rx_dead remembers it until a descriptor is given back.
StrandInv ==
    ~Merging /\ debug =>
        /\ masked = {} /\ csr7 = {}
        /\ hw = "susp" => \/ "RU" \in event /\ own # Ring
                          \/ rx_dead /\ (own = Ring => pc = "dead")

IInv == /\ TypeOK /\ OwnInv /\ IndexInv /\ ChainInv /\ HeadInv /\ PoolInv
        /\ StrandInv

\* While no write of CSR7 has undone it, the mask of sMacInt stands from the
\* setting of rxScheduled to the write that ends sMacRxSchedule.
ScheduleInv ==
    /\ rxScheduled \/ pc \in {"enable", "write"} => masked = RxInts
    /\ pc \in {"get", "again", "recv", "own", "dead", "unsched"} => rxScheduled
    /\ pc \in {"enable", "write"} => ~rxScheduled

\* What is known of the interrupts.
MaskInv ==
    /\ DeathIsKnown /\ ForgetsOnlyUnmasked
    /\ debug \/ undone \/ Merging \/ ScheduleInv

(***************************************************************************)
(* Facts about rings                                                       *)
(***************************************************************************)
\* The arithmetic of the indices, without the remainder.
LEMMA ModIsAt ==
    ASSUME NEW n \in Nat \ {0}, NEW i \in 0 .. n - 1, NEW k \in 0 .. n
    PROVE  (i + k) % n = At(n, i, k) /\ At(n, i, k) \in 0 .. n - 1
BY DEF At

LEMMA PrevIsAt ==
    ASSUME NEW n \in Nat \ {0}, NEW i \in 0 .. n - 1
    PROVE  (i - 1) % n = At(n, i, n - 1) /\ At(n, i, n - 1) \in 0 .. n - 1
BY DEF At

LEMMA ModIsDist ==
    ASSUME NEW n \in Nat \ {0}, NEW i \in 0 .. n - 1, NEW j \in 0 .. n - 1
    PROVE  (j - i) % n = Dist(n, i, j) /\ Dist(n, i, j) \in 0 .. n - 1
BY DEF Dist

LEMMA NextIsAt ==
    /\ \A i \in Ring :
         NextIndex(i) = At(NumRds, i, 1) /\ NextIndex(i) \in Ring
    /\ \A s \in Slots :
         NextSlot(s) = At(PooliMax, s, 1) /\ NextSlot(s) \in Slots
<1>1. 1 \in 0 .. NumRds /\ 1 \in 0 .. PooliMax
    OBVIOUS
<1>2. QED
    BY <1>1, ModIsAt DEF NextIndex, NextSlot

LEMMA DistAt ==
    ASSUME NEW n \in Nat \ {0}, NEW i \in 0 .. n - 1, NEW k \in 0 .. n - 1
    PROVE  At(n, i, k) \in 0 .. n - 1 /\ Dist(n, i, At(n, i, k)) = k
BY DEF At, Dist

LEMMA AtDist ==
    ASSUME NEW n \in Nat \ {0}, NEW i \in 0 .. n - 1, NEW j \in 0 .. n - 1
    PROVE  At(n, i, Dist(n, i, j)) = j /\ Dist(n, i, j) \in 0 .. n - 1
BY DEF At, Dist

\* Moving one of two indices.
LEMMA DistNext ==
    ASSUME NEW n \in Nat \ {0}, NEW i \in 0 .. n - 1, NEW j \in 0 .. n - 1
    PROVE  /\ i # j => /\ Dist(n, At(n, i, 1), j) = Dist(n, i, j) - 1
                       /\ Dist(n, i, j) - 1 \in 0 .. n - 1
           /\ At(n, j, 1) # i => /\ Dist(n, i, At(n, j, 1)) = Dist(n, i, j) + 1
                                 /\ Dist(n, i, j) + 1 \in 0 .. n - 1
           /\ Dist(n, i, j) = 0 <=> i = j
           /\ At(n, i, 1) = At(n, j, 1) => i = j
           /\ n > 1 => At(n, i, 1) # i
BY DEF At, Dist

LEMMA AtAt ==
    ASSUME NEW n \in Nat \ {0}, NEW i \in 0 .. n - 1, NEW k \in 0 .. n - 1
    PROVE  /\ At(n, At(n, i, k), 1) = At(n, i, k + 1)
           /\ At(n, At(n, i, 1), k) = At(n, i, k + 1)
           /\ At(n, At(n, i, k + 1), n - 1) = At(n, i, k)
           /\ At(n, i, n) = i /\ At(n, i, 0) = i
           /\ At(n, i, k) = i <=> k = 0
BY DEF At

\* Setting and clearing one OWN bit.
LEMMA OwnCard ==
    ASSUME NEW S \in SUBSET Ring
    PROVE  /\ IsFiniteSet(S) /\ Cardinality(S) \in 0 .. NumRds
           /\ \A i \in Ring \ S : Cardinality(S \cup {i}) = Cardinality(S) + 1
           /\ \A i \in S : Cardinality(S \ {i}) = Cardinality(S) - 1
<1>1. IsFiniteSet(Ring) /\ Cardinality(Ring) = NumRds
    BY FS_Interval
<1>2. IsFiniteSet(S) /\ Cardinality(S) <= NumRds
    BY <1>1, FS_Subset
<1>3. Cardinality(S) \in Nat
    BY <1>2, FS_CardinalityType
<1>4. \A i \in Ring \ S : Cardinality(S \cup {i}) = Cardinality(S) + 1
    BY <1>2, FS_AddElement
<1>5. \A i \in S : Cardinality(S \ {i}) = Cardinality(S) - 1
    BY <1>2, FS_RemoveElement
<1>6. QED
    BY <1>2, <1>3, <1>4, <1>5

LEMMA HandedFacts ==
    /\ TypeOK => Handed \in 0 .. NumRds
    /\ UNCHANGED own => Handed' = Handed
BY OwnCard DEF Handed, TypeOK

\* The descriptors still to be taken are the rest of the ring, and the driver
\* stands at the first of them.
LEMMA UntakenIs ==
    ASSUME IInv
    PROVE  /\ Handed \in 0 .. NumRds /\ Kept \in 0 .. 1
           /\ \A i \in Ring :
                i \in Untaken <=> Dist(NumRds, hwIndex, i) >= Handed + Kept
           /\ rxIndex \in Untaken <=> Handed + Kept < NumRds
           /\ Handed + Kept = NumRds => rxIndex = hwIndex /\ Untaken = {}
           /\ \A i \in Untaken :
                NextIndex(i) # hwIndex => NextIndex(i) \in Untaken
<1>1. /\ Handed \in 0 .. NumRds /\ Kept \in 0 .. 1
      /\ hwIndex \in Ring /\ rxIndex \in Ring
    BY HandedFacts DEF IInv, TypeOK, Kept
<1>2. ASSUME NEW i \in Ring
      PROVE  i \in Untaken <=> Dist(NumRds, hwIndex, i) >= Handed + Kept
  <2>1. i \in own <=> Dist(NumRds, hwIndex, i) < Handed
    BY DEF IInv, OwnInv
  <2>2. Dist(NumRds, hwIndex, i) \in Nat
    BY <1>1, AtDist
  <2>3. CASE pc # "own"
    BY <1>1, <2>1, <2>2, <2>3 DEF Untaken, Kept
  <2>4. CASE pc = "own"
    <3>1. /\ Handed < NumRds /\ rxIndex = At(NumRds, hwIndex, Handed + 1)
          /\ Kept = 1
      BY <1>1, <2>4 DEF IInv, IndexInv, Kept
    <3>2. (rxIndex - 1) % NumRds = At(NumRds, hwIndex, Handed)
      BY <1>1, <3>1, PrevIsAt, AtAt
    <3>3. i = At(NumRds, hwIndex, Handed) <=> Dist(NumRds, hwIndex, i) = Handed
      BY <1>1, <3>1 DEF At, Dist
    <3>4. QED
      BY <1>1, <2>1, <2>2, <2>4, <3>1, <3>2, <3>3 DEF Untaken
  <2>5. QED
    BY <2>3, <2>4
<1>3. ASSUME Handed + Kept < NumRds PROVE rxIndex \in Untaken
  <2>1. Dist(NumRds, hwIndex, rxIndex) = Handed + Kept
    BY <1>1, <1>3, DistAt DEF IInv, IndexInv
  <2>2. QED
    BY <1>1, <1>2, <2>1
<1>4. ASSUME Handed + Kept = NumRds PROVE rxIndex = hwIndex /\ Untaken = {}
  <2>1. rxIndex = hwIndex
    BY <1>1, <1>4, AtAt DEF IInv, IndexInv
  <2>2. ASSUME NEW i \in Untaken PROVE FALSE
    <3>1. i \in Ring
      BY DEF Untaken
    <3>2. QED
      BY <1>1, <1>2, <1>4, <3>1, AtDist
  <2>3. QED
    BY <2>1, <2>2
<1>5. ASSUME NEW i \in Untaken, NextIndex(i) # hwIndex
      PROVE  NextIndex(i) \in Untaken
  <2>1. i \in Ring /\ NextIndex(i) = At(NumRds, i, 1) /\ NextIndex(i) \in Ring
    BY NextIsAt DEF Untaken
  <2>2. Dist(NumRds, hwIndex, NextIndex(i)) = Dist(NumRds, hwIndex, i) + 1
    BY <1>1, <1>5, <2>1, DistNext
  <2>3. Dist(NumRds, hwIndex, i) \in Nat
    BY <1>1, <2>1, AtDist
  <2>4. QED
    BY <1>1, <1>2, <2>1, <2>2, <2>3
<1>6. Handed + Kept <= NumRds
    BY DEF IInv, IndexInv
<1>7. rxIndex \in Untaken <=> Handed + Kept < NumRds
    BY <1>1, <1>3, <1>4, <1>6
<1>8. QED
    BY <1>1, <1>2, <1>4, <1>5, <1>7

\* sMacInit leaves the ring to the device and an empty pool.
LEMMA InitInv == Init => IInv
<1> SUFFICES ASSUME Init PROVE IInv
    OBVIOUS
<1>1. Handed = NumRds /\ Kept = 0
    BY FS_Interval DEF Init, Handed, Kept
<1>2. TypeOK
  <2>1. desc \in [Ring -> Segments]
    BY DEF Init, Segments
  <2>2. /\ pool \in [Slots -> Seq(Copied)]
        /\ \A s \in Slots : Len(pool[s]) <= MaxSeg
    BY DEF Init
  <2>3. /\ debug \in BOOLEAN /\ rx_FristNeeded \in BOOLEAN
        /\ rx_dead \in BOOLEAN
        /\ rxScheduled \in BOOLEAN /\ none \in BOOLEAN
        /\ undone \in BOOLEAN /\ forgot \in BOOLEAN
    BY DEF Init
  <2>4. masked \subseteq RxInts /\ event \subseteq RxInts /\ csr7 \subseteq RxInts
    BY DEF Init, RxInts
  <2>5. /\ pool \in [Slots -> Seq(Copied)]
        /\ \A s \in Slots : Len(pool[s]) <= MaxSeg
        /\ hw \in {"run", "susp"} /\ pc = "idle"
        /\ own \subseteq Ring /\ rxIndex \in Ring /\ hwIndex \in Ring
        /\ rx_PooliWrite \in Slots /\ rx_PooliRead \in Slots
        /\ hwSeg \in 0 .. MaxSeg - 1 /\ hwTag \in {0, 1} /\ hwBad \in 0 .. MaxBad
    BY <2>2 DEF Init
  <2>6. QED
    BY <2>1, <2>3, <2>4, <2>5 DEF TypeOK
<1>3. OwnInv /\ IndexInv /\ PoolInv /\ StrandInv
    BY <1>1 DEF Init, OwnInv, IndexInv, PoolInv, StrandInv, At, Dist
<1>4. Untaken = {}
    BY DEF Init, Untaken
<1>5. ChainInv /\ HeadInv
    BY <1>4 DEF Init, ChainInv, HeadInv, NextSeg
<1>6. QED
    BY <1>2, <1>3, <1>5 DEF IInv

(***************************************************************************)
(* The steps that leave the ring alone                                     *)
(***************************************************************************)
\* They keep what is said of the ring, and of the pool unless it is read.
LEMMA QuietKeeps ==
    ASSUME IInv, UNCHANGED <<ring, pooled, hwIndex, hwSeg, hwTag>>,
           pc' = "own" <=> pc = "own", pc' = "recv" => rxIndex \notin own
    PROVE  /\ OwnInv' /\ IndexInv' /\ ChainInv'
           /\ UNCHANGED rx_PooliRead => HeadInv' /\ PoolInv'
<1> USE DEF ring, pooled
<1>1. Handed' = Handed /\ Kept' = Kept /\ Untaken' = Untaken
    BY HandedFacts DEF Kept, Untaken
<1>2. OwnInv'
    BY <1>1 DEF IInv, OwnInv
<1>3. pc' = "recv" => Handed < NumRds
  <2> SUFFICES ASSUME rxIndex \notin own PROVE Handed < NumRds
    OBVIOUS
  <2>1. rxIndex \in Ring /\ hwIndex \in Ring /\ Handed \in 0 .. NumRds
    BY HandedFacts DEF IInv, TypeOK
  <2>2. ~(Dist(NumRds, hwIndex, rxIndex) < Handed)
    BY <2>1 DEF IInv, OwnInv
  <2>3. QED
    BY <2>1, <2>2, AtDist
<1>4. IndexInv'
    BY <1>1, <1>3 DEF IInv, IndexInv
<1>5. ChainInv'
    BY <1>1 DEF IInv, ChainInv
<1>6. ASSUME UNCHANGED rx_PooliRead PROVE HeadInv' /\ PoolInv'
  <2>1. UNCHANGED <<NextSeg, NextTag, Room>>
    BY <1>1, <1>6 DEF NextSeg, NextTag, Room
  <2>2. HeadInv'
    BY <2>1 DEF IInv, HeadInv
  <2>3. PoolInv'
    BY <1>6 DEF IInv, PoolInv
  <2>4. QED
    BY <2>2, <2>3
<1>7. QED
    BY <1>2, <1>4, <1>5, <1>6

\* sMacRxSchedule up to sMacRecv.
LEMMA LookStep ==
    ASSUME IInv, EnterRxSchedule \/ sMacGetFullRMD \/ NoRMD \/ NoPool
    PROVE  IInv'
<1> USE DEF Main, ring, pooled, sched, device
<1>1. /\ UNCHANGED <<ring, pooled, rx_PooliRead, rx_dead, sched, event,
                     device>>
      /\ pc' = "own" <=> pc = "own"
      /\ pc' = "recv" => rxIndex \notin own
      /\ pc' \in {"get", "again", "recv", "unsched"} /\ pc # "dead"
    BY DEF EnterRxSchedule, sMacGetFullRMD, NoRMD, NoPool
<1>2. none' \in BOOLEAN
    BY DEF EnterRxSchedule, sMacGetFullRMD, NoRMD, NoPool, IInv, TypeOK
<1>3. TypeOK'
    BY <1>1, <1>2 DEF IInv, TypeOK
<1>4. StrandInv'
    BY <1>1 DEF IInv, StrandInv
<1>5. QED
    BY <1>1, <1>3, <1>4, QuietKeeps DEF IInv

\* PollDemand: rx_dead has kept its promise.
LEMMA PollDemandStep ==
    ASSUME IInv, PollDemand
    PROVE  IInv'
<1> USE DEF ring, pooled, sched
<1>1. /\ UNCHANGED <<ring, pooled, rx_PooliRead, hwIndex, hwSeg, hwTag>>
      /\ pc' = "own" <=> pc = "own"
      /\ pc' = "recv" => rxIndex \notin own
    BY DEF PollDemand
<1>2. TypeOK'
  <2>1. hw' \in {"run", "susp"} /\ rx_dead' \in BOOLEAN
    BY DEF PollDemand, IInv, TypeOK
  <2>2. QED
    BY <2>1 DEF PollDemand, IInv, TypeOK
<1>3. StrandInv'
    BY DEF PollDemand, IInv, StrandInv
<1>4. QED
    BY <1>1, <1>2, <1>3, QuietKeeps DEF IInv

\* The enables of either direction, the handler, and the device when it has
\* no descriptor.
LEMMA ScheduleStep ==
    ASSUME IInv, RxDone \/ TxEnable \/ TxEnabled \/ sMacInt \/ Suspend
    PROVE  IInv'
<1> USE DEF Main, ring, pooled, sched, device
<1>1. /\ UNCHANGED <<ring, pooled, rx_PooliRead, hwIndex, hwSeg, hwTag, hwBad,
                     none>>
      /\ pc' = "own" <=> pc = "own"
      /\ pc' = "recv" => pc = "recv"
    BY DEF RxDone, Unschedule, TxEnable, TxEnabled, ReadCSR7, WriteCSR7, sMacInt,
           Suspend
<1>2. CASE RxDone \/ TxEnable \/ TxEnabled
  <2>1. /\ UNCHANGED <<rx_dead, event, hw, forgot>>
        /\ masked' \subseteq masked \cup csr7
        /\ csr7' \subseteq masked \cup csr7
        /\ pc' \in {"enable", "idle", "write", "txwrite"} /\ pc # "dead"
    BY <1>2 DEF RxDone, Unschedule, TxEnable, TxEnabled, ReadCSR7, WriteCSR7
  <2>2. rxScheduled' \in BOOLEAN /\ undone' \in BOOLEAN
    BY <1>2 DEF RxDone, Unschedule, TxEnable, TxEnabled, ReadCSR7, WriteCSR7,
                IInv, TypeOK
  <2>3. TypeOK'
    <3>1. masked' \subseteq RxInts /\ csr7' \subseteq RxInts
      BY <2>1 DEF IInv, TypeOK
    <3>2. QED
      BY <1>1, <2>1, <2>2, <3>1 DEF IInv, TypeOK
  <2>4. StrandInv'
    BY <1>1, <2>1 DEF IInv, StrandInv
  <2>5. QED
    BY <1>1, <2>1, <2>3, <2>4, QuietKeeps DEF IInv
<1>3. CASE sMacInt \/ Suspend
  <2>1. UNCHANGED pc
    BY <1>3 DEF sMacInt, Suspend
  <2>2. pc = "recv" => rxIndex \notin own
    <3>1. CASE pc # "recv"
      BY <3>1
    <3>2. CASE pc = "recv"
      <4>1. Handed + Kept < NumRds
        BY <3>2, UntakenIs DEF Kept, IInv, IndexInv
      <4>2. QED
        BY <4>1, UntakenIs DEF Untaken
    <3>3. QED
      BY <3>1, <3>2
  <2>3. TypeOK'
    <3>1. /\ rxScheduled' \in BOOLEAN /\ rx_dead' \in BOOLEAN
          /\ forgot' \in BOOLEAN /\ UNCHANGED <<csr7, undone>>
      BY <1>3 DEF sMacInt, Suspend, IInv, TypeOK
    <3>2. masked' \subseteq RxInts /\ event' \subseteq RxInts
      BY <1>3 DEF sMacInt, Suspend, IInv, TypeOK, RxInts
    <3>3. hw' \in {"run", "susp"}
      BY <1>3 DEF sMacInt, Suspend, IInv, TypeOK
    <3>4. QED
      BY <1>1, <2>1, <3>1, <3>2, <3>3 DEF IInv, TypeOK
  <2>4. CASE sMacInt
    <3>1. /\ debug => masked' = masked
          /\ rx_dead \/ "RU" \in event \ masked => rx_dead'
          /\ UNCHANGED <<hw, own, debug, csr7>>
      BY <2>4 DEF sMacInt
    <3>2. StrandInv'
      BY <2>1, <3>1 DEF IInv, StrandInv
    <3>3. QED
      BY <1>1, <2>1, <2>2, <2>3, <3>2, QuietKeeps DEF IInv
  <2>5. CASE Suspend
    <3>1. own # Ring
      BY <2>5 DEF Suspend, IInv, TypeOK
    <3>2. StrandInv'
      BY <1>1, <2>1, <2>5, <3>1 DEF Suspend, IInv, StrandInv
    <3>3. QED
      BY <1>1, <2>1, <2>2, <2>3, <3>2, QuietKeeps DEF IInv
  <2>6. QED
    BY <1>3, <2>4, <2>5
<1>4. QED
    BY <1>2, <1>3

\* A test reads a frame: the slot of the frame being assembled stays free.
LEMMA ReadStep ==
    ASSUME IInv, Read
    PROVE  IInv'
<1> USE DEF Main, ring, sched, device
<1>1. /\ UNCHANGED <<ring, rx_PooliWrite, rx_FristNeeded, rx_dead, none, sched,
                     event, device, pc>>
      /\ pc = "idle" /\ rx_PooliRead # rx_PooliWrite
      /\ rx_PooliRead' = NextSlot(rx_PooliRead)
      /\ pool' = [pool EXCEPT ![rx_PooliRead] = <<>>]
    BY DEF Read
<1>2. /\ rx_PooliRead \in Slots /\ rx_PooliWrite \in Slots
      /\ rx_PooliRead' = At(PooliMax, rx_PooliRead, 1)
      /\ rx_PooliRead' \in Slots
      /\ NextSlot(rx_PooliWrite) = At(PooliMax, rx_PooliWrite, 1)
    BY <1>1, NextIsAt DEF IInv, TypeOK
<1>3. /\ pool' \in [Slots -> Seq(Copied)]
      /\ \A s \in Slots : Len(pool'[s]) <= MaxSeg
      /\ \A s \in Slots \ {rx_PooliRead} : pool'[s] = pool[s]
    BY <1>1, <1>2 DEF IInv, TypeOK
<1>4. TypeOK'
    BY <1>1, <1>2, <1>3 DEF IInv, TypeOK
<1>5. Room'
    BY <1>1, <1>2, DistNext DEF Room
<1>6. Untaken' = Untaken /\ Handed' = Handed /\ Kept' = Kept
    BY <1>1, HandedFacts DEF Untaken, Kept
<1>7. OwnInv' /\ IndexInv' /\ ChainInv' /\ StrandInv'
    BY <1>1, <1>6 DEF IInv, OwnInv, IndexInv, ChainInv, StrandInv
<1>8. HeadInv'
  <2>1. UNCHANGED <<NextSeg, NextTag>>
    BY <1>1, <1>6 DEF NextSeg, NextTag
  <2>2. pool'[rx_PooliWrite] = pool[rx_PooliWrite]
    BY <1>1, <1>2, <1>3
  <2>3. QED
    BY <1>1, <1>5, <2>1, <2>2 DEF IInv, HeadInv
<1>9. PoolInv'
  <2> SUFFICES ASSUME NEW s \in Slots,
                      Dist(PooliMax, rx_PooliRead', s)
                        < Dist(PooliMax, rx_PooliRead', rx_PooliWrite)
               PROVE  Whole(pool'[s])
    BY <1>1 DEF PoolInv
  <2>1. /\ Dist(PooliMax, rx_PooliRead, s)
             < Dist(PooliMax, rx_PooliRead, rx_PooliWrite)
        /\ s # rx_PooliRead
    BY <1>1, <1>2 DEF At, Dist
  <2>2. QED
    BY <1>3, <2>1 DEF IInv, PoolInv
<1>10. QED
    BY <1>4, <1>7, <1>8, <1>9 DEF IInv

(***************************************************************************)
(* The steps of sMacRecv and of the device                                 *)
(***************************************************************************)
\* GiveBack: the device's stretch grows by the descriptor that was kept.
LEMMA GiveBackStep ==
    ASSUME IInv, GiveBack
    PROVE  IInv' /\ Untaken' = Untaken
<1> USE DEF Main, ring, pooled, sched, device
<1>1. /\ pc = "own" /\ pc' = "dead"
      /\ own' = own \cup {(rxIndex - 1) % NumRds} /\ event \subseteq masked
      /\ UNCHANGED <<desc, rxIndex, debug, pooled, rx_PooliRead, rx_dead, none,
                     sched, event, device>>
    BY DEF GiveBack
<1>2. /\ Handed \in 0 .. NumRds - 1 /\ hwIndex \in Ring /\ rxIndex \in Ring
      /\ rxIndex = At(NumRds, hwIndex, Handed + 1) /\ own \subseteq Ring
    BY <1>1, UntakenIs DEF IInv, TypeOK, IndexInv, Kept
<1>3. /\ (rxIndex - 1) % NumRds = At(NumRds, hwIndex, Handed)
      /\ At(NumRds, hwIndex, Handed) \in Ring
      /\ Dist(NumRds, hwIndex, At(NumRds, hwIndex, Handed)) = Handed
    BY <1>2, PrevIsAt, AtAt, DistAt
<1>4. Handed' = Handed + 1 /\ Kept' = 0 /\ own' \subseteq Ring
  <2>1. At(NumRds, hwIndex, Handed) \in Ring \ own
    BY <1>2, <1>3 DEF IInv, OwnInv
  <2>2. QED
    BY <1>1, <1>2, <1>3, <2>1, OwnCard DEF Handed, Kept
<1>5. Untaken' = Untaken
    BY <1>1, <1>3 DEF Untaken
<1>6. TypeOK'
    BY <1>1, <1>4 DEF IInv, TypeOK
<1>7. OwnInv'
  <2> SUFFICES ASSUME NEW i \in Ring
               PROVE  i \in own' <=> Dist(NumRds, hwIndex, i) < Handed + 1
    BY <1>1, <1>4 DEF OwnInv
  <2>1. i \in own <=> Dist(NumRds, hwIndex, i) < Handed
    BY DEF IInv, OwnInv
  <2>2. i = At(NumRds, hwIndex, Handed) <=> Dist(NumRds, hwIndex, i) = Handed
    BY <1>2 DEF At, Dist
  <2>3. Dist(NumRds, hwIndex, i) \in Nat
    BY <1>2, AtDist
  <2>4. i \in own' <=> i \in own \/ i = At(NumRds, hwIndex, Handed)
    BY <1>1, <1>3
  <2>5. QED
    BY <1>2, <2>1, <2>2, <2>3, <2>4
<1>8. IndexInv'
    BY <1>1, <1>2, <1>4 DEF IndexInv
<1>9. ChainInv' /\ HeadInv' /\ PoolInv'
  <2>1. UNCHANGED <<NextSeg, NextTag, Room>>
    BY <1>1, <1>5 DEF NextSeg, NextTag, Room
  <2>2. QED
    BY <1>1, <1>5, <2>1 DEF IInv, ChainInv, HeadInv, PoolInv
<1>10. StrandInv'
    BY <1>1 DEF IInv, StrandInv
<1>11. QED
    BY <1>5, <1>6, <1>7, <1>8, <1>9, <1>10 DEF IInv

\* Discard and Copy take the segment at hand.
Take ==
    /\ Main("recv", "own")
    /\ rxIndex' = NextIndex(rxIndex)
    /\ UNCHANGED <<own, desc, debug, rx_PooliRead, rx_dead, none, sched>>

\* What follows it is its frame's next segment, or the first of another.
LEMMA TakeFacts ==
    ASSUME IInv, Take
    PROVE  /\ OwnInv' /\ IndexInv' /\ ChainInv' /\ StrandInv'
           /\ rxIndex \in Untaken /\ Untaken' = Untaken \ {rxIndex}
           /\ rxIndex' = At(NumRds, rxIndex, 1) /\ rxIndex' \in Ring
           /\ NextSeg = rmd.seg /\ NextTag = rmd.tag
           /\ IF rmd.ls THEN NextSeg' = 1
              ELSE NextSeg' = rmd.seg + 1 /\ NextTag' = rmd.tag
<1> USE DEF Main, ring, pooled, sched, device
<1>1. /\ pc = "recv" /\ pc' = "own" /\ rxIndex' = NextIndex(rxIndex)
      /\ UNCHANGED <<own, desc, debug, rx_dead, sched, event, device>>
    BY DEF Take
<1>2. /\ Handed \in 0 .. NumRds - 1 /\ Handed' = Handed /\ Kept = 0
      /\ Kept' = 1
      /\ hwIndex \in Ring /\ rxIndex \in Ring
      /\ rxIndex = At(NumRds, hwIndex, Handed)
    BY <1>1, UntakenIs, HandedFacts DEF IInv, TypeOK, IndexInv, Kept
<1>3. /\ rxIndex' = At(NumRds, rxIndex, 1) /\ rxIndex' \in Ring
      /\ rxIndex' = At(NumRds, hwIndex, Handed + 1)
      /\ (rxIndex' - 1) % NumRds = rxIndex
  <2>1. rxIndex' = At(NumRds, rxIndex, 1) /\ rxIndex' \in Ring
    BY <1>1, <1>2, NextIsAt
  <2>2. rxIndex' = At(NumRds, hwIndex, Handed + 1)
    BY <1>2, <2>1, AtAt
  <2>3. (rxIndex' - 1) % NumRds = At(NumRds, rxIndex', NumRds - 1)
    BY <2>1, PrevIsAt
  <2>4. QED
    BY <1>2, <2>1, <2>2, <2>3, AtAt
<1>4. OwnInv' /\ IndexInv' /\ StrandInv'
  <2>1. OwnInv'
    BY <1>1, <1>2 DEF IInv, OwnInv
  <2>2. IndexInv'
    BY <1>1, <1>2, <1>3 DEF IndexInv
  <2>3. StrandInv'
    BY <1>1 DEF IInv, StrandInv
  <2>4. QED
    BY <2>1, <2>2, <2>3
<1>5. rxIndex \in Untaken
    BY <1>2, UntakenIs
<1>6. Untaken' = Untaken \ {rxIndex}
    BY <1>1, <1>3 DEF Untaken
<1>7. ChainInv'
    BY <1>1, <1>6 DEF IInv, ChainInv
<1>8. rxIndex' \in Untaken' <=> rxIndex' # hwIndex
  <2>1. CASE rxIndex' = hwIndex
    <3>1. Handed + 1 = NumRds
      BY <1>2, <1>3, <2>1 DEF At
    <3>2. \A i \in Ring : Dist(NumRds, hwIndex, i) < NumRds
      BY <1>2, AtDist
    <3>3. \A i \in Untaken : Dist(NumRds, hwIndex, i) = Handed
      BY <1>2, <3>1, <3>2, UntakenIs, AtDist DEF Untaken
    <3>4. rxIndex' # rxIndex
      BY <1>2, <1>3, DistNext
    <3>5. Dist(NumRds, hwIndex, rxIndex') = 0 /\ Handed # 0
      BY <1>2, <2>1, <3>1 DEF Dist
    <3>6. QED
      BY <1>6, <2>1, <3>3, <3>5
  <2>2. CASE rxIndex' # hwIndex
    <3>1. rxIndex' \in Untaken
      BY <1>1, <1>5, <2>2, UntakenIs
    <3>2. rxIndex' # rxIndex
      BY <1>2, <1>3, DistNext
    <3>3. QED
      BY <1>6, <2>2, <3>1, <3>2
  <2>3. QED
    BY <2>1, <2>2
<1>9. /\ NextSeg' = IF rxIndex' = hwIndex THEN hwSeg + 1
                      ELSE desc[rxIndex'].seg
      /\ NextTag' = IF rxIndex' = hwIndex THEN hwTag ELSE desc[rxIndex'].tag
    BY <1>1, <1>8 DEF NextSeg, NextTag
<1>10. IF rmd.ls THEN NextSeg' = 1
       ELSE NextSeg' = rmd.seg + 1 /\ NextTag' = rmd.tag
  <2>1. IF rxIndex' = hwIndex
          THEN Continues(rmd, hwTag, hwSeg + 1)
          ELSE Continues(rmd, desc[rxIndex'].tag, desc[rxIndex'].seg)
    BY <1>1, <1>5 DEF IInv, ChainInv, rmd
  <2>2. QED
    BY <1>9, <2>1 DEF Continues
<1>11. NextSeg = rmd.seg /\ NextTag = rmd.tag
    BY <1>5 DEF NextSeg, NextTag, rmd
<1>12. QED
    BY <1>3, <1>4, <1>5, <1>6, <1>7, <1>10, <1>11

\* Discard: only the last segment of a frame is ever discarded, and nothing
\* of the frame is left in the pool.
LEMMA DiscardStep ==
    ASSUME IInv, Discard
    PROVE  /\ IInv' /\ Take /\ rmd.ls /\ rmd.es /\ ~IgnoreError
           /\ UNCHANGED <<pool, rx_PooliWrite, rx_PooliRead>>
<1> USE DEF Main, ring, pooled, sched, device
<1>1. /\ Take /\ Discarded /\ UNCHANGED <<pool, rx_PooliWrite, rx_PooliRead>>
      /\ rx_FristNeeded' = (rx_FristNeeded \/ rmd.ls)
    BY DEF Discard, Take
<1>2. rmd.ls /\ rmd.es /\ ~IgnoreError
    BY <1>1, TakeFacts DEF Discarded, IInv, HeadInv
<1>3. rx_FristNeeded' = TRUE
    BY <1>1, <1>2, Zenon
<1>4. TypeOK'
  <2>1. rx_FristNeeded' \in BOOLEAN /\ rxIndex' \in Ring
    BY <1>1, <1>3, TakeFacts
  <2>2. QED
    BY <1>1, <2>1 DEF IInv, TypeOK, Take
<1>5. HeadInv'
    BY <1>1, <1>2, <1>3, TakeFacts DEF HeadInv
<1>6. PoolInv'
    BY <1>1 DEF IInv, PoolInv
<1>7. QED
    BY <1>1, <1>2, <1>4, <1>5, <1>6, TakeFacts DEF IInv

\* Copy: the slot holds the frame from its first segment to this one.
LEMMA CopyFacts ==
    ASSUME IInv, Copy
    PROVE  /\ Take /\ Room /\ rx_PooliWrite \in Slots /\ rx_PooliRead \in Slots
           /\ pool' \in [Slots -> Seq(Copied)]
           /\ pool \in [Slots -> Seq(Copied)]
           /\ \A s \in Slots \ {rx_PooliWrite} : pool'[s] = pool[s]
           /\ Whole(pool'[rx_PooliWrite])
           /\ Len(pool'[rx_PooliWrite]) = rmd.seg
           /\ pool'[rx_PooliWrite][1].tag = rmd.tag
           /\ rmd \in Segments /\ (~rmd.ls \/ ~rmd.es \/ IgnoreError)
           /\ rx_FristNeeded' = rmd.ls
           /\ rx_PooliWrite' = IF rmd.ls THEN NextSlot(rx_PooliWrite)
                               ELSE rx_PooliWrite
<1> DEFINE w == rx_PooliWrite
           c == [tag |-> rmd.tag, seg |-> rmd.seg]
           base == IF rmd.seg = 1 THEN <<>> ELSE pool[w]
<1>1. /\ Take /\ ~Discarded /\ ~PoolFull /\ rx_FristNeeded' = rmd.ls
      /\ pool' = [pool EXCEPT ![w] = Append(base, c)]
      /\ rx_PooliWrite' = IF rmd.ls THEN NextSlot(w) ELSE w
    BY DEF Copy, Take, Main, device, sched
<1>2. /\ w \in Slots /\ rx_PooliRead \in Slots /\ rmd \in Segments
      /\ pool \in [Slots -> Seq(Copied)] /\ pool[w] \in Seq(Copied)
      /\ rx_FristNeeded \in BOOLEAN
    BY DEF IInv, TypeOK, rmd
<1>3. /\ c \in Copied /\ rmd.seg \in Nat \ {0}
      /\ c.tag = rmd.tag /\ c.seg = rmd.seg
    BY <1>2 DEF Copied, Segments
<1>4. CASE rmd.seg = 1
  <2>1. base = <<>> /\ Append(base, c) = <<c>>
    BY <1>4
  <2>2. Whole(<<c>>)
    BY <1>3, <1>4 DEF Whole
  <2>3. pool'[w] = <<c>> /\ <<c>> \in Seq(Copied)
    BY <1>1, <1>2, <1>3, <2>1
  <2>4. Room
    BY <1>1, <1>4 DEF PoolFull, Room
  <2>5. /\ Whole(pool'[w]) /\ Len(pool'[w]) = rmd.seg
        /\ pool'[w][1].tag = rmd.tag
    BY <1>3, <1>4, <2>2, <2>3
  <2>6. QED
    BY <1>1, <1>2, <2>3, <2>4, <2>5 DEF Discarded
<1>5. CASE rmd.seg # 1
  <2>1. base = pool[w] /\ ~rx_FristNeeded
    BY <1>1, <1>5 DEF Discarded
  <2>2. /\ Whole(pool[w]) /\ Room /\ rmd.seg = Len(pool[w]) + 1
        /\ rmd.tag = pool[w][1].tag
    BY <1>1, <2>1, TakeFacts DEF IInv, HeadInv
  <2> DEFINE new == Append(pool[w], c)
  <2>3. Len(pool[w]) \in Nat \ {0} /\ DOMAIN pool[w] = 1 .. Len(pool[w])
    BY <1>2, <2>2 DEF Whole
  <2>4. /\ new \in Seq(Copied) /\ Len(new) = Len(pool[w]) + 1
        /\ DOMAIN new = 1 .. Len(pool[w]) + 1
        /\ \A k \in 1 .. Len(pool[w]) : new[k] = pool[w][k]
        /\ new[Len(pool[w]) + 1] = c
    BY <1>2, <1>3
  <2>5. new[1].tag = rmd.tag /\ new # <<>>
    BY <2>2, <2>3, <2>4
  <2>6. ASSUME NEW k \in DOMAIN new
        PROVE  new[k] = [tag |-> new[1].tag, seg |-> k]
    <3>1. CASE k \in 1 .. Len(pool[w])
      <4>1. pool[w][k] = [tag |-> pool[w][1].tag, seg |-> k]
        BY <2>2, <2>3, <3>1 DEF Whole
      <4>2. QED
        BY <2>2, <2>4, <2>5, <3>1, <4>1
    <3>2. CASE k = Len(pool[w]) + 1
      BY <2>2, <2>4, <2>5, <3>2
    <3>3. QED
      BY <2>3, <2>4, <3>1, <3>2
  <2>7. pool'[w] = new
    BY <1>1, <1>2, <2>1
  <2>8. Whole(new) /\ Len(new) = rmd.seg
    BY <2>2, <2>4, <2>5, <2>6 DEF Whole
  <2>9. pool' \in [Slots -> Seq(Copied)]
    BY <1>1, <1>2, <2>1, <2>4
  <2>10. \A s \in Slots \ {w} : pool'[s] = pool[s]
    BY <1>1, <1>2
  <2> HIDE DEF new
  <2>11. QED
    BY <1>1, <1>2, <2>2, <2>5, <2>7, <2>8, <2>9, <2>10 DEF Discarded
<1>6. QED
    BY <1>4, <1>5

LEMMA CopyStep ==
    ASSUME IInv, Copy
    PROVE  IInv'
<1> DEFINE w == rx_PooliWrite
           r == rx_PooliRead
<1> USE DEF Main, sched, device
<1>1. /\ rmd.seg \in 1 .. MaxSeg /\ rmd.ls \in BOOLEAN
      /\ NextSlot(w) = At(PooliMax, w, 1) /\ NextSlot(w) \in Slots
    BY CopyFacts, NextIsAt DEF Segments
<1>2. TypeOK'
  <2>1. /\ pool' \in [Slots -> Seq(Copied)] /\ rx_FristNeeded' \in BOOLEAN
        /\ rx_PooliWrite' \in Slots /\ rxIndex' \in Ring
    BY <1>1, CopyFacts, TakeFacts
  <2>2. \A s \in Slots : Len(pool'[s]) <= MaxSeg
    <3> SUFFICES ASSUME NEW s \in Slots PROVE Len(pool'[s]) <= MaxSeg
      OBVIOUS
    <3>1. CASE s = w
      <4>1. Len(pool'[s]) = rmd.seg
        BY <3>1, CopyFacts
      <4>2. QED
        BY <1>1, <4>1
    <3>2. CASE s # w
      BY <3>2, CopyFacts DEF IInv, TypeOK
    <3>3. QED
      BY <3>1, <3>2
  <2>3. QED
    BY <2>1, <2>2, CopyFacts DEF IInv, TypeOK, Take
<1>3. HeadInv'
  <2>1. CASE rmd.ls
    <3>1. rx_FristNeeded' /\ NextSeg' = 1
      BY <2>1, CopyFacts, TakeFacts
    <3>2. QED
      BY <3>1 DEF HeadInv
  <2>2. CASE ~rmd.ls
    <3>1. /\ ~rx_FristNeeded' /\ NextSeg' = rmd.seg + 1 /\ NextTag' = rmd.tag
          /\ UNCHANGED <<rx_PooliWrite, rx_PooliRead>>
      BY <2>2, CopyFacts, TakeFacts DEF Take
    <3>2. Room'
      BY <3>1, CopyFacts DEF Room
    <3>3. QED
      BY <3>1, <3>2, CopyFacts DEF HeadInv
  <2>3. QED
    BY <2>1, <2>2
<1>4. PoolInv'
  <2> SUFFICES ASSUME NEW s \in Slots,
                      Dist(PooliMax, r, s) < Dist(PooliMax, r, rx_PooliWrite')
               PROVE  Whole(pool'[s])
    BY CopyFacts DEF PoolInv, Take
  <2>1. CASE s = w
    BY <2>1, CopyFacts
  <2>2. CASE s # w
    <3>1. Dist(PooliMax, r, s) < Dist(PooliMax, r, w)
      <4>1. r \in Slots /\ w \in Slots
        BY CopyFacts
      <4>2. rx_PooliWrite' = w \/ rx_PooliWrite' = At(PooliMax, w, 1)
        BY <1>1, CopyFacts
      <4>3. At(PooliMax, w, 1) # r
        BY <1>1, CopyFacts DEF Room
      <4>4. QED
        BY <2>2, <4>1, <4>2, <4>3 DEF At, Dist
    <3>2. QED
      BY <2>2, <3>1, CopyFacts DEF IInv, PoolInv
  <2>3. QED
    BY <2>1, <2>2
<1>5. QED
    BY <1>2, <1>3, <1>4, CopyFacts, TakeFacts DEF IInv

\* Arrive: what the device writes, and where it stands then.
LEMMA ArriveFacts ==
    ASSUME IInv, Arrive
    PROVE  \E end \in BOOLEAN, es \in BOOLEAN :
             /\ desc' = [desc EXCEPT ![hwIndex] =
                           [tag |-> hwTag, seg |-> hwSeg + 1,
                            ls |-> end, es |-> es]]
             /\ hwSeg' = IF end THEN 0 ELSE hwSeg + 1
             /\ hwTag' = IF end THEN 1 - hwTag ELSE hwTag
             /\ ~end => hwSeg + 1 # MaxSeg /\ ~es
             /\ hw' = hw \/ (hw' = "susp" /\ "RU" \in event')
             /\ event \subseteq event' /\ event' \subseteq RxInts
             /\ hwBad' \in 0 .. MaxBad
<1>1. PICK last \in BOOLEAN, bad \in BOOLEAN :
         LET cut == ~last /\ NextIndex(hwIndex) \notin own \ {hwIndex}
             end == last \/ cut
         IN  /\ hwSeg + 1 = MaxSeg => last
             /\ bad => last
             /\ bad \/ cut => hwBad < MaxBad
             /\ hwBad' = IF bad \/ cut THEN hwBad + 1
                         ELSE IF last THEN 0 ELSE hwBad
             /\ desc' = [desc EXCEPT ![hwIndex] =
                           [tag |-> hwTag, seg |-> hwSeg + 1,
                            ls |-> end, es |-> bad \/ cut]]
             /\ hwSeg' = IF end THEN 0 ELSE hwSeg + 1
             /\ hwTag' = IF end THEN 1 - hwTag ELSE hwTag
             /\ hw' = IF cut THEN "susp" ELSE hw
             /\ event' = event \cup (IF end THEN {"RI"} ELSE {})
                               \cup (IF cut THEN {"RU"} ELSE {})
    BY DEF Arrive
<1> DEFINE cut == ~last /\ NextIndex(hwIndex) \notin own \ {hwIndex}
           end == last \/ cut
           es == bad \/ cut
<1>2. end \in BOOLEAN /\ es \in BOOLEAN
    OBVIOUS
<1>3. desc' = [desc EXCEPT ![hwIndex] =
                 [tag |-> hwTag, seg |-> hwSeg + 1, ls |-> end, es |-> es]]
    BY <1>1
<1>4. /\ hwSeg' = IF end THEN 0 ELSE hwSeg + 1
      /\ hwTag' = IF end THEN 1 - hwTag ELSE hwTag
      /\ ~end => hwSeg + 1 # MaxSeg /\ ~es
      /\ hw' = hw \/ (hw' = "susp" /\ "RU" \in event')
    BY <1>1
<1>5. event \subseteq event' /\ event' \subseteq RxInts
    BY <1>1 DEF IInv, TypeOK, RxInts
<1>6. hwBad' \in 0 .. MaxBad
    BY <1>1 DEF IInv, TypeOK
<1> HIDE DEF end, es
<1>7. QED
    BY <1>2, <1>3, <1>4, <1>5, <1>6

LEMMA ArriveStep ==
    ASSUME IInv, Arrive
    PROVE  /\ IInv' /\ hwIndex \in own /\ hwIndex \in Ring
           /\ Untaken' = Untaken \cup {hwIndex}
           /\ \A i \in Untaken :
                Dist(NumRds, rxIndex, i) < Dist(NumRds, rxIndex, hwIndex)
<1>1. PICK end \in BOOLEAN, es \in BOOLEAN :
             /\ desc' = [desc EXCEPT ![hwIndex] =
                           [tag |-> hwTag, seg |-> hwSeg + 1,
                            ls |-> end, es |-> es]]
             /\ hwSeg' = IF end THEN 0 ELSE hwSeg + 1
             /\ hwTag' = IF end THEN 1 - hwTag ELSE hwTag
             /\ ~end => hwSeg + 1 # MaxSeg /\ ~es
             /\ hw' = hw \/ (hw' = "susp" /\ "RU" \in event')
             /\ event \subseteq event' /\ event' \subseteq RxInts
             /\ hwBad' \in 0 .. MaxBad
    BY ArriveFacts
<1>2. /\ hwIndex \in own /\ own' = own \ {hwIndex} /\ hw = "run"
      /\ hwIndex' = NextIndex(hwIndex)
      /\ UNCHANGED <<rxIndex, debug, pool, rx_PooliWrite, rx_FristNeeded,
                     rx_PooliRead, rx_dead, none, pc, rxScheduled, masked, csr7,
                     undone, forgot>>
    BY DEF Arrive, pooled, sched
<1>3. /\ hwIndex \in Ring /\ rxIndex \in Ring /\ own \subseteq Ring
      /\ desc \in [Ring -> Segments] /\ hwSeg \in 0 .. MaxSeg - 1
      /\ hwTag \in {0, 1}
    BY DEF IInv, TypeOK
<1>4. /\ hwIndex' = At(NumRds, hwIndex, 1) /\ hwIndex' \in Ring
      /\ hwIndex' # hwIndex
    BY <1>2, <1>3, NextIsAt, DistNext
<1>5. /\ Handed' = Handed - 1 /\ Handed \in 1 .. NumRds
      /\ Kept' = Kept /\ Kept \in 0 .. 1
  <2>1. Handed' = Handed - 1 /\ Kept' = Kept
    BY <1>2, <1>3, OwnCard DEF Handed, Kept
  <2>2. Handed \in 0 .. NumRds /\ Kept \in 0 .. 1
    BY UntakenIs
  <2>3. Dist(NumRds, hwIndex, hwIndex) < Handed
    BY <1>2, <1>3 DEF IInv, OwnInv
  <2>4. QED
    BY <1>3, <2>1, <2>2, <2>3 DEF Dist
<1>6. Untaken' = Untaken \cup {hwIndex} /\ hwIndex \notin Untaken
  <2>1. pc = "own" => (rxIndex - 1) % NumRds \notin own
    <3> SUFFICES ASSUME pc = "own" PROVE (rxIndex - 1) % NumRds \notin own
      OBVIOUS
    <3>1. /\ Kept = 1 /\ rxIndex = At(NumRds, hwIndex, Handed + 1)
          /\ Handed < NumRds
      BY <1>5 DEF Kept, IInv, IndexInv
    <3>2. (rxIndex - 1) % NumRds = At(NumRds, hwIndex, Handed)
      BY <1>3, <1>5, <3>1, PrevIsAt, AtAt
    <3>3. /\ At(NumRds, hwIndex, Handed) \in Ring
          /\ Dist(NumRds, hwIndex, At(NumRds, hwIndex, Handed)) = Handed
      BY <1>3, <1>5, <3>1 DEF At, Dist
    <3>4. QED
      BY <1>5, <3>2, <3>3 DEF IInv, OwnInv
  <2>2. QED
    BY <1>2, <1>3, <2>1 DEF Untaken
<1>7. TypeOK'
  <2>1. desc' \in [Ring -> Segments]
    BY <1>1, <1>3 DEF Segments
  <2>2. hwSeg' \in 0 .. MaxSeg - 1 /\ hwTag' \in {0, 1}
    BY <1>1, <1>3
  <2>3. hw' \in {"run", "susp"}
    BY <1>1, <1>2
  <2>4. QED
    BY <1>1, <1>2, <1>4, <2>1, <2>2, <2>3 DEF IInv, TypeOK
<1>8. OwnInv'
  <2> SUFFICES ASSUME NEW i \in Ring
               PROVE  i \in own' <=> Dist(NumRds, hwIndex', i) < Handed - 1
    BY <1>5 DEF OwnInv
  <2>1. i \in own <=> Dist(NumRds, hwIndex, i) < Handed
    BY DEF IInv, OwnInv
  <2>2. CASE i = hwIndex
    <3>1. Dist(NumRds, hwIndex', i) = NumRds - 1
      BY <1>3, <1>4, <2>2 DEF At, Dist
    <3>2. QED
      BY <1>2, <1>5, <2>2, <3>1
  <2>3. CASE i # hwIndex
    <3>1. /\ Dist(NumRds, hwIndex', i) = Dist(NumRds, hwIndex, i) - 1
          /\ Dist(NumRds, hwIndex, i) \in Nat
      BY <1>3, <1>4, <2>3 DEF At, Dist
    <3>2. QED
      BY <1>2, <1>5, <2>1, <2>3, <3>1
  <2>4. QED
    BY <2>2, <2>3
<1>9. IndexInv'
  <2>1. /\ Handed + Kept <= NumRds
        /\ rxIndex = At(NumRds, hwIndex, Handed + Kept)
    BY DEF IInv, IndexInv
  <2>2. At(NumRds, hwIndex', Handed - 1 + Kept)
          = At(NumRds, hwIndex, Handed + Kept)
    BY <1>3, <1>4, <1>5, <2>1 DEF At
  <2>3. QED
    BY <1>2, <1>5, <2>1, <2>2 DEF IndexInv
<1>10. desc'[hwIndex] =
         [tag |-> hwTag, seg |-> hwSeg + 1, ls |-> end, es |-> es]
    BY <1>1, <1>3
<1>11. \A i \in Ring \ {hwIndex} : desc'[i] = desc[i]
    BY <1>1, <1>3
<1>12. ChainInv'
  <2> SUFFICES ASSUME NEW i \in Untaken \cup {hwIndex}
               PROVE  IF NextIndex(i) = hwIndex'
                        THEN Continues(desc'[i], hwTag', hwSeg' + 1)
                        ELSE Continues(desc'[i], desc'[NextIndex(i)].tag,
                                       desc'[NextIndex(i)].seg)
    BY <1>6 DEF ChainInv
  <2>1. CASE i = hwIndex
    <3>1. Continues(desc'[i], hwTag', hwSeg' + 1)
      BY <1>1, <1>3, <1>10, <2>1 DEF Continues
    <3>2. QED
      BY <1>2, <2>1, <3>1
  <2>2. CASE i \in Untaken /\ i # hwIndex
    <3>1. /\ i \in Ring /\ NextIndex(i) = At(NumRds, i, 1)
          /\ NextIndex(i) \in Ring
      BY <2>2, NextIsAt DEF Untaken
    <3>2. NextIndex(i) # hwIndex' /\ desc'[i] = desc[i]
      BY <1>3, <1>4, <1>11, <2>2, <3>1, DistNext
    <3>3. CASE NextIndex(i) = hwIndex
      <4>1. Continues(desc[i], hwTag, hwSeg + 1)
        BY <2>2, <3>3 DEF IInv, ChainInv
      <4>2. /\ desc'[NextIndex(i)].tag = hwTag
            /\ desc'[NextIndex(i)].seg = hwSeg + 1
        BY <1>10, <3>3
      <4>3. QED
        BY <3>2, <4>1, <4>2
    <3>4. CASE NextIndex(i) # hwIndex
      BY <1>11, <2>2, <3>1, <3>2, <3>4 DEF IInv, ChainInv
    <3>5. QED
      BY <3>3, <3>4
  <2>3. QED
    BY <1>6, <2>1, <2>2
<1>13. HeadInv' /\ PoolInv'
  <2>1. NextSeg' = NextSeg /\ NextTag' = NextTag
    <3>1. CASE rxIndex \in Untaken
      BY <1>2, <1>3, <1>6, <1>11, <3>1 DEF NextSeg, NextTag
    <3>2. CASE rxIndex \notin Untaken
      <4>1. rxIndex = hwIndex
        BY <3>2, UntakenIs DEF IInv, IndexInv
      <4>2. QED
        BY <1>2, <1>6, <1>10, <3>2, <4>1 DEF NextSeg, NextTag
    <3>3. QED
      BY <3>1, <3>2
  <2>2. UNCHANGED Room
    BY <1>2 DEF Room
  <2>3. QED
    BY <1>2, <2>1, <2>2 DEF IInv, HeadInv, PoolInv
<1>14. StrandInv'
    BY <1>1, <1>2, <1>3 DEF IInv, StrandInv
<1>15. ASSUME NEW i \in Untaken
       PROVE  Dist(NumRds, rxIndex, i) < Dist(NumRds, rxIndex, hwIndex)
  <2>1. /\ Handed + Kept <= NumRds
        /\ rxIndex = At(NumRds, hwIndex, Handed + Kept)
    BY DEF IInv, IndexInv
  <2>2. i \in Ring /\ Dist(NumRds, hwIndex, i) >= Handed + Kept
    BY UntakenIs DEF Untaken
  <2>3. QED
    BY <1>3, <1>5, <2>1, <2>2 DEF At, Dist
<1>16. QED
    BY <1>2, <1>3, <1>6, <1>7, <1>8, <1>9, <1>12, <1>13, <1>14, <1>15 DEF IInv

LEMMA NextInv == IInv /\ [Next]_vars => IInv'
<1> SUFFICES ASSUME IInv, [Next]_vars PROVE IInv'
    OBVIOUS
<1>1. CASE Next
    BY <1>1, LookStep, PollDemandStep, ScheduleStep, ReadStep, GiveBackStep,
       DiscardStep, CopyStep, ArriveStep
       DEF Next, Poll, sMacRxSchedule, sMacRecv
<1>2. CASE UNCHANGED vars
  <2>1. /\ UNCHANGED <<ring, pooled, rx_PooliRead, rx_dead, none, pc, sched,
                       event, device>>
    BY <1>2 DEF vars
  <2>2. TypeOK' /\ StrandInv'
    BY <2>1 DEF IInv, TypeOK, StrandInv, ring, pooled, sched, device
  <2>3. pc = "recv" => rxIndex \notin own
    BY UntakenIs DEF IInv, IndexInv, Kept, Untaken
  <2>4. QED
    BY <2>1, <2>2, <2>3, QuietKeeps DEF IInv, device
<1>3. QED
    BY <1>1, <1>2

(***************************************************************************)
(* The interrupts                                                          *)
(***************************************************************************)
\* The steps that leave rxScheduled, CSR7 and the device as they are.
LEMMA QuietMaskStep ==
    ASSUME IInv, MaskInv, UNCHANGED <<debug, rx_dead, hw, event, sched>>,
           pc' \in {"enable", "write"} => pc' = pc,
           \/ pc = "idle" /\ rxScheduled
           \/ pc \in {"get", "again", "recv", "own", "dead", "unsched"}
           \/ pc' = pc
    PROVE  MaskInv'
BY DEF MaskInv, DeathIsKnown, ForgetsOnlyUnmasked, ScheduleInv, sched

\* The steps of the main thread that read or write CSR7 or rxScheduled.
LEMMA MainMaskStep ==
    ASSUME IInv, MaskInv, RxDone \/ TxEnable \/ TxEnabled
    PROVE  MaskInv'
<1> USE DEF Main, ring, device, MaskInv, ScheduleInv
<1>1. UNCHANGED <<debug, rx_dead, hw, event, forgot>>
    BY DEF RxDone, Unschedule, TxEnable, TxEnabled, ReadCSR7, WriteCSR7
<1>2. DeathIsKnown'
    BY <1>1 DEF DeathIsKnown
<1>3. undone => undone'
    BY DEF RxDone, Unschedule, TxEnable, TxEnabled, ReadCSR7, WriteCSR7
<1>4. ForgetsOnlyUnmasked'
    BY <1>1, <1>3 DEF ForgetsOnlyUnmasked
<1>5. ASSUME ~debug, ~undone', ~Merging PROVE ScheduleInv'
  <2>1. ScheduleInv
    BY <1>3, <1>5
  <2>2. CASE Unschedule
    BY <2>1, <2>2 DEF Unschedule
  <2>3. CASE ReadCSR7("enable", "write") \/ TxEnable
    BY <2>1, <2>3 DEF TxEnable, ReadCSR7
  <2>4. CASE WriteCSR7("write", IF Merging THEN {"RI"} ELSE RxInts)
    BY <2>1, <2>4 DEF WriteCSR7
  <2>5. CASE TxEnabled
    <3>1. /\ pc' = "idle" /\ masked' = csr7 /\ masked \subseteq csr7
          /\ csr7 \subseteq RxInts /\ UNCHANGED rxScheduled
      BY <1>5, <2>5 DEF TxEnabled, WriteCSR7, IInv, TypeOK
    <3>2. QED
      BY <2>1, <3>1
  <2>6. QED
    BY <2>2, <2>3, <2>4, <2>5 DEF RxDone
<1>6. QED
    BY <1>1, <1>2, <1>4, <1>5

\* The handler: while its mask stands it has nothing to forget.
LEMMA IntMaskStep ==
    ASSUME IInv, MaskInv, sMacInt
    PROVE  MaskInv'
<1>1. /\ event \ masked # {} /\ event \subseteq RxInts
      /\ event' = event \cap masked
      /\ rx_dead' = (rx_dead \/ "RU" \in event \ masked)
      /\ rxScheduled' = TRUE
      /\ masked' = IF rxScheduled \/ debug THEN masked ELSE RxInts
      /\ forgot' = (rxScheduled /\ pc = "unsched")
      /\ UNCHANGED <<pc, undone, hw, debug>>
    BY DEF sMacInt, ring, device, IInv, TypeOK
<1>2. DeathIsKnown'
    BY <1>1 DEF MaskInv, DeathIsKnown
<1>3. ASSUME ~debug, ~undone, ~Merging
      PROVE  ~rxScheduled /\ pc \notin {"enable", "write"}
  <2>1. masked # RxInts /\ ScheduleInv
    BY <1>1, <1>3 DEF MaskInv
  <2>2. QED
    BY <2>1 DEF ScheduleInv
<1>4. ForgetsOnlyUnmasked'
    BY <1>1, <1>3 DEF ForgetsOnlyUnmasked
<1>5. ASSUME ~debug, ~undone, ~Merging PROVE ScheduleInv'
    BY <1>1, <1>3, <1>5 DEF ScheduleInv
<1>6. QED
    BY <1>1, <1>2, <1>4, <1>5 DEF MaskInv

\* The poll demand, which rx_dead asks for, and the device.
LEMMA DeviceMaskStep ==
    ASSUME IInv, MaskInv, PollDemand \/ Arrive \/ Suspend
    PROVE  MaskInv'
<1> USE DEF ring, sched
<1>1. /\ UNCHANGED <<debug, sched>>
      /\ pc' = pc \/ (pc = "dead" /\ pc' = "get")
    BY DEF PollDemand, Arrive, Suspend
<1>2. DeathIsKnown'
  <2>1. CASE PollDemand
    BY <2>1 DEF PollDemand, MaskInv, DeathIsKnown
  <2>2. CASE Arrive
    BY <2>2 DEF Arrive, MaskInv, DeathIsKnown
  <2>3. CASE Suspend
    BY <2>3 DEF Suspend, MaskInv, DeathIsKnown
  <2>4. QED
    BY <2>1, <2>2, <2>3
<1>3. QED
    BY <1>1, <1>2 DEF MaskInv, ForgetsOnlyUnmasked, ScheduleInv

LEMMA NextMask == IInv /\ MaskInv /\ [Next]_vars => MaskInv'
<1> SUFFICES ASSUME IInv, MaskInv, [Next]_vars PROVE MaskInv'
    OBVIOUS
<1>1. CASE EnterRxSchedule \/ sMacGetFullRMD \/ NoRMD \/ Discard \/ Copy \/ NoPool
           \/ GiveBack \/ Read \/ UNCHANGED vars
  <2>1. /\ UNCHANGED <<debug, rx_dead, hw, event, sched>>
        /\ pc' \in {"enable", "write"} => pc' = pc
    BY <1>1 DEF EnterRxSchedule, sMacGetFullRMD, NoRMD, Discard, Copy, NoPool,
                GiveBack, Read, Main, ring, device, vars
  <2>2. \/ pc = "idle" /\ rxScheduled
        \/ pc \in {"get", "again", "recv", "own", "dead", "unsched"}
        \/ pc' = pc
    BY <1>1 DEF EnterRxSchedule, sMacGetFullRMD, NoRMD, Discard, Copy, NoPool,
                GiveBack, Read, Main, vars
  <2>3. QED
    BY <2>1, <2>2, QuietMaskStep
<1>2. QED
    BY <1>1, MainMaskStep, IntMaskStep, DeviceMaskStep
       DEF Next, Poll, sMacRxSchedule, sMacRecv

\* For every size of ring and pool: the segments in the ring and the slot in
\* use always continue one another, up to what the device receives next, and
\* CSR7 disables what is scheduled unless a write has undone it.
THEOREM Invariance == Spec => [](IInv /\ MaskInv)
<1>1. Init => MaskInv
    BY DEF Init, MaskInv, DeathIsKnown, ForgetsOnlyUnmasked, ScheduleInv
<1>2. QED
    BY InitInv, NextInv, NextMask, <1>1, PTL DEF Spec

\* sMacRecv and sMacInt, for every ring and pool: the indices stay in
\* the ring and in the pool, no slot overflows, and a suspended device is
\* always known to be or has its interrupt pending.  With tx_merge_number = 0,
\* sMacInt forgets an interrupt only if it is not masked or a write of CSR7
\* has undone its mask; and in the build where it is not masked the device is
\* never left suspended with all descriptors its own.  (The build that masks
\* can leave it so, which this does not deny.)
THEOREM RxIsSound == Spec => []RxSound
<1>1. IInv /\ MaskInv => RxSound
    BY DEF IInv, MaskInv, StrandInv, RxSound, NotStranded
<1>2. QED
    BY <1>1, Invariance, PTL

(***************************************************************************)
(* The ring and the pool implement the queue of RxFifo                     *)
(***************************************************************************)
Frames == [tag : {0, 1}, len : 1 .. MaxSeg]

\* The frame that a descriptor ends, and the ends up to it.
FrameAt(i) == [tag |-> desc[i].tag, len |-> desc[i].seg]

Upto(i) == {j \in Ends : Dist(NumRds, rxIndex, j) <= Dist(NumRds, rxIndex, i)}

\* The ends of frames in the ring are numbered without gaps, in their order.
RingIs ==
    /\ IsFiniteSet(Ends) /\ Ends \subseteq Ring /\ Cardinality(Ends) \in Nat
    /\ \A i \in Ends : Rank(i) = Cardinality(Upto(i))
    /\ \A i \in Ends : Rank(i) \in 1 .. Cardinality(Ends)
    /\ \A k \in 1 .. Cardinality(Ends) : \E i \in Ends : Rank(i) = k
    /\ InRing \in [1 .. Cardinality(Ends) -> Frames]
    /\ \A i \in Ends : InRing[Rank(i)] = FrameAt(i)

LEMMA RingShape == IInv => RingIs
<1> SUFFICES ASSUME IInv PROVE RingIs
    OBVIOUS
<1> DEFINE n == Cardinality(Ends)
<1>1. /\ Ends \subseteq Ring /\ rxIndex \in Ring /\ desc \in [Ring -> Segments]
      /\ IsFiniteSet(Ends) /\ n \in Nat
  <2>1. Ends \subseteq Ring
    BY DEF Ends, Untaken
  <2>2. QED
    BY <2>1, OwnCard DEF IInv, TypeOK
<1>2. \A i \in Ends : Dist(NumRds, rxIndex, i) \in Int
    BY <1>1, AtDist
<1>3. ASSUME NEW i \in Ends
      PROVE  /\ Rank(i) = Cardinality(Upto(i)) /\ i \in Upto(i)
             /\ Upto(i) \subseteq Ends /\ IsFiniteSet(Upto(i))
             /\ Rank(i) \in 1 .. n
  <2>1. \A j \in Ring : (j - rxIndex) % NumRds = Dist(NumRds, rxIndex, j)
    BY <1>1, ModIsDist
  <2>2. Upto(i) = {j \in Ends :
                     (j - rxIndex) % NumRds <= (i - rxIndex) % NumRds}
    BY <1>1, <2>1 DEF Upto
  <2>3. Rank(i) = Cardinality(Upto(i))
    BY <2>2 DEF Rank
  <2>4. i \in Upto(i) /\ Upto(i) \subseteq Ends
    BY <1>2 DEF Upto
  <2>5. /\ IsFiniteSet(Upto(i)) /\ Cardinality(Upto(i)) <= n
        /\ Cardinality(Upto(i)) \in Nat
    BY <1>1, <2>4, FS_Subset, FS_CardinalityType
  <2>6. Cardinality(Upto(i)) # 0
    BY <2>4, <2>5, FS_EmptySet
  <2>7. QED
    BY <1>1, <2>3, <2>4, <2>5, <2>6
<1>4. ASSUME NEW i \in Ends, NEW j \in Ends,
             Dist(NumRds, rxIndex, i) < Dist(NumRds, rxIndex, j)
      PROVE  Rank(i) < Rank(j)
  <2>1. j \notin Upto(i) /\ Upto(i) \cup {j} \subseteq Upto(j)
    BY <1>4, <1>2 DEF Upto
  <2>2. Cardinality(Upto(i) \cup {j}) = Cardinality(Upto(i)) + 1
    BY <1>3, <2>1, FS_AddElement
  <2>3. Cardinality(Upto(i) \cup {j}) <= Cardinality(Upto(j))
    BY <1>3, <2>1, FS_Subset
  <2>4. QED
    BY <1>3, <2>2, <2>3
<1>5. ASSUME NEW i \in Ends, NEW j \in Ends, Rank(i) = Rank(j) PROVE i = j
  <2>1. Dist(NumRds, rxIndex, i) = Dist(NumRds, rxIndex, j)
    <3>1. Rank(i) \in Int /\ Rank(j) \in Int
      BY <1>3
    <3>2. QED
      BY <1>4, <1>5, <1>2, <3>1
  <2>2. QED
    BY <1>1, <2>1, AtDist
<1>6. ASSUME NEW k \in 1 .. n PROVE \E i \in Ends : Rank(i) = k
  <2> DEFINE f == [i \in Ends |-> Rank(i)]
  <2>1. f \in Injection(Ends, 1 .. n)
    BY <1>3, <1>5 DEF Injection, IsInjective
  <2>2. IsFiniteSet(1 .. n) /\ Cardinality(1 .. n) = n
    BY <1>1, FS_Interval
  <2>3. f \in Surjection(Ends, 1 .. n)
    BY <2>1, <2>2, FS_Injection
  <2>4. QED
    BY <2>3 DEF Surjection
<1>7. ASSUME NEW k \in 1 .. n
      PROVE  /\ InRing[k] \in Frames
             /\ \A i \in Ends : Rank(i) = k => InRing[k] = FrameAt(i)
  <2> DEFINE c == CHOOSE i \in Ends : Rank(i) = k
  <2>1. c \in Ends /\ Rank(c) = k
    BY <1>6
  <2>2. InRing[k] = FrameAt(c)
    BY DEF InRing, FrameAt
  <2>3. FrameAt(c) \in Frames
    <3>1. desc[c] \in Segments
      BY <1>1, <2>1
    <3>2. QED
      BY <3>1 DEF FrameAt, Frames, Segments
  <2>4. QED
    BY <1>5, <2>1, <2>2, <2>3
<1>8. InRing \in [1 .. n -> Frames]
    BY <1>7 DEF InRing
<1>9. \A i \in Ends : InRing[Rank(i)] = FrameAt(i)
    BY <1>3, <1>7
<1>10. QED
    BY <1>1, <1>3, <1>6, <1>8, <1>9 DEF RingIs

\* A step that leaves the ends and their order alone leaves the frames in
\* the ring alone.
LEMMA RingKept ==
    ASSUME IInv, IInv', Ends' = Ends,
           \A i \in Ends : desc'[i] = desc[i] /\ Rank(i)' = Rank(i)
    PROVE  InRing' = InRing
<1>1. RingIs /\ RingIs'
    BY RingShape, PTL
<1>2. ASSUME NEW k \in 1 .. Cardinality(Ends) PROVE InRing'[k] = InRing[k]
  <2>1. PICK i \in Ends : Rank(i) = k
    BY <1>1 DEF RingIs
  <2>2. InRing[k] = FrameAt(i) /\ InRing'[k] = FrameAt(i)'
    BY <1>1, <2>1 DEF RingIs
  <2>3. FrameAt(i)' = FrameAt(i)
    BY DEF FrameAt
  <2>4. QED
    BY <2>2, <2>3
<1>3. QED
    BY <1>1, <1>2 DEF RingIs

\* The end of a good frame that arrives is put behind the others.
LEMMA RingPut ==
    ASSUME IInv, IInv', UNCHANGED rxIndex, NEW h \in Ring, h \notin Ends,
           Ends' = Ends \cup {h}, \A i \in Ends : desc'[i] = desc[i],
           \A i \in Ends : Dist(NumRds, rxIndex, i) < Dist(NumRds, rxIndex, h)
    PROVE  InRing' = Append(InRing, FrameAt(h)') /\ FrameAt(h)' \in Frames
<1> DEFINE n == Cardinality(Ends)
<1>1. RingIs /\ RingIs' /\ rxIndex \in Ring
    BY RingShape, PTL DEF IInv, TypeOK
<1>2. n \in Nat /\ Cardinality(Ends') = n + 1
    BY <1>1, FS_AddElement DEF RingIs
<1>3. /\ \A i \in Ends : Dist(NumRds, rxIndex, i) \in Int
      /\ Dist(NumRds, rxIndex, h) \in Int
  <2>1. \A i \in Ring : Dist(NumRds, rxIndex, i) \in Int
    BY <1>1 DEF Dist
  <2>2. QED
    BY <1>1, <2>1 DEF RingIs
<1>4. ASSUME NEW i \in Ends
      PROVE  Rank(i)' = Rank(i) /\ FrameAt(i)' = FrameAt(i)
  <2>1. Upto(i)' = Upto(i)
    BY <1>3 DEF Upto
  <2>2. QED
    BY <1>1, <2>1 DEF RingIs, FrameAt
<1>5. Rank(h)' = n + 1
  <2>1. Upto(h)' = Ends'
    BY <1>3 DEF Upto
  <2>2. QED
    BY <1>1, <1>2, <2>1 DEF RingIs
<1>6. ASSUME NEW k \in 1 .. n PROVE InRing'[k] = InRing[k]
  <2>1. PICK i \in Ends : Rank(i) = k
    BY <1>1 DEF RingIs
  <2>2. QED
    BY <1>1, <1>4, <2>1 DEF RingIs
<1>7. /\ InRing'[n + 1] = FrameAt(h)' /\ FrameAt(h)' \in Frames
      /\ InRing' \in [1 .. n + 1 -> Frames] /\ InRing \in [1 .. n -> Frames]
  <2>1. InRing' \in [1 .. n + 1 -> Frames] /\ InRing \in [1 .. n -> Frames]
    BY <1>1, <1>2 DEF RingIs
  <2>2. InRing'[n + 1] = FrameAt(h)'
    BY <1>1, <1>5 DEF RingIs
  <2>3. QED
    BY <1>2, <2>1, <2>2
<1>8. /\ InRing \in Seq(Frames) /\ Len(InRing) = n
      /\ InRing' \in Seq(Frames) /\ Len(InRing') = n + 1
    BY <1>2, <1>7
<1>9. QED
    BY <1>2, <1>6, <1>7, <1>8

\* The segment taken ends no good frame.
LEMMA RingDrop ==
    ASSUME IInv, IInv', Take, rxIndex \notin Ends
    PROVE  InRing' = InRing
<1>1. /\ Untaken' = Untaken \ {rxIndex} /\ UNCHANGED desc
      /\ rxIndex \in Ring /\ rxIndex' = At(NumRds, rxIndex, 1)
    BY TakeFacts DEF Take, IInv, TypeOK
<1>2. Ends' = Ends
    BY <1>1 DEF Ends
<1>3. ASSUME NEW i \in Ends PROVE Rank(i)' = Rank(i)
  <2>1. RingIs /\ RingIs'
    BY RingShape, PTL
  <2>2. \A j \in Ends :
          /\ Dist(NumRds, rxIndex', j) = Dist(NumRds, rxIndex, j) - 1
          /\ Dist(NumRds, rxIndex, j) \in Int
    BY <1>1, <2>1, DistNext, AtDist DEF RingIs
  <2>3. Upto(i)' = Upto(i)
    BY <1>2, <2>2 DEF Upto
  <2>4. QED
    BY <1>2, <2>1, <2>3 DEF RingIs
<1>4. QED
    BY <1>1, <1>2, <1>3, RingKept

\* The segment taken ends the first good frame.
LEMMA RingGet ==
    ASSUME IInv, IInv', Take, rxIndex \in Ends
    PROVE  /\ InRing = <<FrameAt(rxIndex)>> \o InRing'
           /\ InRing' \in Seq(Frames) /\ FrameAt(rxIndex) \in Frames
<1> DEFINE n == Cardinality(Ends)
           x == rxIndex
<1>1. /\ Untaken' = Untaken \ {x} /\ UNCHANGED desc
      /\ x \in Ring /\ rxIndex' = At(NumRds, x, 1)
    BY TakeFacts DEF Take, IInv, TypeOK
<1>2. RingIs /\ RingIs'
    BY RingShape, PTL
<1>3. Ends' = Ends \ {x}
    BY <1>1 DEF Ends
<1>4. n \in Nat \ {0} /\ Cardinality(Ends') = n - 1
    BY <1>2, <1>3, FS_RemoveElement, FS_EmptySet DEF RingIs
<1>5. \A j \in Ends : Dist(NumRds, x, j) \in Nat
    BY <1>1, <1>2, AtDist DEF RingIs
<1>6. \A j \in Ends' : Dist(NumRds, rxIndex', j) = Dist(NumRds, x, j) - 1
    BY <1>1, <1>2, <1>3, DistNext DEF RingIs
<1>7. Dist(NumRds, x, x) = 0
    BY <1>1 DEF Dist
<1>8. Rank(x) = 1
  <2>1. \A j \in Ends : Dist(NumRds, x, j) = 0 => j = x
    BY <1>1, <1>2, DistNext DEF RingIs
  <2>2. Upto(x) = {x}
    BY <1>5, <1>7, <2>1 DEF Upto
  <2>3. QED
    BY <1>2, <2>2, FS_Singleton DEF RingIs
<1>9. ASSUME NEW i \in Ends'
      PROVE  Rank(i)' = Rank(i) - 1 /\ FrameAt(i)' = FrameAt(i)
  <2>1. x \in Upto(i) /\ Upto(i)' = Upto(i) \ {x}
    BY <1>3, <1>5, <1>6, <1>7 DEF Upto
  <2>2. IsFiniteSet(Upto(i))
    <3>1. Upto(i) \subseteq Ends
      BY DEF Upto
    <3>2. QED
      BY <1>2, <3>1, FS_Subset DEF RingIs
  <2>3. Cardinality(Upto(i)') = Cardinality(Upto(i)) - 1
    BY <2>1, <2>2, FS_RemoveElement
  <2>4. QED
    BY <1>1, <1>2, <1>3, <2>3 DEF RingIs, FrameAt
<1>10. ASSUME NEW k \in 1 .. n - 1 PROVE InRing[k + 1] = InRing'[k]
  <2>1. PICK i \in Ends' : Rank(i)' = k
    BY <1>2, <1>4 DEF RingIs
  <2>2. Rank(i) = k + 1 /\ i \in Ends
    BY <1>2, <1>3, <1>9, <2>1 DEF RingIs
  <2>3. QED
    BY <1>2, <1>9, <2>1, <2>2 DEF RingIs
<1>11. /\ InRing \in [1 .. n -> Frames] /\ InRing' \in [1 .. n - 1 -> Frames]
       /\ InRing[1] = FrameAt(x)
    BY <1>2, <1>4, <1>8 DEF RingIs
<1>12. /\ InRing \in Seq(Frames) /\ Len(InRing) = n
       /\ InRing' \in Seq(Frames) /\ Len(InRing') = n - 1
       /\ FrameAt(x) \in Frames
    BY <1>4, <1>11
<1>13. QED
    BY <1>4, <1>10, <1>11, <1>12

\* The pool holds the frames between the two indices.
PoolIs ==
    LET n == Dist(PooliMax, rx_PooliRead, rx_PooliWrite) IN
    /\ n \in 0 .. PooliMax - 1
    /\ InPool \in [1 .. n -> Frames]
    /\ \A j \in 1 .. n :
         LET s == pool[At(PooliMax, rx_PooliRead, j - 1)]
         IN  InPool[j] = [tag |-> s[1].tag, len |-> Len(s)]

LEMMA WholeIsFrame ==
    ASSUME NEW s \in Seq(Copied), Whole(s), Len(s) <= MaxSeg
    PROVE  /\ Frame(s) = [tag |-> s[1].tag, len |-> Len(s)]
           /\ [tag |-> s[1].tag, len |-> Len(s)] \in Frames
<1>1. Len(s) \in 1 .. MaxSeg /\ s[1] \in Copied
    BY DEF Whole
<1>2. QED
    BY <1>1 DEF Whole, Frame, Frames, Copied

LEMMA PoolShape == IInv => PoolIs
<1> SUFFICES ASSUME IInv PROVE PoolIs
    OBVIOUS
<1> DEFINE n == Dist(PooliMax, rx_PooliRead, rx_PooliWrite)
           S(j) == pool[At(PooliMax, rx_PooliRead, j - 1)]
<1>1. /\ rx_PooliRead \in Slots /\ rx_PooliWrite \in Slots
      /\ pool \in [Slots -> Seq(Copied)]
      /\ \A s \in Slots : Len(pool[s]) <= MaxSeg
    BY DEF IInv, TypeOK
<1>2. /\ n \in 0 .. PooliMax - 1
      /\ (rx_PooliWrite - rx_PooliRead) % PooliMax = n
    BY <1>1, ModIsDist
<1>3. ASSUME NEW j \in 1 .. n
      PROVE  /\ Frame(pool[(rx_PooliRead + j - 1) % PooliMax])
                  = [tag |-> S(j)[1].tag, len |-> Len(S(j))]
             /\ [tag |-> S(j)[1].tag, len |-> Len(S(j))] \in Frames
  <2>1. /\ j - 1 \in 0 .. PooliMax - 1
        /\ rx_PooliRead + j - 1 = rx_PooliRead + (j - 1)
    BY <1>1, <1>2
  <2>2. (rx_PooliRead + j - 1) % PooliMax = At(PooliMax, rx_PooliRead, j - 1)
    BY <1>1, <2>1, ModIsAt
  <2>3. /\ At(PooliMax, rx_PooliRead, j - 1) \in Slots
        /\ Dist(PooliMax, rx_PooliRead, At(PooliMax, rx_PooliRead, j - 1)) < n
    BY <1>1, <1>2, <2>1 DEF At, Dist
  <2>4. S(j) \in Seq(Copied) /\ Whole(S(j)) /\ Len(S(j)) <= MaxSeg
    BY <1>1, <2>3 DEF IInv, PoolInv
  <2>5. QED
    BY <2>2, <2>4, WholeIsFrame
<1>4. InPool = [j \in 1 .. n |-> [tag |-> S(j)[1].tag, len |-> Len(S(j))]]
    BY <1>2, <1>3 DEF InPool
<1>5. QED
    BY <1>2, <1>3, <1>4 DEF PoolIs

\* Copying the last segment puts the frame behind the others of the pool;
\* copying any other leaves them alone.
LEMMA PoolPut ==
    ASSUME IInv, IInv', Copy
    PROVE  InPool' = IF rmd.ls THEN Append(InPool, FrameAt(rxIndex))
                     ELSE InPool
<1> DEFINE r == rx_PooliRead
           w == rx_PooliWrite
           n == Dist(PooliMax, r, w)
           e == [tag |-> rmd.tag, len |-> rmd.seg]
<1>1. PoolIs /\ PoolIs'
    BY PoolShape, PTL
<1>2. r \in Slots /\ w \in Slots /\ rx_PooliRead' = r
    BY CopyFacts DEF Take
<1>3. n \in 0 .. PooliMax - 1 /\ InPool \in [1 .. n -> Frames]
    BY <1>1 DEF PoolIs
<1>4. ASSUME NEW j \in 1 .. n
      PROVE  pool'[At(PooliMax, r, j - 1)] = pool[At(PooliMax, r, j - 1)]
  <2>1. At(PooliMax, r, j - 1) \in Slots /\ At(PooliMax, r, j - 1) # w
    BY <1>2, <1>3 DEF At, Dist
  <2>2. QED
    BY <2>1, CopyFacts
<1>5. CASE ~rmd.ls
  <2>1. rx_PooliWrite' = w
    BY <1>5, CopyFacts
  <2>2. InPool' \in [1 .. n -> Frames]
    BY <1>1, <1>2, <2>1 DEF PoolIs
  <2>3. \A j \in 1 .. n : InPool'[j] = InPool[j]
    BY <1>1, <1>2, <1>4, <2>1 DEF PoolIs
  <2>4. QED
    BY <1>3, <1>5, <2>2, <2>3
<1>6. CASE rmd.ls
  <2>1. rx_PooliWrite' = At(PooliMax, w, 1) /\ At(PooliMax, w, 1) # r
    BY <1>2, <1>6, CopyFacts, NextIsAt DEF Room
  <2>2. /\ Dist(PooliMax, r, rx_PooliWrite') = n + 1
        /\ At(PooliMax, r, (n + 1) - 1) = w
    BY <1>2, <2>1 DEF At, Dist
  <2>3. InPool' \in [1 .. n + 1 -> Frames]
    BY <1>1, <1>2, <2>2 DEF PoolIs
  <2>4. ASSUME NEW j \in 1 .. n PROVE InPool'[j] = InPool[j]
    <3>1. j \in 1 .. n + 1
      BY <1>3
    <3> DEFINE s == pool[At(PooliMax, r, j - 1)]
    <3>2. InPool[j] = [tag |-> s[1].tag, len |-> Len(s)]
      BY <1>1 DEF PoolIs
    <3>3. InPool'[j] = [tag |-> s[1].tag, len |-> Len(s)]
      BY <1>1, <1>2, <1>4, <2>2, <3>1 DEF PoolIs
    <3>4. QED
      BY <3>2, <3>3
  <2>5. InPool'[n + 1] = e
    <3>1. /\ pool'[w][1].tag = rmd.tag /\ Len(pool'[w]) = rmd.seg
      BY CopyFacts
    <3>2. n + 1 \in 1 .. n + 1
      BY <1>3
    <3>3. InPool'[n + 1] = [tag |-> pool'[w][1].tag, len |-> Len(pool'[w])]
      BY <1>1, <1>2, <2>2, <3>2 DEF PoolIs
    <3>4. QED
      BY <3>1, <3>3
  <2>6. e = FrameAt(rxIndex)
    BY DEF FrameAt, rmd
  <2>7. /\ InPool \in Seq(Frames) /\ Len(InPool) = n
        /\ InPool' \in Seq(Frames) /\ Len(InPool') = n + 1
    BY <1>3, <2>3
  <2> HIDE DEF e, n
  <2>8. InPool' = Append(InPool, e)
    BY <1>3, <2>4, <2>5, <2>7
  <2>9. QED
    BY <1>6, <2>6, <2>8
<1>7. QED
    BY <1>5, <1>6

\* Reading takes the first frame of the pool.
LEMMA PoolGet ==
    ASSUME IInv, IInv', Read
    PROVE  InPool # <<>> /\ InPool' = Tail(InPool)
<1> DEFINE r == rx_PooliRead
           w == rx_PooliWrite
           n == Dist(PooliMax, r, w)
<1>1. PoolIs /\ PoolIs'
    BY PoolShape, PTL
<1>2. /\ r \in Slots /\ w \in Slots /\ r # w
      /\ UNCHANGED rx_PooliWrite
      /\ rx_PooliRead' = At(PooliMax, r, 1)
      /\ \A s \in Slots \ {r} : pool'[s] = pool[s]
    BY NextIsAt DEF Read, IInv, TypeOK
<1>3. Dist(PooliMax, rx_PooliRead', w) = n - 1 /\ n \in 1 .. PooliMax - 1
    BY <1>2 DEF At, Dist
<1>4. /\ InPool \in [1 .. n -> Frames] /\ InPool' \in [1 .. n - 1 -> Frames]
    BY <1>1, <1>2, <1>3 DEF PoolIs
<1>5. ASSUME NEW j \in 1 .. n - 1 PROVE InPool'[j] = InPool[j + 1]
  <2>1. /\ At(PooliMax, rx_PooliRead', j - 1) = At(PooliMax, r, (j + 1) - 1)
        /\ At(PooliMax, r, (j + 1) - 1) \in Slots \ {r}
    BY <1>2, <1>3 DEF At, Dist
  <2>2. j + 1 \in 1 .. n
    BY <1>3
  <2> DEFINE s == pool[At(PooliMax, r, (j + 1) - 1)]
  <2>3. InPool[j + 1] = [tag |-> s[1].tag, len |-> Len(s)]
    BY <1>1, <2>2 DEF PoolIs
  <2>4. pool'[At(PooliMax, rx_PooliRead', j - 1)] = s
    BY <1>2, <2>1
  <2>5. j \in 1 .. Dist(PooliMax, rx_PooliRead', rx_PooliWrite')
    BY <1>2, <1>3
  <2>6. InPool'[j] = [tag |-> s[1].tag, len |-> Len(s)]
    BY <1>1, <2>4, <2>5 DEF PoolIs
  <2>7. QED
    BY <2>3, <2>6
<1>6. /\ InPool \in Seq(Frames) /\ Len(InPool) = n
      /\ InPool' \in Seq(Frames) /\ Len(InPool') = n - 1
    BY <1>3, <1>4
<1> HIDE DEF n
<1>7. QED
    BY <1>3, <1>5, <1>6

\* Two queues in a row.
LEMMA ConcatFacts ==
    ASSUME NEW a \in Seq(Frames), NEW b \in Seq(Frames)
    PROVE  /\ \A e \in Frames : a \o Append(b, e) = Append(a \o b, e)
           /\ \A e \in Frames : Append(a, e) \o b = a \o (<<e>> \o b)
           /\ a # <<>> => a \o b # <<>> /\ Tail(a) \o b = Tail(a \o b)
<1>1. ASSUME NEW e \in Frames PROVE a \o Append(b, e) = Append(a \o b, e)
    OBVIOUS
<1>2. ASSUME NEW e \in Frames PROVE Append(a, e) \o b = a \o (<<e>> \o b)
    OBVIOUS
<1>3. ASSUME a # <<>> PROVE a \o b # <<>> /\ Tail(a) \o b = Tail(a \o b)
    BY <1>3
<1>4. QED
    BY <1>1, <1>2, <1>3

Queue == InPool \o InRing

LEMMA FcnIsSeq ==
    ASSUME NEW n \in Nat, NEW f \in [1 .. n -> Frames]
    PROVE  f \in Seq(Frames)
OBVIOUS

LEMMA StepRefines ==
    ASSUME IInv, IInv', Next
    PROVE  [Fifo!Next]_Queue
<1>1. /\ InPool \in Seq(Frames) /\ InRing \in Seq(Frames)
      /\ InPool' \in Seq(Frames) /\ InRing' \in Seq(Frames)
  <2>1. RingIs /\ RingIs' /\ PoolIs /\ PoolIs'
    BY RingShape, PoolShape, PTL
  <2>2. InRing \in Seq(Frames) /\ InRing' \in Seq(Frames)
    BY <2>1, FcnIsSeq DEF RingIs
  <2>3. InPool \in Seq(Frames) /\ InPool' \in Seq(Frames)
    <3>1. \A n \in 0 .. PooliMax - 1 : n \in Nat
      OBVIOUS
    <3>2. QED
      BY <2>1, <3>1, FcnIsSeq DEF PoolIs
  <2>4. QED
    BY <2>2, <2>3
<1>2. ASSUME UNCHANGED <<desc, rxIndex, Untaken, pool, rx_PooliWrite,
                         rx_PooliRead>>
      PROVE  UNCHANGED Queue
    BY <1>2 DEF Queue, InPool, InRing, Rank, Ends
<1>3. CASE EnterRxSchedule \/ sMacGetFullRMD \/ NoRMD \/ NoPool \/ PollDemand
           \/ RxDone \/ TxEnable \/ TxEnabled \/ sMacInt \/ Suspend
  <2>1. /\ UNCHANGED <<own, desc, rxIndex, pool, rx_PooliWrite, rx_PooliRead>>
        /\ pc' = "own" <=> pc = "own"
    BY <1>3 DEF EnterRxSchedule, sMacGetFullRMD, NoRMD, NoPool, PollDemand,
                RxDone, Unschedule, TxEnable, TxEnabled, ReadCSR7, WriteCSR7,
                sMacInt, Suspend, Main, ring, pooled
  <2>2. QED
    BY <1>2, <2>1 DEF Untaken
<1>4. CASE GiveBack
    BY <1>2, <1>4, GiveBackStep DEF GiveBack, pooled
<1>5. CASE Read
  <2>1. UNCHANGED <<own, desc, rxIndex, pc>>
    BY <1>5 DEF Read, Main, ring
  <2>2. UNCHANGED InRing
    BY <2>1 DEF InRing, Rank, Ends, Untaken
  <2>3. Queue # <<>> /\ Queue' = Tail(Queue)
    <3>1. InPool # <<>> /\ InPool' = Tail(InPool)
      BY <1>5, PoolGet
    <3>2. /\ InPool \o InRing # <<>>
          /\ Tail(InPool) \o InRing = Tail(InPool \o InRing)
      BY <1>1, <3>1, ConcatFacts
    <3>3. QED
      BY <2>2, <3>1, <3>2 DEF Queue
  <2>4. QED
    BY <2>3 DEF Fifo!Next, Fifo!Read, Queue
<1>6. CASE Discard
  <2>1. rxIndex \notin Ends
    BY <1>6, DiscardStep DEF Ends, rmd
  <2>2. UNCHANGED InRing
    BY <1>6, <2>1, DiscardStep, RingDrop
  <2>3. UNCHANGED InPool
    BY <1>6, DiscardStep DEF InPool
  <2>4. QED
    BY <2>2, <2>3 DEF Queue
<1>7. CASE Copy
  <2>1. rxIndex \in Ends <=> rmd.ls
    BY <1>7, CopyFacts, TakeFacts DEF Ends, rmd
  <2>2. CASE ~rmd.ls
    BY <1>7, <2>1, <2>2, CopyFacts, RingDrop, PoolPut DEF Queue
  <2>3. CASE rmd.ls
    <3>1. /\ InRing = <<FrameAt(rxIndex)>> \o InRing'
          /\ FrameAt(rxIndex) \in Frames
      BY <1>7, <2>1, <2>3, CopyFacts, RingGet
    <3>2. InPool' = Append(InPool, FrameAt(rxIndex))
      BY <1>7, <2>3, PoolPut
    <3>3. QED
      BY <1>1, <3>1, <3>2, ConcatFacts DEF Queue
  <2>4. QED
    BY <2>2, <2>3
<1>8. CASE Arrive
  <2>0. PICK h : h = hwIndex
    OBVIOUS
  <2>1. /\ UNCHANGED <<rxIndex, pool, rx_PooliWrite, rx_PooliRead>>
        /\ h \in Ring /\ Untaken' = Untaken \cup {h} /\ h \notin Untaken
    BY <1>8, <2>0, ArriveStep DEF Arrive, pooled, Untaken
  <2>2. UNCHANGED InPool
    BY <2>1 DEF InPool
  <2>3. \A i \in Untaken : desc'[i] = desc[i]
    <3>1. \A i \in Ring \ {h} : desc'[i] = desc[i]
      BY <1>8, <2>0, ArriveFacts DEF IInv, TypeOK
    <3>2. QED
      BY <2>1, <3>1 DEF Untaken
  <2>4. CASE h \in Ends'
    <3>1. Ends' = Ends \cup {h} /\ h \notin Ends
      BY <2>1, <2>3, <2>4 DEF Ends
    <3>2. \A i \in Ends :
            /\ desc'[i] = desc[i]
            /\ Dist(NumRds, rxIndex, i) < Dist(NumRds, rxIndex, h)
      BY <1>8, <2>0, <2>3, ArriveStep DEF Ends
    <3>3. InRing' = Append(InRing, FrameAt(h)') /\ FrameAt(h)' \in Frames
      BY <2>1, <3>1, <3>2, RingPut
    <3>4. InPool \o InRing' = Append(InPool \o InRing, FrameAt(h)')
      BY <1>1, <3>3, ConcatFacts
    <3>5. Queue' = Append(Queue, FrameAt(h)')
      BY <2>2, <3>4 DEF Queue
    <3>6. QED
      BY <3>3, <3>5 DEF Queue, Fifo!Next, Fifo!Receive, Frames
  <2>5. CASE h \notin Ends'
    <3>1. Ends' = Ends
      BY <2>1, <2>3, <2>5 DEF Ends
    <3>2. \A i \in Ends : desc'[i] = desc[i] /\ Rank(i)' = Rank(i)
      BY <2>1, <2>3, <3>1 DEF Ends, Rank
    <3>3. UNCHANGED InRing
      BY <3>1, <3>2, RingKept
    <3>4. QED
      BY <2>2, <3>3 DEF Queue
  <2>6. QED
    BY <2>4, <2>5
<1>9. QED
    BY <1>3, <1>4, <1>5, <1>6, <1>7, <1>8
       DEF Next, Poll, sMacRxSchedule, sMacRecv

\* For every size of ring and pool, with frames in error dropped or kept:
\* whatever the device, the handler and sMacRxSchedule do, the good frames
\* are read once each, whole and in the order of their arrival.
THEOREM RingAndPoolAreFifo == Spec => FifoSpec
<1>1. Init => Fifo!Init
  <2> SUFFICES ASSUME Init PROVE Fifo!Init
    OBVIOUS
  <2>1. Ends = {}
    BY DEF Init, Ends, Untaken
  <2>2. InRing = <<>>
    BY <2>1, FS_EmptySet DEF InRing
  <2>3. InPool = <<>>
    BY DEF Init, InPool
  <2>4. QED
    BY <2>2, <2>3 DEF Fifo!Init
<1>2. IInv /\ IInv' /\ [Next]_vars => [Fifo!Next]_Queue
  <2>1. ASSUME UNCHANGED vars PROVE UNCHANGED Queue
    BY <2>1 DEF vars, ring, pooled, Queue, InPool, InRing, Rank, Ends, Untaken
  <2>2. QED
    BY <2>1, StepRefines
<1>3. QED
    BY <1>1, <1>2, Invariance, PTL DEF Spec, FifoSpec, Fifo!Spec, Queue
=============================================================================
