---------------------------- MODULE MacTx_proofs ----------------------------
(***************************************************************************)
(* Proofs about the transmit ring of the MAC driver, for every size of the *)
(* ring, every length of a packet and every number of merged packets.      *)
(***************************************************************************)
EXTENDS MacTx, FiniteSetTheorems, TLAPS

USE MacTxAssumption DEF MacTxAssumption, Ring

(***************************************************************************)
(* The inductive invariant                                                 *)
(***************************************************************************)
\* The descriptor k places after i, and the places from i to j.
At(i, k) == IF i + k < NumTds THEN i + k ELSE i + k - NumTds

Dist(i, j) == IF i <= j THEN j - i ELSE j - i + NumTds

\* Descriptors the device owns; descriptors filled and not yet given to it.
Handed == Cardinality(own)

Pending == Len(OwerDESArray) - given + 1

\* The device owns one stretch of the ring, from its own position on.
OwnInv == \A i \in Ring : i \in own <=> Dist(hwIndex, i) < Handed

\* The descriptors given and filled end where the driver fills next and do
\* not overlap; the driver's count is the distance of its two indices.
IndexInv ==
    /\ Handed + Pending <= NumTds
    /\ txIndex = At(hwIndex, Handed + Pending)
    /\ txCount = Dist(txDiIndex, txIndex)

\* The descriptors filled follow those given and hold the current packet.
PacketInv ==
    \A k \in given .. Len(OwerDESArray) :
        /\ OwerDESArray[k] = At(hwIndex, Handed + (k - given))
        /\ desc[OwerDESArray[k]] =
             [frag |-> k, last |-> left = 0 /\ k = Len(OwerDESArray)]

\* What was given last ends a packet, except between two OWN bits of one.
FrameInv ==
    IF Handed = 0 THEN mid <=> pc = "give"
    ELSE desc[At(hwIndex, Handed - 1)].last <=> pc # "give"

Setup == {"setup1", "setup2", "setupkick", "setupwait"}

\* How far the current packet is at each place of the main thread.  Filling
\* may reclaim descriptors of the packet being filled, but not the last one.
PhaseInv ==
    /\ given \in 1 .. Len(OwerDESArray) + 1
    /\ left + Len(OwerDESArray) <= MaxFrag
    /\ pc \in Setup =>
         /\ left = 0 /\ Pending = 0 /\ txIndex = txDiIndex
    /\ pc = "fill" => /\ given = 1 /\ left + Len(OwerDESArray) > 0
                      /\ left = 0 => txIndex # txDiIndex
    /\ pc = "clean" /\ ret = "fill" => left > 0 /\ given = 1
    /\ pc = "give" => /\ left = 0 /\ given \in 2 .. Len(OwerDESArray)
                      /\ txIndex # txDiIndex
    /\ pc \in {"kick", "idle", "done", "enable", "write", "rxwrite"}
         \/ (pc = "clean" /\ ret = "done") =>
         /\ left = 0 /\ Pending = 0
         /\ txIndex = txDiIndex => Handed = 0

IInv == TypeOK /\ OwnInv /\ IndexInv /\ PacketInv /\ FrameInv /\ PhaseInv

\* While no mask of sMacInt has been undone: the interrupts are disabled from
\* the time the reclaim is scheduled to the write that enables them, and from
\* the first setup descriptor to the end of the setup.
ScheduleInv ==
    /\ txScheduled \/ pc \in (Setup \ {"setup1"}) \cup {"enable", "write"} =>
         masked = TxInts
    /\ pc = "done" \/ (pc = "clean" /\ ret = "done") => txScheduled
    /\ pc \in Setup \cup {"enable", "write"} => ~txScheduled

\* What is known of the interrupts.
MaskInv ==
    /\ pc = "setup1" => hw = "susp" /\ own = {} /\ event = {}
    /\ ForgetsOnlyUnmasked
    /\ opt.debug \/ undone \/ ScheduleInv

(***************************************************************************)
(* Facts about the ring                                                    *)
(***************************************************************************)
\* The arithmetic of the indices, without the remainder.
LEMMA ModIsAt ==
    ASSUME NEW i \in Ring, NEW k \in 0 .. NumTds
    PROVE  (i + k) % NumTds = At(i, k) /\ At(i, k) \in Ring
BY DEF At

LEMMA NextIsAt ==
    ASSUME NEW i \in Ring
    PROVE  /\ NextIndex(i) = At(i, 1) /\ NextIndex(i) \in Ring
           /\ (i - 1) % NumTds = At(i, NumTds - 1)
BY DEF NextIndex, At

\* Moving one of two indices; one place after another.
LEMMA DistNext ==
    ASSUME NEW i \in Ring, NEW j \in Ring
    PROVE  /\ i # j => /\ Dist(At(i, 1), j) = Dist(i, j) - 1
                       /\ Dist(i, j) - 1 \in Ring
           /\ At(j, 1) # i => /\ Dist(i, At(j, 1)) = Dist(i, j) + 1
                              /\ Dist(i, j) + 1 \in Ring
BY DEF At, Dist

LEMMA AtAt ==
    ASSUME NEW i \in Ring, NEW k \in 0 .. NumTds - 1
    PROVE  At(At(i, k), 1) = At(i, k + 1) /\ At(At(i, 1), k) = At(i, k + 1)
BY DEF At

LEMMA DistAt ==
    ASSUME NEW i \in Ring, NEW k \in 0 .. NumTds - 1
    PROVE  At(i, k) \in Ring /\ Dist(i, At(i, k)) = k
BY DEF At, Dist

\* The mark of the last fragment.
LEMMA LastField ==
    ASSUME NEW f, NEW b \in BOOLEAN, NEW r, r = [frag |-> f, last |-> b]
    PROVE  r.last <=> b
OBVIOUS

\* Setting and clearing one OWN bit.
LEMMA OwnCard ==
    ASSUME NEW S \in SUBSET Ring
    PROVE  /\ Cardinality(S) \in 0 .. NumTds
           /\ \A i \in Ring \ S : Cardinality(S \cup {i}) = Cardinality(S) + 1
           /\ \A i \in S : Cardinality(S \ {i}) = Cardinality(S) - 1
<1>1. IsFiniteSet(Ring) /\ Cardinality(Ring) = NumTds
    BY FS_Interval
<1>2. IsFiniteSet(S) /\ Cardinality(S) <= NumTds
    BY <1>1, FS_Subset
<1>3. Cardinality(S) \in Nat
    BY <1>2, FS_CardinalityType
<1>4. \A i \in Ring \ S : Cardinality(S \cup {i}) = Cardinality(S) + 1
    BY <1>2, FS_AddElement
<1>5. \A i \in S : Cardinality(S \ {i}) = Cardinality(S) - 1
    BY <1>2, FS_RemoveElement
<1>6. QED
    BY <1>2, <1>3, <1>4, <1>5

\* A step that leaves the OWN bits alone leaves their number alone.
LEMMA HandedFacts ==
    /\ TypeOK => Handed \in 0 .. NumTds
    /\ UNCHANGED own => Handed' = Handed
BY OwnCard DEF Handed, TypeOK

\* sMacInit leaves an empty ring.
LEMMA InitInv == Init => IInv
<1> SUFFICES ASSUME Init PROVE IInv
    OBVIOUS
<1>1. Handed = 0
    BY FS_EmptySet DEF Init, Handed
<1>2. TypeOK
  <2>1. opt \in Options /\ merge \in 0 .. opt.tx_merge_number
    BY DEF Init, Options
  <2>2. desc \in [Ring -> Frags]
    BY DEF Init, Frags, Blank
  <2>3. /\ txScheduled \in BOOLEAN /\ mid \in BOOLEAN
        /\ undone \in BOOLEAN /\ forgot \in BOOLEAN
    BY DEF Init
  <2>4. /\ own \subseteq Ring /\ masked \subseteq TxInts
        /\ event \subseteq TxInts /\ csr7 \subseteq TxInts
        /\ txIndex \in Ring /\ txDiIndex \in Ring /\ txCount \in Ring
        /\ hwIndex \in Ring
    BY DEF Init, Disabled, TxInts
  <2>5. /\ left \in 0 .. MaxFrag /\ given \in 1 .. MaxFrag + 1
        /\ OwerDESArray \in Seq(Ring) /\ Len(OwerDESArray) <= MaxFrag
    BY DEF Init
  <2>6. QED
    BY <2>1, <2>2, <2>3, <2>4, <2>5 DEF Init, TypeOK
<1>3. Len(OwerDESArray) = 0 /\ Pending = 0
    BY DEF Init, Pending
<1>4. OwnInv /\ IndexInv /\ PacketInv /\ FrameInv /\ PhaseInv
    BY <1>1, <1>3 DEF Init, OwnInv, IndexInv, PacketInv, FrameInv, PhaseInv,
                      Setup, At, Dist
<1>5. QED
    BY <1>2, <1>4 DEF IInv

(***************************************************************************)
(* The steps that leave the ring alone                                     *)
(***************************************************************************)
\* They keep what is said of the ring.
LEMMA QuietKeeps ==
    ASSUME IInv, UNCHANGED <<ring, txIndex, packet, hwIndex, mid>>,
           pc' = "give" <=> pc = "give"
    PROVE  /\ Handed' = Handed /\ Pending' = Pending
           /\ OwnInv' /\ PacketInv' /\ FrameInv'
           /\ UNCHANGED <<txDiIndex, txCount>> => IndexInv'
<1>1. Handed' = Handed /\ Pending' = Pending
    BY HandedFacts DEF Pending, packet, ring
<1>2. OwnInv'
    BY <1>1 DEF IInv, OwnInv, ring
<1>3. PacketInv'
    BY <1>1 DEF IInv, PacketInv, packet, ring
<1>4. FrameInv'
    BY <1>1 DEF IInv, FrameInv, ring
<1>5. UNCHANGED <<txDiIndex, txCount>> => IndexInv'
    BY <1>1 DEF IInv, IndexInv
<1>6. QED
    BY <1>1, <1>2, <1>3, <1>4, <1>5

\* SetupKick, Kick: the poll demands, and the wait for the setup frame.
LEMMA KickStep ==
    ASSUME IInv, SetupKick \/ SetupWait \/ Kick, UNCHANGED opt
    PROVE  IInv'
<1> USE DEF IInv, TypeOK, packet, ring, index, sched, device
<1>1. CASE SetupKick
  <2>1. TypeOK'
    BY <1>1 DEF SetupKick
  <2>2. PhaseInv'
    BY <1>1, QuietKeeps DEF SetupKick, PhaseInv, Setup
  <2>3. QED
    BY <1>1, <2>1, <2>2, QuietKeeps DEF SetupKick
<1>2. CASE SetupWait
  <2>1. TypeOK'
    BY <1>2 DEF SetupWait, TxInts, Disabled
  <2>2. Handed = 0
    <3>1. Handed \in 0 .. NumTds
      BY HandedFacts
    <3>2. txIndex = At(hwIndex, Handed) /\ At(txIndex, NumTds - 1) \notin own
      BY <1>2, <3>1, NextIsAt DEF SetupWait, PhaseInv, Setup, IndexInv
    <3>3. At(txIndex, NumTds - 1) \in Ring
      BY DEF At
    <3>4. ~(Dist(hwIndex, At(txIndex, NumTds - 1)) < Handed)
      BY <3>2, <3>3 DEF OwnInv
    <3>5. QED
      BY <3>1, <3>2, <3>4 DEF At, Dist
  <2>3. PhaseInv'
    BY <1>2, <2>2, QuietKeeps DEF SetupWait, PhaseInv, Setup
  <2>4. QED
    BY <1>2, <2>1, <2>3, QuietKeeps DEF SetupWait
<1>3. CASE Kick
  <2>1. TypeOK'
    BY <1>3 DEF Kick, Options
  <2>2. PhaseInv'
    BY <1>3, QuietKeeps DEF Kick, PhaseInv, Setup
  <2>3. QED
    BY <1>3, <2>1, <2>2, QuietKeeps DEF Kick
<1>4. QED
    BY <1>1, <1>2, <1>3

\* sMacTxSchedule around the reclaim, the writes of CSR7, the handler, and
\* the device when it does not fetch.
LEMMA ScheduleStep ==
    ASSUME IInv, UNCHANGED opt,
           EnterTxSchedule \/ sMacTxSchedule \/ RxEnable \/ RxEnabled
             \/ ReturnToMask \/ sMacInt \/ Suspend \/ AutoPoll
    PROVE  IInv'
<1> USE DEF IInv, TypeOK, packet, ring, index, sched, device
<1>1. CASE EnterTxSchedule
  <2>1. TypeOK'
    BY <1>1 DEF EnterTxSchedule
  <2>2. PhaseInv'
    BY <1>1, QuietKeeps DEF EnterTxSchedule, PhaseInv, Setup
  <2>3. QED
    BY <1>1, <2>1, <2>2, QuietKeeps DEF EnterTxSchedule
<1>2. CASE sMacTxSchedule
  <2>1. TypeOK'
    BY <1>2 DEF sMacTxSchedule, Unschedule, ReadCSR7, WriteCSR7
  <2>2. PhaseInv'
    BY <1>2, QuietKeeps
       DEF sMacTxSchedule, Unschedule, ReadCSR7, WriteCSR7, PhaseInv, Setup
  <2>3. QED
    BY <1>2, <2>1, <2>2, QuietKeeps
       DEF sMacTxSchedule, Unschedule, ReadCSR7, WriteCSR7
<1>3. CASE sMacInt
  <2>1. TypeOK'
    BY <1>3 DEF sMacInt, TxInts
  <2>2. PhaseInv'
    BY <1>3, QuietKeeps DEF sMacInt, PhaseInv
  <2>3. QED
    BY <1>3, <2>1, <2>2, QuietKeeps DEF sMacInt
<1>4. CASE Suspend
  <2>1. TypeOK'
    BY <1>4 DEF Suspend, TxInts
  <2>2. PhaseInv'
    BY <1>4, QuietKeeps DEF Suspend, PhaseInv
  <2>3. QED
    BY <1>4, <2>1, <2>2, QuietKeeps DEF Suspend
<1>5. CASE AutoPoll
  <2>1. TypeOK'
    BY <1>5 DEF AutoPoll
  <2>2. PhaseInv'
    BY <1>5, QuietKeeps DEF AutoPoll, PhaseInv
  <2>3. QED
    BY <1>5, <2>1, <2>2, QuietKeeps DEF AutoPoll
<1>6. CASE RxEnable \/ RxEnabled \/ ReturnToMask
  <2>1. /\ masked' \subseteq TxInts /\ csr7' \subseteq TxInts
        /\ undone' \in BOOLEAN
        /\ pc' \in {"idle", "rxwrite"}
    BY <1>6 DEF RxEnable, RxEnabled, ReturnToMask, ReadCSR7, WriteCSR7, TxInts
  <2>2. PhaseInv'
    BY <1>6, QuietKeeps
       DEF RxEnable, RxEnabled, ReturnToMask, ReadCSR7, WriteCSR7, PhaseInv, Setup
  <2>3. /\ UNCHANGED <<opt, ring, index, merge, packet, ret, txScheduled, forgot,
                       event, device>>
        /\ pc # "give" /\ pc' # "give"
    BY <1>6 DEF RxEnable, RxEnabled, ReturnToMask, ReadCSR7, WriteCSR7
  <2>4. TypeOK'
    BY <2>1, <2>3
  <2>5. QED
    BY <2>2, <2>3, <2>4, QuietKeeps
<1>7. QED
    BY <1>1, <1>2, <1>3, <1>4, <1>5, <1>6

\* sMacTxRingClean: the reclaim passes only what the device has given back,
\* and it can pass the last descriptor only when all are back.
LEMMA CleanStep ==
    ASSUME IInv, sMacTxRingClean, UNCHANGED opt
    PROVE  IInv'
<1> USE DEF IInv, TypeOK, packet, ring, index, sched, device
<1>1. Handed \in 0 .. NumTds
    BY HandedFacts
<1>2. CASE txDiIndex # txIndex /\ txDiIndex \notin own /\ UNCHANGED pc
  <2>1. /\ txDiIndex' = At(txDiIndex, 1) /\ txDiIndex' \in Ring
        /\ txCount' = txCount - 1 /\ pc = "clean"
    BY <1>2, NextIsAt DEF sMacTxRingClean
  <2>2. txCount' = Dist(txDiIndex', txIndex) /\ txCount' \in Ring
    BY <1>2, <2>1, DistNext DEF IndexInv
  <2>3. TypeOK'
    BY <1>2, <2>1, <2>2 DEF sMacTxRingClean
  <2>4. IndexInv'
    BY <1>2, <2>2, QuietKeeps DEF sMacTxRingClean, IndexInv
  <2>5. ASSUME ret = "done", txDiIndex' = txIndex PROVE Handed = 0
    <3>1. txIndex = At(hwIndex, Handed)
      BY <1>1, <2>1, <2>5 DEF IndexInv, PhaseInv
    <3>2. ~(Dist(hwIndex, txDiIndex) < Handed)
      BY <1>2 DEF OwnInv
    <3>3. QED
      BY <1>1, <2>1, <2>5, <3>1, <3>2 DEF At, Dist
  <2>6. PhaseInv'
    BY <1>2, <2>1, <2>5, QuietKeeps DEF sMacTxRingClean, PhaseInv, Setup
  <2>7. QED
    BY <1>2, <2>3, <2>4, <2>6, QuietKeeps DEF sMacTxRingClean
<1>3. CASE UNCHANGED <<txDiIndex, txCount>> /\ pc' = ret
  <2>1. TypeOK'
    BY <1>3 DEF sMacTxRingClean
  <2>2. PhaseInv'
    BY <1>3, QuietKeeps DEF sMacTxRingClean, PhaseInv, Setup
  <2>3. QED
    BY <1>3, <2>1, <2>2, QuietKeeps DEF sMacTxRingClean
<1>4. QED
    BY <1>2, <1>3 DEF sMacTxRingClean

(***************************************************************************)
(* The steps that fill the ring, give it to the device and empty it        *)
(***************************************************************************)
\* sMacPacketSend starts with nothing filled.
LEMMA SendStep ==
    ASSUME IInv, sMacPacketSend, UNCHANGED opt
    PROVE  IInv'
<1> USE DEF IInv, TypeOK, packet, ring, index, sched, device
<1>1. Handed' = Handed
    BY HandedFacts DEF sMacPacketSend
<1>2. left' \in 1 .. MaxFrag
    BY DEF sMacPacketSend
<1>3. Len(OwerDESArray') = 0 /\ Pending = 0 /\ Pending' = 0
    BY DEF sMacPacketSend, PhaseInv, Pending
<1>4. TypeOK'
  <2>1. /\ left' \in 0 .. MaxFrag /\ given' \in 1 .. MaxFrag + 1
        /\ OwerDESArray' \in Seq(Ring) /\ Len(OwerDESArray') <= MaxFrag
    BY <1>2, <1>3 DEF sMacPacketSend
  <2>2. forgot' \in BOOLEAN
    BY DEF sMacPacketSend
  <2>3. QED
    BY <2>1, <2>2 DEF sMacPacketSend
<1>5. OwnInv' /\ IndexInv' /\ PacketInv' /\ FrameInv'
    BY <1>1, <1>3 DEF sMacPacketSend, OwnInv, IndexInv, PacketInv, FrameInv
<1>6. PhaseInv'
  <2>1. pc' = "fill" /\ given' = 1
    BY DEF sMacPacketSend
  <2> HIDE DEF IInv, TypeOK
  <2>2. ASSUME NEW n \in 1 .. MaxFrag, NEW m, m = 0
        PROVE  n \in Nat /\ n # 0 /\ n + m <= MaxFrag /\ n + m > 0
    BY <2>2, MacTxAssumption DEF MacTxAssumption
  <2>3. /\ left' # 0 /\ left' + Len(OwerDESArray') <= MaxFrag
        /\ left' + Len(OwerDESArray') > 0
    BY <1>2, <1>3, <2>2, Zenon
  <2>4. given' \in 1 .. Len(OwerDESArray') + 1
    BY <1>3, <2>1
  <2>5. QED
    BY <1>3, <2>1, <2>3, <2>4, Zenon DEF PhaseInv, Setup
<1>7. QED
    BY <1>4, <1>5, <1>6

\* What the check for a free descriptor says: the next one to fill lies
\* beyond everything given and filled.
LEMMA FreeDescriptor ==
    ASSUME IInv, ~Full
    PROVE  /\ Handed + Pending < NumTds /\ Pending >= 0
           /\ \A k \in 0 .. Handed + Pending - 1 : At(hwIndex, k) # txIndex
<1> USE DEF IInv, TypeOK
<1>1. Handed \in 0 .. NumTds /\ Pending \in 0 .. MaxFrag
    BY HandedFacts DEF PhaseInv, Pending
<1>2. ~(Dist(hwIndex, txIndex) < Handed)
    BY DEF Full, OwnInv
<1>3. QED
    BY <1>1, <1>2 DEF IndexInv, At, Dist

\* Fill: the cleaning, and one more descriptor of the packet.
LEMMA FillStep ==
    ASSUME IInv, Fill, UNCHANGED opt
    PROVE  IInv'
<1> USE DEF IInv, TypeOK, packet, ring, index, sched, device
<1>1. Handed' = Handed /\ Handed \in 0 .. NumTds
    BY HandedFacts DEF Fill
<1>2. CASE Full /\ UNCHANGED <<desc, txIndex, txCount, left, OwerDESArray>>
           /\ pc' = "clean" /\ ret' = "fill"
  <2>1. TypeOK'
    BY <1>2 DEF Fill
  <2>2. PhaseInv'
    BY <1>2, QuietKeeps DEF Fill, PhaseInv, Setup
  <2>3. QED
    BY <1>2, <2>1, <2>2, QuietKeeps DEF Fill
<1>3. CASE ~Full /\ UNCHANGED <<pc, ret>>
  <2> DEFINE len == Len(OwerDESArray)
             frag == [frag |-> len + 1, last |-> left = 1]
  <2>1. /\ desc' = [desc EXCEPT ![txIndex] = frag]
        /\ OwerDESArray' = Append(OwerDESArray, txIndex)
        /\ txIndex' = At(txIndex, 1) /\ txIndex' \in Ring
        /\ txCount' = txCount + 1 /\ left' = left - 1 /\ left > 0
        /\ pc = "fill" /\ given = 1 /\ left + len <= MaxFrag
        /\ UNCHANGED <<own, txDiIndex, given, hwIndex, mid>>
    BY <1>3, NextIsAt DEF Fill, PhaseInv
  <2>2. /\ len \in Nat /\ Len(OwerDESArray') = len + 1
        /\ OwerDESArray' \in Seq(Ring)
        /\ OwerDESArray'[len + 1] = txIndex
        /\ \A k \in 1 .. len : OwerDESArray'[k] = OwerDESArray[k]
    BY <2>1
  <2>3. Pending' = Pending + 1 /\ Pending = len
    BY <2>1, <2>2 DEF Pending
  <2>4. txCount' = Dist(txDiIndex, txIndex') /\ txCount' \in Ring
        /\ txIndex' # txDiIndex
    <3>1. At(txIndex, 1) # txDiIndex
      BY <1>3, NextIsAt DEF Full
    <3>2. QED
      BY <2>1, <3>1, DistNext DEF IndexInv
  <2>5. frag \in Frags
    BY <2>1, <2>2 DEF Frags
  <2>6. TypeOK'
    <3>1. desc' \in [Ring -> Frags]
      BY <2>1, <2>5
    <3>2. QED
      BY <2>1, <2>2, <2>4, <3>1 DEF Fill
  <2>7. OwnInv'
    BY <1>1, <2>1 DEF OwnInv
  <2>8. IndexInv'
    <3>1. Handed + Pending < NumTds /\ Pending >= 0
      BY <1>3, FreeDescriptor
    <3>2. At(At(hwIndex, Handed + Pending), 1) = At(hwIndex, Handed + Pending + 1)
      BY <1>1, <2>2, <2>3, <3>1, AtAt
    <3>3. QED
      BY <1>1, <2>1, <2>3, <2>4, <3>1, <3>2 DEF IndexInv
  <2>9. PacketInv'
    <3> SUFFICES ASSUME NEW k \in (given .. Len(OwerDESArray))'
                 PROVE  (/\ OwerDESArray[k] = At(hwIndex, Handed + (k - given))
                         /\ desc[OwerDESArray[k]] =
                              [frag |-> k, last |-> left = 0 /\ k = Len(OwerDESArray)])'
      BY DEF PacketInv
    <3>1. CASE k = len + 1
      <4>1. desc'[txIndex] = [frag |-> k, last |-> left' = 0]
        BY <2>1, <3>1
      <4>2. txIndex = At(hwIndex, Handed + len)
        BY <2>3 DEF IndexInv
      <4>3. QED
        BY <1>1, <2>1, <2>2, <3>1, <4>1, <4>2
    <3>2. CASE k # len + 1
      <4>1. k \in 1 .. len
        BY <2>1, <2>2, <3>2
      <4>2. /\ OwerDESArray[k] = At(hwIndex, Handed + (k - 1))
            /\ desc[OwerDESArray[k]] = [frag |-> k, last |-> FALSE]
        <5>1. /\ OwerDESArray[k] = At(hwIndex, Handed + (k - 1))
              /\ desc[OwerDESArray[k]] =
                   [frag |-> k, last |-> left = 0 /\ k = len]
          BY <2>1, <4>1 DEF PacketInv
        <5>2. (left = 0 /\ k = len) = FALSE
          BY <2>1
        <5>3. QED
          BY <5>1, <5>2
      <4>3. At(hwIndex, Handed + (k - 1)) # txIndex
        BY <1>1, <1>3, <2>2, <2>3, <4>1, FreeDescriptor
      <4>4. desc'[OwerDESArray[k]] = desc[OwerDESArray[k]]
        BY <2>1, <4>2, <4>3
      <4>5. QED
        BY <1>1, <2>1, <2>2, <3>2, <4>1, <4>2, <4>4
    <3>3. QED
      BY <3>1, <3>2
  <2>10. FrameInv'
    <3>1. CASE Handed = 0
      BY <1>1, <1>3, <2>1, <3>1 DEF FrameInv
    <3>2. CASE Handed # 0
      <4>1. At(hwIndex, Handed - 1) # txIndex
        BY <1>1, <1>3, <2>2, <2>3, <3>2, FreeDescriptor
      <4>2. QED
        BY <1>1, <1>3, <2>1, <3>2, <4>1 DEF FrameInv
    <3>3. QED
      BY <3>1, <3>2
  <2>11. PhaseInv'
    BY <1>3, <2>1, <2>2, <2>4 DEF PhaseInv, Setup
  <2>12. QED
    BY <2>6, <2>7, <2>8, <2>9, <2>10, <2>11
<1>4. QED
    BY <1>2, <1>3 DEF Fill

\* Setting the OWN bit of the descriptor behind those given makes the
\* device's stretch one longer.
LEMMA OwnGrows ==
    ASSUME IInv, Handed < NumTds, own' = own \cup {At(hwIndex, Handed)},
           UNCHANGED hwIndex
    PROVE  Handed' = Handed + 1 /\ OwnInv' /\ own' \subseteq Ring
<1>1. Handed \in 0 .. NumTds - 1 /\ hwIndex \in Ring /\ own \in SUBSET Ring
    BY HandedFacts DEF IInv, TypeOK
<1>2. /\ At(hwIndex, Handed) \in Ring
      /\ Dist(hwIndex, At(hwIndex, Handed)) = Handed
    BY <1>1 DEF At, Dist
<1>3. At(hwIndex, Handed) \notin own
    BY <1>1, <1>2 DEF IInv, OwnInv
<1>4. Handed' = Handed + 1
    BY <1>1, <1>2, <1>3, OwnCard DEF Handed
<1>5. OwnInv'
  <2> SUFFICES ASSUME NEW i \in Ring
               PROVE  i \in own' <=> Dist(hwIndex, i) < Handed + 1
    BY <1>4 DEF OwnInv
  <2>1. i \in own <=> Dist(hwIndex, i) < Handed
    BY DEF IInv, OwnInv
  <2>2. /\ Dist(hwIndex, i) \in Nat
        /\ Dist(hwIndex, i) = Handed => i = At(hwIndex, Handed)
    BY <1>1 DEF At, Dist
  <2>3. CASE i = At(hwIndex, Handed)
    BY <1>1, <1>2, <2>3
  <2>4. CASE i # At(hwIndex, Handed)
    BY <1>1, <2>1, <2>2, <2>4
  <2>5. QED
    BY <2>3, <2>4
<1>6. QED
    BY <1>1, <1>2, <1>4, <1>5

\* SetupDescriptor: a descriptor filled and given at once.
LEMMA SetupStep ==
    ASSUME IInv, UNCHANGED opt, NEW from \in Setup, NEW to \in Setup,
           SetupDescriptor(from, to)
    PROVE  IInv'
<1> USE DEF IInv, TypeOK, packet, ring, index, sched, device
<1> DEFINE frag == [frag |-> 1, last |-> TRUE]
<1>1. /\ desc' = [desc EXCEPT ![txIndex] = frag]
      /\ own' = own \cup {txIndex}
      /\ txIndex' = At(txIndex, 1) /\ txIndex' \in Ring
      /\ txDiIndex' = At(txDiIndex, 1)
      /\ txDiIndex = txIndex /\ left = 0 /\ Pending = 0
      /\ UNCHANGED <<txCount, hwIndex, mid, packet>>
      /\ pc' \in Setup /\ pc' # "give"
    BY NextIsAt DEF SetupDescriptor, PhaseInv, Setup
<1>2. Handed < NumTds /\ Handed \in Nat /\ txIndex = At(hwIndex, Handed)
    BY <1>1, FreeDescriptor, HandedFacts DEF SetupDescriptor, IndexInv
<1>3. Handed' = Handed + 1 /\ OwnInv' /\ own' \subseteq Ring
    BY <1>1, <1>2, OwnGrows
<1>4. Pending' = Pending
    BY <1>1 DEF Pending
<1>5. TypeOK'
  <2>1. desc' \in [Ring -> Frags]
    BY <1>1 DEF Frags
  <2>2. QED
    BY <1>1, <1>3, <2>1 DEF SetupDescriptor, Setup
<1>6. IndexInv'
  <2>1. At(txIndex, 1) = At(hwIndex, Handed + 1)
    BY <1>2, AtAt
  <2>2. Dist(txDiIndex', txIndex') = txCount /\ txCount = 0
    BY <1>1 DEF IndexInv, Dist
  <2>3. Handed' + Pending' = Handed + 1
    BY <1>1, <1>2, <1>3, <1>4
  <2>4. Handed + 1 <= NumTds
    BY <1>2
  <2>5. QED
    BY <1>1, <2>1, <2>2, <2>3, <2>4 DEF IndexInv
<1>7. PacketInv'
    BY <1>1 DEF PacketInv, PhaseInv, Pending
<1>8. FrameInv'
    BY <1>1, <1>2, <1>3 DEF FrameInv
<1>9. PhaseInv'
    BY <1>1, <1>4 DEF PhaseInv, Setup
<1>10. QED
    BY <1>3, <1>5, <1>6, <1>7, <1>8, <1>9

\* What Give hands over: the first of the descriptors filled.
LEMMA GiveFacts ==
    ASSUME IInv, Give
    PROVE  /\ given \in 1 .. Len(OwerDESArray) /\ left = 0
           /\ Handed < NumTds
           /\ OwerDESArray[given] = At(hwIndex, Handed)
           /\ desc[At(hwIndex, Handed)] =
                [frag |-> given, last |-> given = Len(OwerDESArray)]
           /\ Handed' = Handed + 1 /\ OwnInv' /\ own' \subseteq Ring
<1> USE DEF IInv, TypeOK
<1>1. /\ given \in 1 .. Len(OwerDESArray) /\ left = 0
      /\ own' = own \cup {OwerDESArray[given]} /\ UNCHANGED hwIndex
    BY DEF Give, PhaseInv, device
<1>2. Handed \in 0 .. NumTds /\ Handed < NumTds
    BY SMTT(30), <1>1, HandedFacts DEF IndexInv, Pending
<1>3. \A k \in given .. Len(OwerDESArray) :
        OwerDESArray[k] = At(hwIndex, Handed + (k - given))
    BY DEF PacketInv
<1>4. OwerDESArray[given] = At(hwIndex, Handed)
  <2>1. /\ given \in given .. Len(OwerDESArray)
        /\ Handed + (given - given) = Handed
    BY <1>1, <1>2
  <2>2. QED
    BY <1>3, <2>1
<1>5. desc[At(hwIndex, Handed)] =
        [frag |-> given, last |-> given = Len(OwerDESArray)]
  <2>1. desc[OwerDESArray[given]] =
          [frag |-> given, last |-> left = 0 /\ given = Len(OwerDESArray)]
    BY <1>1 DEF PacketInv
  <2>2. (left = 0 /\ given = Len(OwerDESArray)) = (given = Len(OwerDESArray))
    BY <1>1
  <2>3. QED
    BY <1>4, <2>1, <2>2
<1>6. Handed' = Handed + 1 /\ OwnInv' /\ own' \subseteq Ring
    BY <1>1, <1>2, <1>4, OwnGrows
<1>7. QED
    BY <1>1, <1>2, <1>4, <1>5, <1>6

LEMMA GiveStep ==
    ASSUME IInv, Give, UNCHANGED opt
    PROVE  IInv'
<1>0. /\ given \in 1 .. Len(OwerDESArray) /\ left = 0 /\ given \in Nat
      /\ desc[At(hwIndex, Handed)] =
           [frag |-> given, last |-> given = Len(OwerDESArray)]
      /\ Handed \in 0 .. NumTds
      /\ Handed' = Handed + 1 /\ OwnInv' /\ own' \subseteq Ring
    BY GiveFacts, HandedFacts DEF IInv
<1> USE DEF IInv, TypeOK, packet, ring, index, sched, device
<1>1. /\ given' = given + 1
      /\ pc' = IF given = Len(OwerDESArray) THEN "kick" ELSE "give"
      /\ UNCHANGED <<desc, txIndex, txDiIndex, txCount, left, OwerDESArray,
                     hwIndex, mid>>
    BY DEF Give
<1>3. /\ Pending' = Pending - 1 /\ Pending \in Int
      /\ Handed' + Pending' = Handed + Pending
    BY <1>0, <1>1 DEF Pending
<1>4. TypeOK'
    BY <1>0, <1>1 DEF Give
<1>5. IndexInv'
    BY <1>1, <1>3 DEF IndexInv
<1>6. PacketInv'
  <2> SUFFICES ASSUME NEW k \in (given .. Len(OwerDESArray))'
               PROVE  (/\ OwerDESArray[k] = At(hwIndex, Handed + (k - given))
                       /\ desc[OwerDESArray[k]] =
                            [frag |-> k, last |-> left = 0 /\ k = Len(OwerDESArray)])'
    BY DEF PacketInv
  <2>1. k \in given .. Len(OwerDESArray)
    BY <1>0, <1>1
  <2>2. /\ OwerDESArray[k] = At(hwIndex, Handed + (k - given))
        /\ desc[OwerDESArray[k]] =
             [frag |-> k, last |-> left = 0 /\ k = Len(OwerDESArray)]
    BY <2>1 DEF PacketInv
  <2>3. Handed' + (k - given') = Handed + (k - given)
    BY <1>0, <1>1, <2>1
  <2>4. QED
    BY <1>1, <2>2, <2>3
<1>7. FrameInv'
  <2>1. At(hwIndex', Handed' - 1) = At(hwIndex, Handed) /\ Handed' # 0
    <3>1. Handed' - 1 = Handed /\ Handed' # 0
      BY <1>0
    <3>2. QED
      BY <1>1, <3>1
  <2>2. desc'[At(hwIndex', Handed' - 1)].last <=> given = Len(OwerDESArray)
    <3>1. desc'[At(hwIndex', Handed' - 1)] =
            [frag |-> given, last |-> given = Len(OwerDESArray)]
      BY <1>0, <1>1, <2>1 DEF At
    <3>2. QED
      BY <3>1, LastField
  <2>3. QED
    BY <1>1, <2>1, <2>2 DEF FrameInv
<1>8. PhaseInv'
  <2>1. txIndex # txDiIndex /\ (pc \in {"fill", "give"})
    BY <1>0 DEF Give, PhaseInv
  <2>2. given = Len(OwerDESArray) => Pending' = 0
    BY <1>0, <1>1 DEF Pending
  <2>3. QED
    BY <1>0, <1>1, <2>1, <2>2 DEF PhaseInv, Setup
<1>9. QED
    BY <1>0, <1>4, <1>5, <1>6, <1>7, <1>8

\* Transmit: the device gives back the first descriptor of its stretch.
LEMMA TransmitFacts ==
    ASSUME IInv, Transmit
    PROVE  /\ Handed \in 1 .. NumTds /\ Handed' = Handed - 1
           /\ hwIndex' = At(hwIndex, 1) /\ hwIndex' \in Ring
           /\ OwnInv'
<1>1. /\ Handed \in 0 .. NumTds /\ hwIndex \in Ring /\ own \in SUBSET Ring
      /\ own' = own \ {hwIndex} /\ hwIndex \in own
    BY HandedFacts DEF IInv, TypeOK, Transmit
<1>2. Handed' = Handed - 1
    BY <1>1, OwnCard DEF Handed
<1>3. Handed > 0
    BY <1>1 DEF IInv, OwnInv, Dist
<1>4. hwIndex' = At(hwIndex, 1) /\ hwIndex' \in Ring
    BY <1>1, NextIsAt DEF Transmit
<1>5. OwnInv'
  <2> SUFFICES ASSUME NEW i \in Ring
               PROVE  i \in own' <=> Dist(At(hwIndex, 1), i) < Handed - 1
    BY <1>2, <1>4 DEF OwnInv
  <2>1. i \in own <=> Dist(hwIndex, i) < Handed
    BY DEF IInv, OwnInv
  <2>2. CASE i = hwIndex
    BY <1>1, <2>2 DEF At, Dist
  <2>3. CASE i # hwIndex
    <3>1. /\ Dist(At(hwIndex, 1), i) = Dist(hwIndex, i) - 1
          /\ Dist(hwIndex, i) \in Int
      BY <1>1, <2>3, DistNext DEF Dist
    <3>2. QED
      BY <1>1, <2>1, <2>3, <3>1
  <2>4. QED
    BY <2>2, <2>3
<1>6. QED
    BY <1>1, <1>2, <1>3, <1>4, <1>5

LEMMA TransmitStep ==
    ASSUME IInv, Transmit, UNCHANGED opt
    PROVE  IInv'
<1>0. /\ Handed \in 1 .. NumTds /\ Handed' = Handed - 1
      /\ hwIndex' = At(hwIndex, 1) /\ hwIndex' \in Ring /\ OwnInv'
      /\ hwIndex \in Ring /\ Len(OwerDESArray) \in Nat /\ given \in Nat
    BY TransmitFacts DEF IInv, TypeOK
<1> USE DEF packet, ring, index, sched, device
<1>1. /\ UNCHANGED <<txIndex, txDiIndex, txCount, packet, pc, ret>>
      /\ mid' = ~desc[hwIndex].last
      /\ \A i \in Ring \ {hwIndex} : desc'[i] = desc[i]
    BY DEF Transmit, IInv, TypeOK
<1>2. Pending' = Pending /\ Pending \in Int /\ Pending >= 0
    BY <1>0, <1>1 DEF Pending, IInv, PhaseInv
<1>3. TypeOK'
  <2>1. desc' \in [Ring -> Frags]
    BY DEF IInv, TypeOK, Transmit, Frags, Blank
  <2>2. QED
    BY <1>0, <2>1 DEF IInv, TypeOK, Transmit, TxInts
<1>4. IndexInv'
  <2>1. /\ Handed + Pending <= NumTds
        /\ txIndex = At(hwIndex, Handed + Pending)
        /\ txCount = Dist(txDiIndex, txIndex)
    BY DEF IInv, IndexInv
  <2>2. Handed' + Pending' = Handed + Pending - 1
    BY <1>0, <1>2
  <2>3. At(At(hwIndex, 1), Handed + Pending - 1) = At(hwIndex, Handed + Pending)
    BY <1>0, <1>2, <2>1 DEF At
  <2>4. QED
    BY <1>0, <1>1, <1>2, <2>1, <2>2, <2>3 DEF IndexInv
<1>5. PacketInv'
  <2> SUFFICES ASSUME NEW k \in given .. Len(OwerDESArray)
               PROVE  /\ OwerDESArray[k] = At(hwIndex', Handed' + (k - given))
                      /\ desc'[OwerDESArray[k]] =
                           [frag |-> k, last |-> left = 0 /\ k = Len(OwerDESArray)]
    BY <1>1 DEF PacketInv
  <2>1. /\ OwerDESArray[k] = At(hwIndex, Handed + (k - given))
        /\ desc[OwerDESArray[k]] =
             [frag |-> k, last |-> left = 0 /\ k = Len(OwerDESArray)]
    BY DEF IInv, PacketInv
  <2>2. /\ At(At(hwIndex, 1), Handed - 1 + (k - given)) = At(hwIndex, Handed + (k - given))
        /\ At(hwIndex, Handed + (k - given)) \in Ring \ {hwIndex}
    <3>1. Handed + (k - given) < NumTds /\ Handed - 1 + (k - given) >= 0
      BY <1>0, <1>2 DEF IInv, IndexInv, Pending
    <3>2. QED
      BY <1>0, <3>1 DEF At
  <2>3. desc'[OwerDESArray[k]] = desc[OwerDESArray[k]]
    BY <1>1, <2>1, <2>2
  <2>4. QED
    BY <1>0, <2>1, <2>2, <2>3
<1>6. FrameInv'
  <2>1. CASE Handed = 1
    <3>1. At(hwIndex, Handed - 1) = hwIndex
      BY <1>0, <2>1 DEF At
    <3>2. desc[hwIndex].last <=> pc # "give"
      BY <2>1, <3>1 DEF IInv, FrameInv
    <3>3. mid' <=> pc = "give"
      BY <1>1, <3>2
    <3>4. Handed' = 0
      BY <1>0, <2>1
    <3>5. QED
      BY <1>1, <3>3, <3>4 DEF FrameInv
  <2>2. CASE Handed # 1
    <3>1. /\ At(hwIndex', Handed' - 1) = At(hwIndex, Handed - 1)
          /\ At(hwIndex, Handed - 1) \in Ring \ {hwIndex}
      BY <1>0, <2>2 DEF At
    <3>2. desc'[At(hwIndex', Handed' - 1)] = desc[At(hwIndex, Handed - 1)]
      BY <1>1, <3>1
    <3>3. QED
      BY <1>0, <1>1, <2>2, <3>2 DEF IInv, FrameInv
  <2>3. QED
    BY <2>1, <2>2
<1>7. PhaseInv'
    BY <1>0, <1>1, <1>2 DEF IInv, PhaseInv, Setup
<1>8. QED
    BY <1>0, <1>3, <1>4, <1>5, <1>6, <1>7 DEF IInv

(***************************************************************************)
(* The interrupts                                                          *)
(***************************************************************************)
\* The steps of the main thread that read or write CSR7 or txScheduled.
LEMMA MainMaskStep ==
    ASSUME IInv, MaskInv, UNCHANGED opt,
           sMacPacketSend \/ sMacFltrFrmXmit \/ EnterTxSchedule
             \/ sMacTxSchedule \/ RxEnable \/ RxEnabled \/ ReturnToMask
    PROVE  MaskInv'
<1> USE DEF MaskInv, ForgetsOnlyUnmasked, ring, index, packet, sched, device
<1>1. CASE sMacPacketSend
    BY <1>1 DEF sMacPacketSend, ScheduleInv, Setup
<1>2. CASE SetupDescriptor("setup1", "setup2") \/ SetupDescriptor("setup2", "setupkick")
    BY <1>2 DEF SetupDescriptor, ScheduleInv, Setup
<1>3. CASE SetupKick \/ SetupWait
    BY <1>3 DEF SetupKick, SetupWait, ScheduleInv, Setup
<1>4. CASE EnterTxSchedule
    BY <1>4 DEF EnterTxSchedule, ScheduleInv, Setup
<1>5. CASE Unschedule \/ ReadCSR7("enable", "write")
    BY <1>5 DEF Unschedule, ReadCSR7, ScheduleInv, Setup
<1>6. CASE WriteCSR7("write", IF Merging THEN {"TI"} ELSE TxInts)
    BY <1>6 DEF WriteCSR7, ScheduleInv, Setup
<1>7. CASE RxEnable
    BY <1>7 DEF RxEnable, ReadCSR7, ScheduleInv, Setup
<1>8. CASE RxEnabled
  <2>1. /\ pc = "rxwrite" /\ pc' = "idle" /\ masked' = csr7
        /\ undone' = (undone \/ masked \ csr7 # {})
        /\ UNCHANGED <<txScheduled, forgot>>
        /\ csr7 \subseteq TxInts
    BY <1>8 DEF RxEnabled, WriteCSR7, IInv, TypeOK
  <2>2. ASSUME ~opt.debug, ~undone' PROVE ScheduleInv'
    BY <2>1, <2>2 DEF ScheduleInv, Setup
  <2>3. QED
    BY <2>1, <2>2
<1>9. CASE ReturnToMask
  <2>1. /\ pc = "idle" /\ pc' = "idle"
        /\ undone' = (undone \/ "TI" \in masked)
        /\ UNCHANGED <<txScheduled, forgot>>
    BY <1>9 DEF ReturnToMask
  <2>2. ASSUME ~opt.debug, ~undone' PROVE ScheduleInv'
    BY <2>1, <2>2 DEF ScheduleInv, Setup, TxInts
  <2>3. QED
    BY <2>1, <2>2
<1>10. QED
    BY <1>1, <1>2, <1>3, <1>4, <1>5, <1>6, <1>7, <1>8, <1>9
       DEF sMacFltrFrmXmit, sMacTxSchedule

\* The handler: while its mask stands it has nothing to forget.
LEMMA IntMaskStep ==
    ASSUME IInv, MaskInv, sMacInt, UNCHANGED opt
    PROVE  MaskInv'
<1>1. /\ event \ masked # {} /\ event \subseteq TxInts
      /\ txScheduled' = TRUE
      /\ masked' = IF txScheduled \/ opt.debug THEN masked ELSE TxInts
      /\ forgot' = (txScheduled /\ pc = "done")
      /\ UNCHANGED <<pc, ret, undone>>
    BY DEF sMacInt, IInv, TypeOK
<1>2. pc # "setup1"
    BY <1>1 DEF MaskInv
<1>3. ASSUME ~opt.debug, ~undone
      PROVE  /\ ~txScheduled
             /\ pc \notin Setup \cup {"enable", "write"}
  <2>1. masked # TxInts /\ ScheduleInv
    BY <1>1, <1>3 DEF MaskInv
  <2>2. QED
    BY <1>2, <2>1 DEF ScheduleInv, Setup
<1>4. ForgetsOnlyUnmasked'
    BY <1>1, <1>3 DEF ForgetsOnlyUnmasked
<1>5. ASSUME ~opt.debug, ~undone PROVE ScheduleInv'
    BY <1>1, <1>3, <1>5 DEF ScheduleInv, Setup
<1>6. QED
    BY <1>1, <1>2, <1>4, <1>5 DEF MaskInv

\* The other steps change neither CSR7 nor txScheduled.
LEMMA QuietMaskStep ==
    ASSUME IInv, MaskInv, UNCHANGED <<opt, sched>>,
           Fill \/ Give \/ Kick \/ sMacTxRingClean \/ Transmit \/ Suspend
             \/ AutoPoll
    PROVE  MaskInv'
<1> USE DEF ring, index, packet, sched, device
<1>1. pc = "setup1" => FALSE
    BY DEF MaskInv, Fill, Give, Kick, sMacTxRingClean, Transmit, Suspend, AutoPoll
<1>2. /\ pc' # "setup1"
      /\ pc' \in Setup \cup {"enable", "write"} => pc' = pc
      /\ pc' = "done" \/ (pc' = "clean" /\ ret' = "done")
           => pc = "done" \/ (pc = "clean" /\ ret = "done")
    BY <1>1 DEF Setup, Fill, Give, Kick, sMacTxRingClean, Transmit, Suspend,
                AutoPoll, IInv, TypeOK
<1>3. QED
    BY <1>2 DEF MaskInv, ForgetsOnlyUnmasked, ScheduleInv, Setup

LEMMA NextMask == IInv /\ MaskInv /\ [Next]_vars => MaskInv'
<1> SUFFICES ASSUME IInv, MaskInv, [Next]_vars PROVE MaskInv'
    OBVIOUS
<1>1. CASE (Fill \/ Give \/ Kick \/ sMacTxRingClean \/ Transmit \/ Suspend
            \/ AutoPoll) /\ UNCHANGED opt
  <2>1. UNCHANGED sched
    BY <1>1 DEF Fill, Give, Kick, sMacTxRingClean, Transmit, Suspend, AutoPoll,
                sched
  <2>2. QED
    BY <1>1, <2>1, QuietMaskStep
<1>2. CASE UNCHANGED vars
    BY <1>2 DEF vars, ring, sched, device, MaskInv, ForgetsOnlyUnmasked,
                ScheduleInv, Setup
<1>3. QED
    BY <1>1, <1>2, MainMaskStep, IntMaskStep
       DEF Next, Send, Poll, Handler, Device

LEMMA NextInv == IInv /\ [Next]_vars => IInv'
<1> SUFFICES ASSUME IInv, [Next]_vars PROVE IInv'
    OBVIOUS
<1>1. CASE Next
    BY <1>1, SendStep, SetupStep, KickStep, FillStep, GiveStep, CleanStep,
       ScheduleStep, TransmitStep
       DEF Next, Send, sMacFltrFrmXmit, Poll, Handler, Device, Setup
<1>2. CASE UNCHANGED vars
  <2>1. TypeOK'
    BY <1>2 DEF vars, IInv, TypeOK, ring, index, packet, sched, device
  <2>2. PhaseInv'
    BY <1>2, QuietKeeps DEF vars, IInv, PhaseInv, ring, index, packet, device
  <2>3. QED
    BY <1>2, <2>1, <2>2, QuietKeeps DEF vars, IInv, ring, index, packet, device
<1>3. QED
    BY <1>1, <1>2

\* For every size of the ring and of the packets: the driver's indices, the
\* OWN bits and the device's position always describe one ring, and CSR7
\* disables what is scheduled unless an enable has undone it.
THEOREM Invariance == Spec => [](IInv /\ MaskInv)
<1>1. Init => MaskInv
    BY DEF Init, MaskInv, ForgetsOnlyUnmasked, ScheduleInv, Setup
<1>2. QED
    BY InitInv, NextInv, NextMask, <1>1, PTL DEF Spec

\* sMacPacketSend, sMacTxRingClean, sMacInt and the device: TestCheckTxFinsih
\* never reports a finished transmission while the device still owns a
\* descriptor, the device meets half a packet only while its OWN bits are
\* being set, and sMacTxSchedule loses an interrupt only where sMacInt disables
\* none or an enable for the other direction has undone its mask.
THEOREM RingIsSound == Spec => []RingSound
<1>1. IInv /\ MaskInv => RingSound
  <2> SUFFICES ASSUME IInv, MaskInv PROVE RingSound
    OBVIOUS
  <2>1. Handed = 0 <=> own = {}
    <3>1. IsFiniteSet(Ring) /\ own \subseteq Ring
      BY FS_Interval DEF IInv, TypeOK
    <3>2. IsFiniteSet(own)
      BY <3>1, FS_Subset
    <3>3. QED
      BY <3>2, FS_EmptySet DEF Handed
  <2>2. TxFinishIsTrue
    BY <2>1 DEF TxFinishIsTrue, IInv, PhaseInv
  <2>3. ASSUME hwIndex \notin own PROVE Handed = 0
    BY <2>3, HandedFacts DEF IInv, TypeOK, OwnInv, Dist
  <2>4. UnderflowOnlyWhileGiving
    BY <2>3 DEF UnderflowOnlyWhileGiving, IInv, FrameInv
  <2>5. QED
    BY <2>2, <2>4 DEF RingSound, IInv, MaskInv
<1>2. QED
    BY <1>1, Invariance, PTL

(***************************************************************************)
(* The ring implements the queue of TxFifo                                 *)
(***************************************************************************)
\* The refinement mapping: what the device owns, from its position on, and
\* the number of the next fragment to hand over.
Queue == [j \in 1 .. Cardinality(own) |-> desc[(hwIndex + j - 1) % NumTds]]

NextFrag == IF pc = "give" THEN given ELSE 1

\* The queue without the remainder.
QueueIs ==
    /\ Handed \in 0 .. NumTds
    /\ Queue \in [1 .. Handed -> Frags]
    /\ \A j \in 1 .. Handed : Queue[j] = desc[At(hwIndex, j - 1)]

LEMMA QueueShape == IInv => QueueIs
<1> SUFFICES ASSUME IInv PROVE QueueIs
    OBVIOUS
<1>1. Handed \in 0 .. NumTds /\ hwIndex \in Ring /\ desc \in [Ring -> Frags]
    BY HandedFacts DEF IInv, TypeOK
<1>2. ASSUME NEW j \in 1 .. Handed
      PROVE  /\ (hwIndex + j - 1) % NumTds = At(hwIndex, j - 1)
             /\ At(hwIndex, j - 1) \in Ring
  <2>1. j - 1 \in 0 .. NumTds /\ hwIndex + j - 1 = hwIndex + (j - 1)
    BY <1>1
  <2>2. QED
    BY <1>1, <2>1, ModIsAt
<1>3. Queue = [j \in 1 .. Handed |-> desc[At(hwIndex, j - 1)]]
    BY <1>2 DEF Queue, Handed
<1>4. QED
    BY <1>1, <1>2, <1>3 DEF QueueIs

\* A step that leaves the descriptors of the device alone leaves the queue
\* alone.
LEMMA QueueKept ==
    ASSUME IInv, IInv', UNCHANGED <<own, hwIndex>>,
           \A i \in own : desc'[i] = desc[i]
    PROVE  UNCHANGED Queue
<1>1. Handed' = Handed
    BY HandedFacts
<1>2. QueueIs /\ QueueIs'
    BY QueueShape, PTL
<1>3. ASSUME NEW j \in 1 .. Handed PROVE Queue'[j] = Queue[j]
  <2>1. At(hwIndex, j - 1) \in own
    <3>1. /\ At(hwIndex, j - 1) \in Ring
          /\ Dist(hwIndex, At(hwIndex, j - 1)) < Handed
      BY SMTT(30), <1>2 DEF IInv, TypeOK, QueueIs, At, Dist
    <3>2. QED
      BY <3>1 DEF IInv, OwnInv
  <2>2. QED
    BY <1>1, <1>2, <2>1 DEF QueueIs
<1>4. QED
    BY <1>1, <1>2, <1>3 DEF QueueIs

\* A descriptor given to the device is put at the end of the queue.
LEMMA QueuePut ==
    ASSUME IInv, IInv', UNCHANGED hwIndex, Handed' = Handed + 1,
           NEW e \in Frags, desc'[At(hwIndex, Handed)] = e,
           \A i \in own : desc'[i] = desc[i]
    PROVE  Queue' = Append(Queue, e)
<1>1. QueueIs /\ QueueIs'
    BY QueueShape, PTL
<1>2. /\ Queue \in Seq(Frags) /\ Len(Queue) = Handed
      /\ Queue' \in Seq(Frags) /\ Len(Queue') = Handed + 1
    BY <1>1 DEF QueueIs
<1>3. ASSUME NEW j \in 1 .. Handed PROVE Queue'[j] = Queue[j]
  <2>1. At(hwIndex, j - 1) \in own
    <3>1. hwIndex \in Ring /\ Handed \in 0 .. NumTds
      BY HandedFacts DEF IInv, TypeOK
    <3>2. j - 1 \in 0 .. NumTds - 1 /\ j - 1 < Handed
      BY <3>1
    <3>3. /\ At(hwIndex, j - 1) \in Ring
          /\ Dist(hwIndex, At(hwIndex, j - 1)) < Handed
      BY <3>1, <3>2, DistAt
    <3>4. QED
      BY <3>3 DEF IInv, OwnInv
  <2>2. QED
    BY <1>1, <2>1 DEF QueueIs
<1>4. Queue'[Handed + 1] = e
    BY <1>1 DEF QueueIs
<1>5. QED
    BY <1>2, <1>3, <1>4

\* A descriptor the device gives back is taken from the front.
LEMMA QueueGet ==
    ASSUME IInv, IInv', Transmit
    PROVE  Queue # <<>> /\ Queue' = Tail(Queue)
<1>1. QueueIs /\ QueueIs'
    BY QueueShape, PTL
<1>2. /\ Handed \in 1 .. NumTds /\ Handed' = Handed - 1
      /\ hwIndex' = At(hwIndex, 1) /\ hwIndex \in Ring
      /\ \A i \in Ring \ {hwIndex} : desc'[i] = desc[i]
    BY TransmitFacts DEF IInv, TypeOK, Transmit
<1>3. /\ Queue \in Seq(Frags) /\ Len(Queue) = Handed
      /\ Queue' \in Seq(Frags) /\ Len(Queue') = Handed - 1
  <2>1. Queue \in Seq(Frags) /\ Len(Queue) = Handed
    BY <1>1 DEF QueueIs
  <2>2. Queue' \in Seq(Frags) /\ Len(Queue') = Handed'
    BY <1>1 DEF QueueIs
  <2>3. QED
    BY <1>2, <2>1, <2>2
<1>4. ASSUME NEW j \in 1 .. Handed - 1 PROVE Queue'[j] = Queue[j + 1]
  <2>1. /\ At(hwIndex', j - 1) = At(hwIndex, (j + 1) - 1)
        /\ At(hwIndex, (j + 1) - 1) \in Ring \ {hwIndex}
    BY <1>2, <1>4 DEF At
  <2>2. desc'[At(hwIndex', j - 1)] = desc[At(hwIndex, (j + 1) - 1)]
    BY <1>2, <2>1
  <2>3. QED
    BY <1>1, <1>2, <2>2 DEF QueueIs
<1>5. QED
    BY <1>2, <1>3, <1>4

\* Every step of the driver and of the device is a step of the queue.
LEMMA StepRefines ==
    ASSUME IInv, IInv', Next
    PROVE  [Fifo!Next]_<<Queue, NextFrag>>
<1> USE DEF ring, index, packet, sched, device
<1>1. ASSUME UNCHANGED <<own, hwIndex>>, \A i \in own : desc'[i] = desc[i],
             NextFrag' = NextFrag
      PROVE  UNCHANGED <<Queue, NextFrag>>
    BY <1>1, QueueKept
<1>2. CASE SetupDescriptor("setup1", "setup2")
           \/ SetupDescriptor("setup2", "setupkick")
  <2> DEFINE e == [frag |-> 1, last |-> TRUE]
  <2>1. /\ ~Full /\ own' = own \cup {txIndex} /\ UNCHANGED hwIndex
        /\ desc' = [desc EXCEPT ![txIndex] = e]
        /\ pc # "give" /\ pc' # "give" /\ pc \in Setup
    BY <1>2 DEF SetupDescriptor, Setup
  <2>2. /\ Handed < NumTds /\ Handed \in Nat /\ txIndex = At(hwIndex, Handed)
        /\ txIndex \notin own /\ txIndex \in Ring /\ desc \in [Ring -> Frags]
        /\ own \subseteq Ring
    <3>1. /\ Pending = 0 /\ txIndex = At(hwIndex, Handed + Pending)
          /\ txIndex \notin own
      BY <2>1 DEF IInv, IndexInv, PhaseInv, Full
    <3>2. Handed \in Nat /\ Handed + Pending < NumTds
      BY <2>1, FreeDescriptor, HandedFacts DEF IInv
    <3>3. Handed + Pending = Handed
      BY <3>1, <3>2
    <3>4. txIndex \in Ring /\ desc \in [Ring -> Frags] /\ own \subseteq Ring
      BY DEF IInv, TypeOK
    <3>5. QED
      BY <3>1, <3>2, <3>3, <3>4
  <2>3. Handed' = Handed + 1 /\ e \in Frags
    BY <2>1, <2>2, OwnGrows DEF Frags
  <2>4. Queue' = Append(Queue, e)
    BY <2>1, <2>2, <2>3, QueuePut
  <2>5. NextFrag = 1 /\ NextFrag' = 1
    BY <2>1 DEF NextFrag
  <2>6. QED
    BY <2>4, <2>5 DEF Fifo!Next, Fifo!Put, Queue, NextFrag
<1>3. CASE Give
  <2> DEFINE b == given = Len(OwerDESArray)
             e == [frag |-> given, last |-> b]
  <2>1. /\ given \in 1 .. Len(OwerDESArray) /\ Len(OwerDESArray) <= MaxFrag
        /\ desc[At(hwIndex, Handed)] = e
        /\ Handed' = Handed + 1 /\ UNCHANGED <<desc, hwIndex>>
        /\ Len(OwerDESArray) \in Nat
    BY <1>3, GiveFacts DEF IInv, TypeOK, Give
  <2>2. e \in Frags
    BY <2>1 DEF Frags
  <2>3. Queue' = Append(Queue, e)
    BY <2>1, <2>2, QueuePut
  <2>4. NextFrag = given /\ NextFrag' = IF b THEN 1 ELSE given + 1
    BY <1>3 DEF NextFrag, Give, IInv, PhaseInv
  <2>5. given < MaxFrag \/ b
    <3>1. ASSUME NEW n \in Nat, NEW g \in 1 .. n, n <= MaxFrag
          PROVE  g < MaxFrag \/ g = n
      BY <3>1, MacTxAssumption DEF MacTxAssumption
    <3>2. QED
      BY <2>1, <3>1, Zenon
  <2>6. QED
    BY <2>3, <2>4, <2>5 DEF Fifo!Next, Fifo!Put, Queue, NextFrag
<1>4. CASE Transmit
  <2>1. UNCHANGED NextFrag
    BY <1>4 DEF Transmit, NextFrag
  <2>2. QED
    BY <1>4, <2>1, QueueGet DEF Fifo!Next, Fifo!Get, Queue, NextFrag
<1>5. CASE Fill
  <2>1. \A i \in own : desc'[i] = desc[i]
    BY <1>5 DEF Fill, Full, IInv, TypeOK
  <2>2. UNCHANGED <<own, hwIndex>> /\ NextFrag' = NextFrag
    BY <1>5 DEF Fill, NextFrag
  <2>3. QED
    BY <1>1, <2>1, <2>2
<1>6. CASE sMacPacketSend \/ SetupKick \/ SetupWait \/ Kick
           \/ EnterTxSchedule \/ sMacTxSchedule \/ RxEnable \/ RxEnabled
           \/ ReturnToMask \/ sMacInt \/ Suspend \/ AutoPoll
  <2>1. UNCHANGED <<own, desc, hwIndex>> /\ NextFrag' = NextFrag
    BY <1>6 DEF NextFrag, sMacPacketSend, SetupKick, SetupWait, Kick,
                EnterTxSchedule, sMacTxSchedule, Unschedule, ReadCSR7,
                WriteCSR7, RxEnable, RxEnabled, ReturnToMask, sMacInt, Suspend,
                AutoPoll
  <2>2. QED
    BY <1>1, <2>1
<1>7. CASE sMacTxRingClean
  <2>1. UNCHANGED <<own, desc, hwIndex>> /\ NextFrag' = NextFrag
    BY <1>7 DEF NextFrag, sMacTxRingClean, IInv, TypeOK
  <2>2. QED
    BY <1>1, <2>1
<1>8. QED
    BY <1>2, <1>3, <1>4, <1>5, <1>6, <1>7
       DEF Next, Send, sMacFltrFrmXmit, Poll, Handler, Device

\* The ring of descriptors, walked by a driver and by a device that share
\* nothing but the OWN bits, is a framed first-in first-out queue: nothing is
\* lost, overwritten, skipped or sent twice, for every size of the ring.
THEOREM RingIsFifo == Spec => FifoSpec
<1>1. Init => Fifo!Init
  <2> SUFFICES ASSUME Init PROVE Fifo!Init
    OBVIOUS
  <2>1. Queue = <<>>
    BY FS_EmptySet DEF Init, Queue
  <2>2. NextFrag = 1
    BY DEF Init, NextFrag
  <2>3. QED
    BY <2>1, <2>2 DEF Fifo!Init, Queue, NextFrag
<1>2. IInv /\ IInv' /\ [Next]_vars => [Fifo!Next]_<<Queue, NextFrag>>
  <2>1. ASSUME UNCHANGED vars PROVE UNCHANGED <<Queue, NextFrag>>
    BY <2>1 DEF vars, ring, packet, device, Queue, NextFrag
  <2>2. QED
    BY <2>1, StepRefines
<1>3. QED
    BY <1>1, <1>2, Invariance, PTL
       DEF Spec, FifoSpec, Fifo!Spec, Queue, NextFrag
=============================================================================
