-------------------------------- MODULE MacRx -------------------------------
(***************************************************************************)
(* The receive side of the MAC driver, src/MAC/if_socle.c: the device      *)
(* (external) writes frames into a ring of descriptors, one segment each;  *)
(* the interrupt handler (sMacInt) schedules the main thread, which moves  *)
(* the segments into a pool of frames and gives the descriptors back       *)
(* (sMacRxSchedule, sMacRecv); the tests read the frames from the pool.    *)
(* CSR7, which disables interrupts, is one register for both directions:   *)
(* of the transmit side (MacTx) this module has what it does to the        *)
(* receive bits of CSR7.                                                   *)
(*                                                                         *)
(* A frame is known by a tag, which alternates, and its number of segments.*)
(***************************************************************************)
EXTENDS Integers, Sequences, FiniteSets

CONSTANTS
    NumRds,            \* descriptors in the ring
    MaxSeg,            \* segments of the longest frame
    PooliMax,          \* slots of the pool, one of which stays empty
    MaxUnread,         \* frames the network sends ahead of the reader
    MaxBad,            \* frames with errors in a row
    Merging,           \* tx_merge_number # 0 (the writes of CSR7 by that test
                       \* itself, macctrl.c:1662 and 1679, are left out)
    IgnoreError        \* rx_ignore_error

ASSUME MacRxAssumption ==
    /\ NumRds \in Nat \ {0, 1} /\ MaxSeg \in Nat \ {0}
    /\ PooliMax \in Nat \ {0, 1} /\ MaxUnread \in Nat \ {0}
    /\ MaxBad \in Nat
    /\ Merging \in BOOLEAN /\ IgnoreError \in BOOLEAN

Ring  == 0 .. NumRds - 1
Slots == 0 .. PooliMax - 1

\* SMAC_RD_INDEX_NEXT, and the index of a pool slot.
NextIndex(i) == (i + 1) % NumRds
NextSlot(i)  == (i + 1) % PooliMax

\* The receive interrupts: end of a frame, no descriptor available.
RxInts == {"RI", "RU"}

Segments == [tag : {0, 1}, seg : 1 .. MaxSeg, ls : BOOLEAN, es : BOOLEAN]
Copied   == [tag : {0, 1}, seg : 1 .. MaxSeg]

VARIABLES
    debug,         \* the build has SMAC_INTCOUNTER_DEBUG: sMacInt does not
                   \* mask RI and RU
    own,           \* descriptors whose OWN bit is set
    desc,          \* what the device wrote last into each descriptor
    rxIndex,       \* next descriptor to take
    pool,          \* rx_PoolPt: the segments copied to each slot
    rx_PooliWrite, \* slot of the next frame
    rx_PooliRead,  \* slot the tests read next
    rx_FristNeeded,\* no frame is being assembled
    rx_dead,       \* the device is known to have run out of descriptors
    rxScheduled,   \* set by sMacInt, reset by sMacRxSchedule
    none,          \* if_sherlock_debug_count = 0
    pc,            \* where the main thread is
    masked,        \* CSR7: the receive interrupts that are disabled
    csr7,          \* what an enable has read of CSR7 and not yet written back
    undone,        \* a write of CSR7 has enabled what sMacInt had disabled
    forgot,        \* sMacInt has cleared an interrupt after the last look at
                   \* the ring
    event,         \* CSR5: the receive interrupts that are pending
    hw,            \* device: "run" or "susp"
    hwIndex,       \* device: next descriptor to fill
    hwSeg,         \* device: segments of the current frame received so far
    hwTag,         \* device: tag of the current frame
    hwBad          \* network: frames with errors since the last good one

ring   == <<own, desc, rxIndex, debug>>
pooled == <<pool, rx_PooliWrite, rx_FristNeeded>>
sched  == <<rxScheduled, masked, csr7, undone, forgot>>
device == <<hw, hwIndex, hwSeg, hwTag, hwBad>>
vars   == <<ring, pooled, rx_PooliRead, rx_dead, none, pc, sched, event,
            device>>

TypeOK ==
    /\ debug \in BOOLEAN
    /\ own \subseteq Ring /\ desc \in [Ring -> Segments] /\ rxIndex \in Ring
    /\ pool \in [Slots -> Seq(Copied)]
    /\ \A s \in Slots : Len(pool[s]) <= MaxSeg
    /\ rx_PooliWrite \in Slots /\ rx_PooliRead \in Slots
    /\ rx_FristNeeded \in BOOLEAN /\ rx_dead \in BOOLEAN
    /\ rxScheduled \in BOOLEAN /\ none \in BOOLEAN
    /\ pc \in {"idle", "get", "again", "recv", "own", "dead", "unsched",
               "enable", "write", "txwrite"}
    /\ csr7 \subseteq RxInts /\ undone \in BOOLEAN /\ forgot \in BOOLEAN
    /\ masked \subseteq RxInts /\ event \subseteq RxInts
    /\ hw \in {"run", "susp"} /\ hwIndex \in Ring
    /\ hwSeg \in 0 .. MaxSeg - 1 /\ hwTag \in {0, 1}
    /\ hwBad \in 0 .. MaxBad

\* sMacInit and Init_Rx_Des: the device owns the ring and the pool is empty.
Init ==
    /\ debug \in BOOLEAN
    /\ own = Ring /\ rxIndex = 0
    /\ desc = [i \in Ring |->
                 [tag |-> 0, seg |-> 1, ls |-> TRUE, es |-> FALSE]]
    /\ pool = [s \in Slots |-> <<>>]
    /\ rx_PooliWrite = 0 /\ rx_PooliRead = 0 /\ rx_FristNeeded = TRUE
    /\ rx_dead = FALSE /\ rxScheduled = FALSE /\ none = TRUE /\ pc = "idle"
    /\ masked = (IF Merging THEN {"RU"} ELSE {}) /\ event = {}
    /\ csr7 = {} /\ undone = FALSE /\ forgot = FALSE
    /\ hw = "run" /\ hwIndex = 0 /\ hwSeg = 0 /\ hwTag = 0 /\ hwBad = 0

(***************************************************************************)
(* The main thread, which runs while no interrupt is deliverable           *)
(***************************************************************************)
Main(from, to) ==
    /\ pc = from /\ pc' = to
    /\ event \subseteq masked
    /\ UNCHANGED <<event, device>>

\* MacTestPolling (macctrl.c) calls sMacRxSchedule when the handler asked for
\* it.
EnterRxSchedule ==
    /\ rxScheduled
    /\ Main("idle", "get")
    /\ none' = TRUE
    /\ UNCHANGED <<ring, pooled, rx_PooliRead, rx_dead, sched>>

\* sMacGetFullRMD: the next descriptor, unless the device owns it.
sMacGetFullRMD ==
    /\ rxIndex \notin own
    /\ Main("get", "recv") \/ Main("again", "recv")
    /\ none' = FALSE
    /\ UNCHANGED <<ring, pooled, rx_PooliRead, rx_dead, sched>>

\* No descriptor: the loop ends, after a second look if it found none at
\* all.
NoRMD ==
    /\ rxIndex \in own
    /\ \/ none /\ Main("get", "again")
       \/ ~none /\ Main("get", "unsched")
       \/ Main("again", "unsched")
    /\ UNCHANGED <<ring, pooled, rx_PooliRead, rx_dead, none, sched>>

rmd == desc[rxIndex]

Discarded ==
    \/ rmd.es /\ rmd.ls /\ ~IgnoreError
    \/ rmd.seg # 1 /\ rx_FristNeeded

PoolFull == rmd.seg = 1 /\ NextSlot(rx_PooliWrite) = rx_PooliRead

\* sMacRecv, first part: discard the segment, or copy it to the pool and
\* complete the frame with its last one, or leave it where it is.
Discard ==
    /\ Discarded
    /\ Main("recv", "own")
    /\ rx_FristNeeded' = (rx_FristNeeded \/ rmd.ls)
    /\ rxIndex' = NextIndex(rxIndex)
    /\ UNCHANGED <<own, desc, debug, pool, rx_PooliWrite, rx_PooliRead, rx_dead,
                   none, sched>>

\* A copy that starts a frame behind what the slot held before.
Copy_appends ==
    /\ ~Discarded /\ ~PoolFull
    /\ Main("recv", "own")
    /\ pool' = [pool EXCEPT ![rx_PooliWrite] =
                  Append(@, [tag |-> rmd.tag, seg |-> rmd.seg])]
    /\ rx_FristNeeded' = rmd.ls
    /\ rx_PooliWrite' = IF rmd.ls THEN NextSlot(rx_PooliWrite)
                        ELSE rx_PooliWrite
    /\ rxIndex' = NextIndex(rxIndex)
    /\ UNCHANGED <<own, desc, debug, rx_PooliRead, rx_dead, none, sched>>

Copy ==
    /\ ~Discarded /\ ~PoolFull
    /\ Main("recv", "own")
    /\ pool' = [pool EXCEPT ![rx_PooliWrite] =
                  Append(IF rmd.seg = 1 THEN <<>> ELSE @,
                         [tag |-> rmd.tag, seg |-> rmd.seg])]
    /\ rx_FristNeeded' = rmd.ls
    /\ rx_PooliWrite' = IF rmd.ls THEN NextSlot(rx_PooliWrite)
                        ELSE rx_PooliWrite
    /\ rxIndex' = NextIndex(rxIndex)
    /\ UNCHANGED <<own, desc, debug, rx_PooliRead, rx_dead, none, sched>>

NoPool ==
    /\ ~Discarded /\ PoolFull
    /\ Main("recv", "get")
    /\ UNCHANGED <<ring, pooled, rx_PooliRead, rx_dead, none, sched>>

\* sMacRecv, second part: give the descriptor to the device.
GiveBack ==
    /\ Main("own", "dead")
    /\ own' = own \cup {(rxIndex - 1) % NumRds}
    /\ UNCHANGED <<desc, rxIndex, debug, pooled, rx_PooliRead, rx_dead, none,
                   sched>>

\* A poll demand that is never issued.
PollDemand_none ==
    /\ pc = "dead" /\ pc' = "get"
    /\ event \subseteq masked
    /\ rx_dead' = FALSE
    /\ UNCHANGED <<ring, pooled, rx_PooliRead, none, sched, event, device>>

\* sMacRecv, third part: a device that had run out of descriptors gets a
\* receive poll demand.
PollDemand ==
    /\ pc = "dead" /\ pc' = "get"
    /\ event \subseteq masked
    /\ rx_dead' = FALSE
    /\ hw' = IF rx_dead THEN "run" ELSE hw
    /\ UNCHANGED <<ring, pooled, rx_PooliRead, none, sched, event, hwIndex,
                   hwSeg, hwTag, hwBad>>

sMacRecv == Discard \/ Copy \/ NoPool \/ GiveBack \/ PollDemand

\* sMAC_INT_ENABLE reads CSR7, which both directions share, and writes it
\* back with some interrupts enabled; sMacInt may run in between.
ReadCSR7(from, to) ==
    /\ Main(from, to)
    /\ csr7' = masked
    /\ UNCHANGED <<ring, pooled, rx_PooliRead, rx_dead, none, rxScheduled,
                   masked, undone, forgot>>

WriteCSR7(from, enabled) ==
    /\ Main(from, "idle")
    /\ masked' = csr7 \ enabled /\ csr7' = {}
    /\ undone' = (undone \/ masked \ csr7 # {})
    /\ UNCHANGED <<ring, pooled, rx_PooliRead, rx_dead, none, rxScheduled,
                   forgot>>

\* The reset of rxScheduled.
Unschedule ==
    /\ Main("unsched", "enable") /\ rxScheduled' = FALSE
    /\ UNCHANGED <<ring, pooled, rx_PooliRead, rx_dead, none, masked, csr7,
                   undone, forgot>>

\* The interrupts enabled first, rxScheduled reset last.
RxDone_enables_first ==
    \/ ReadCSR7("unsched", "write")
    \/ /\ Main("write", "enable")
       /\ masked' = {} /\ csr7' = {}
       /\ UNCHANGED <<ring, pooled, rx_PooliRead, rx_dead, none, rxScheduled,
                      undone, forgot>>
    \/ /\ Main("enable", "idle") /\ rxScheduled' = FALSE
       /\ UNCHANGED <<ring, pooled, rx_PooliRead, rx_dead, none, masked, csr7,
                      undone, forgot>>

\* The end of sMacRxSchedule: reset rxScheduled, then enable the interrupts.
RxDone ==
    \/ Unschedule
    \/ ReadCSR7("enable", "write")
    \/ WriteCSR7("write", IF Merging THEN {"RI"} ELSE RxInts)

\* The end of sMacTxSchedule, which MacTestPolling calls next: the same enable
\* for the transmit interrupts.  (It matters to the receive bits only if
\* sMacInt changes them between the read and the write.)
TxEnable == ~rxScheduled /\ ~debug /\ ReadCSR7("idle", "txwrite")

TxEnabled == WriteCSR7("txwrite", {})

\* A test reads a frame: TestCheckRxNum(1), then TestCheckRxPattern.  What it
\* leaves in the slot counts for nothing: a first segment is copied over it.
Read ==
    /\ rx_PooliRead # rx_PooliWrite
    /\ Main("idle", "idle")
    /\ rx_PooliRead' = NextSlot(rx_PooliRead)
    /\ pool' = [pool EXCEPT ![rx_PooliRead] = <<>>]
    /\ UNCHANGED <<ring, rx_PooliWrite, rx_FristNeeded, rx_dead, none, sched>>

sMacRxSchedule == sMacGetFullRMD \/ NoRMD \/ sMacRecv \/ RxDone

(***************************************************************************)
(* sMacInt                                                                 *)
(***************************************************************************)
\* The handler clears the enabled interrupts it finds pending.  Unless the
\* reception is scheduled already, it schedules it and disables both.  What
\* it clears between the last look at the ring and the reset of rxScheduled
\* is forgotten, until it schedules anew.
sMacInt ==
    /\ event \ masked # {}
    /\ event' = event \cap masked
    /\ rx_dead' = (rx_dead \/ "RU" \in event \ masked)
    /\ rxScheduled' = TRUE
    /\ masked' = IF rxScheduled \/ debug THEN masked ELSE RxInts
    /\ forgot' = (rxScheduled /\ pc = "unsched")
    /\ UNCHANGED <<ring, pooled, rx_PooliRead, none, pc, csr7, undone, device>>

(***************************************************************************)
(* The network and the device (external)                                   *)
(***************************************************************************)
\* The descriptors still to be taken by the driver, and the frames the tests
\* have not read.
Untaken == {i \in Ring \ own : pc = "own" => i # (rxIndex - 1) % NumRds}
Unread  == ((rx_PooliWrite - rx_PooliRead) % PooliMax)
           + Cardinality({i \in Untaken : desc[i].ls})

\* The next segment of a frame.  If it is not the last one and there is no
\* descriptor for the rest, the frame is cut off, marked as faulty, and the
\* device suspends.
Arrive ==
    /\ hw = "run" /\ hwIndex \in own
    /\ hwSeg = 0 => Unread < MaxUnread
    /\ \E last \in BOOLEAN, bad \in BOOLEAN :
         LET cut == ~last /\ NextIndex(hwIndex) \notin own \ {hwIndex}
             end == last \/ cut
         IN  /\ hwSeg + 1 = MaxSeg => last
             /\ bad => last
             /\ bad \/ cut => hwBad < MaxBad
             /\ hwBad' = IF bad \/ cut THEN hwBad + 1
                         ELSE IF last THEN 0 ELSE hwBad
             /\ desc' = [desc EXCEPT ![hwIndex] =
                           [tag |-> hwTag, seg |-> hwSeg + 1,
                            ls |-> end, es |-> bad \/ cut]]
             /\ hwSeg' = IF end THEN 0 ELSE hwSeg + 1
             /\ hwTag' = IF end THEN 1 - hwTag ELSE hwTag
             /\ hw' = IF cut THEN "susp" ELSE hw
             /\ event' = event \cup (IF end THEN {"RI"} ELSE {})
                               \cup (IF cut THEN {"RU"} ELSE {})
    /\ own' = own \ {hwIndex}
    /\ hwIndex' = NextIndex(hwIndex)
    /\ UNCHANGED <<rxIndex, debug, pooled, rx_PooliRead, rx_dead, none, pc,
                   sched>>

\* No descriptor for the next frame.
Suspend ==
    /\ hw = "run" /\ hwIndex \notin own
    /\ hw' = "susp" /\ event' = event \cup {"RU"}
    /\ UNCHANGED <<ring, pooled, rx_PooliRead, rx_dead, none, pc, sched,
                   hwIndex, hwSeg, hwTag, hwBad>>

Poll == EnterRxSchedule \/ sMacRxSchedule \/ TxEnabled

Next == Poll \/ TxEnable \/ Read \/ sMacInt \/ Arrive \/ Suspend

\* The main thread polls, interrupts are served, and a frame that has begun
\* comes to its end; the network may be silent and the test need neither send
\* nor read.
Spec ==
    /\ Init /\ [][Next]_vars
    /\ WF_vars(Poll) /\ WF_vars(sMacInt) /\ WF_vars(hwSeg # 0 /\ Arrive)

(***************************************************************************)
(* Properties                                                              *)
(***************************************************************************)
\* The frame a slot holds; segments of different frames, missing or in the
\* wrong order make no frame.
Frame(s) ==
    IF \A k \in DOMAIN s : s[k] = [tag |-> s[1].tag, seg |-> k]
      THEN [tag |-> s[1].tag, len |-> Len(s)]
      ELSE [tag |-> 2, len |-> Len(s)]

\* The frames in the pool, in the order of reading.
InPool == [j \in 1 .. (rx_PooliWrite - rx_PooliRead) % PooliMax |->
             Frame(pool[(rx_PooliRead + j - 1) % PooliMax])]

\* The last segments of good frames in the ring, the number of those from
\* the one to take next up to one of them, and the frames they end, oldest
\* first.
Ends    == {i \in Untaken : desc[i].ls /\ (~desc[i].es \/ IgnoreError)}
Rank(i) == Cardinality({j \in Ends :
                          (j - rxIndex) % NumRds <= (i - rxIndex) % NumRds})
InRing  == [k \in 1 .. Cardinality(Ends) |->
              LET i == CHOOSE i \in Ends : Rank(i) = k
              IN  [tag |-> desc[i].tag, len |-> desc[i].seg]]

\* The driver implements the promise of RxFifo: frames with errors, frames
\* cut off for want of descriptors and the reuse of ring and pool never
\* mix, lose, repeat or reorder the good frames.
Fifo == INSTANCE RxFifo WITH
    Frames <- [tag : {0, 1}, len : 1 .. MaxSeg],
    q <- InPool \o InRing

FifoSpec == Fifo!Spec

\* A device that has run out of descriptors is known to have, or has an
\* interrupt pending that says so.
DeathIsKnown == hw = "susp" => rx_dead \/ "RU" \in event

\* Where RU is served at once, in the build whose sMacInt is never masked, the
\* receiver is not stranded: it does not sit suspended while it owns every
\* descriptor, for then no sMacRecv will issue the poll demand that rx_dead
\* asks for.  Where RU may be masked until the last descriptor has been given
\* back, it can be.
NotStranded ==
    debug /\ ~Merging /\ hw = "susp" /\ own = Ring => pc = "dead"

\* An interrupt is forgotten only where sMacInt disables none, and otherwise
\* only after the mask it had set was taken back behind its back, by an
\* enable for the other direction that it had interrupted.  (The test with
\* merging, which writes CSR7 on its own account as well, is left out.)
ForgetsOnlyUnmasked == forgot /\ ~Merging => debug \/ undone

\* The drain loop cannot end: a frame is in the ring and the pool is full.
Stuck == pc = "recv" /\ ~Discarded /\ PoolFull

\* A frame that has arrived in the ring is taken out of it, unless sMacInt has
\* forgotten the interrupt, which ForgetsOnlyUnmasked is about, or the pool is
\* full.
Taken == rxIndex \notin own ~> rxIndex \in own \/ Stuck \/ forgot

\* sMacRxSchedule returns, unless the pool is full.
PollReturns == []<>(pc = "idle" \/ Stuck)

\* The ring, the pool and their indices are in order, and no event is lost on
\* the way from the device to the main thread but by an unmasked handler.
RxSound == TypeOK /\ DeathIsKnown /\ NotStranded /\ ForgetsOnlyUnmasked

\* Reception goes on while the pool has room: arrived frames are taken out of
\* the ring, and sMacRxSchedule returns.
RxGoesOn == Taken /\ PollReturns
=============================================================================
