-------------------------------- MODULE MacTx -------------------------------
(***************************************************************************)
(* The transmit side of the MAC driver, src/MAC/if_socle.c: the main       *)
(* thread sends the setup frame (sMacFltrFrmXmit), fills descriptors       *)
(* (sMacPacketSend) and reclaims them (sMacTxRingClean, sMacTxSchedule),   *)
(* the interrupt handler (sMacInt) schedules the reclaim, and the device   *)
(* (external) walks the ring on its own.  A descriptor whose OWN bit is    *)
(* set belongs to the device.  CSR7, which disables interrupts, is one     *)
(* register for both directions: of the receive side (MacRx) this module   *)
(* has what it does to the transmit bits of CSR7.                          *)
(***************************************************************************)
EXTENDS Integers, Sequences, FiniteSets

CONSTANTS
    NumTds,             \* descriptors in the ring
    MaxFrag,            \* descriptors of the longest packet
    MaxMerge            \* largest tx_merge_number of the tests

ASSUME MacTxAssumption ==
    /\ NumTds \in Nat \ {0, 1}
    /\ MaxFrag \in 1 .. NumTds - 1
    /\ MaxMerge \in 0 .. NumTds - 2

Ring == 0 .. NumTds - 1

\* SMAC_TD_INDEX_NEXT and SMAC_TD_DINDEX_NEXT.
NextIndex(i) == (i + 1) % NumTds

\* The transmit interrupts: end of a packet, ring empty.
TxInts == {"TI", "TU"}

Frags == [frag : 1 .. MaxFrag, last : BOOLEAN]

\* What a descriptor that holds no fragment is taken to hold: nobody looks at
\* it before it is filled again.
Blank == [frag |-> 1, last |-> TRUE]

\* How the driver was built and set up.  debug: SMAC_INTCOUNTER_DEBUG, with
\* which sMacInt does not mask the interrupts; AutoPollTx: the device polls
\* the ring by itself; tx_merge_number: packets per poll demand, less one,
\* set only by the test of interrupt mitigation, without automatic polling.
Options ==
    {o \in [debug : BOOLEAN, AutoPollTx : BOOLEAN,
            tx_merge_number : 0 .. MaxMerge] :
       o.AutoPollTx => o.tx_merge_number = 0}

VARIABLES
    opt,          \* the options
    own,          \* descriptors whose OWN bit is set
    desc,         \* what each descriptor is filled with
    txIndex,      \* next descriptor to fill
    txDiIndex,    \* next descriptor to reclaim
    txCount,      \* descriptors in use, by the driver's count
    merge,        \* tx_merge_counter
    left,         \* fragments of the current packet not yet in the ring
    OwerDESArray, \* descriptors of the current packet, in order
    given,        \* how many of them the device has been given, plus one
    pc,           \* where the main thread is
    ret,          \* where sMacTxRingClean returns to
    txScheduled,  \* set by sMacInt, reset by sMacTxSchedule
    masked,       \* CSR7: the transmit interrupts that are disabled
    csr7,         \* what an enable has read of CSR7 and not yet written back
    undone,       \* a write of CSR7 has enabled what sMacInt had disabled
    forgot,       \* sMacInt has cleared an interrupt after the reclaim
    event,        \* CSR5: the transmit interrupts that are pending
    hw,           \* device: "run" or "susp"
    hwIndex,      \* device: next descriptor to fetch
    mid           \* device: in the middle of a packet

ring   == <<own, desc>>
index  == <<txIndex, txDiIndex, txCount>>
packet == <<left, OwerDESArray, given>>
sched  == <<txScheduled, masked, csr7, undone, forgot>>
device == <<hw, hwIndex, mid>>
vars   == <<opt, ring, index, merge, packet, pc, ret, sched, event, device>>

TypeOK ==
    /\ opt \in Options
    /\ own \subseteq Ring /\ desc \in [Ring -> Frags]
    /\ txIndex \in Ring /\ txDiIndex \in Ring /\ txCount \in Ring
    /\ merge \in 0 .. opt.tx_merge_number
    /\ left \in 0 .. MaxFrag
    /\ OwerDESArray \in Seq(Ring) /\ Len(OwerDESArray) <= MaxFrag
    /\ given \in 1 .. MaxFrag + 1
    /\ pc \in {"setup1", "setup2", "setupkick", "setupwait",
              "idle", "fill", "clean", "give", "kick", "done", "enable",
              "write", "rxwrite"}
    /\ ret \in {"fill", "done"}
    /\ txScheduled \in BOOLEAN /\ masked \subseteq TxInts
    /\ csr7 \subseteq TxInts /\ undone \in BOOLEAN /\ forgot \in BOOLEAN
    /\ event \subseteq TxInts
    /\ hw \in {"run", "susp"} /\ hwIndex \in Ring /\ mid \in BOOLEAN

\* SMAC_INTMASK, which sMacInit writes to CSR7, has no TI in a build without
\* SMAC_INTCOUNTER_DEBUG.
Disabled == IF opt.debug THEN {} ELSE {"TI"}

\* The transmit part of sMacInit: an empty ring; the device has found
\* nothing to send and waits for a poll demand.
Init ==
    /\ opt \in Options
    /\ own = {} /\ desc = [i \in Ring |-> Blank]
    /\ txIndex = 0 /\ txDiIndex = 0 /\ txCount = 0
    /\ merge = opt.tx_merge_number
    /\ left = 0 /\ OwerDESArray = <<>> /\ given = 1
    /\ pc = "setup1" /\ ret = "fill"
    /\ txScheduled = FALSE /\ masked = Disabled /\ event = {}
    /\ csr7 = {} /\ undone = FALSE /\ forgot = FALSE
    /\ hw = "susp" /\ hwIndex = 0 /\ mid = FALSE

Merging == opt.tx_merge_number # 0

\* A test of the indices alone.
Full_ignores_own == NextIndex(txIndex) = txDiIndex

\* The device owns the next descriptor, or the ring is full.
Full == txIndex \in own \/ NextIndex(txIndex) = txDiIndex

(***************************************************************************)
(* sMacFltrFrmXmit, which every test calls once, after sMacInit            *)
(***************************************************************************)
\* Two setup descriptors, the second of them empty, are handed over with
\* the interrupts masked.  Both indices advance: nothing is left to reclaim.
SetupDescriptor(from, to) ==
    /\ pc = from /\ pc' = to /\ ~Full
    /\ desc' = [desc EXCEPT ![txIndex] = [frag |-> 1, last |-> TRUE]]
    /\ own' = own \cup {txIndex}
    /\ masked' = TxInts
    /\ txIndex' = NextIndex(txIndex) /\ txDiIndex' = NextIndex(txDiIndex)
    /\ UNCHANGED <<txCount, merge, packet, ret, txScheduled, csr7, undone,
                   forgot, event, device>>

SetupKick ==
    /\ pc = "setupkick" /\ pc' = "setupwait"
    /\ hw' = IF opt.AutoPollTx THEN hw ELSE "run"
    /\ UNCHANGED <<ring, index, merge, packet, ret, sched, event, hwIndex, mid>>

\* A setup that returns as soon as the device owns the frame.
SetupWait_none ==
    /\ pc = "setupwait" /\ pc' = "idle"
    /\ masked' = Disabled
    /\ UNCHANGED <<ring, index, merge, packet, ret, txScheduled, csr7, undone,
                   forgot, event, device>>

\* Wait until the device gives the second one back, then restore CSR7.
SetupWait ==
    /\ pc = "setupwait" /\ pc' = "idle"
    /\ (txIndex - 1) % NumTds \notin own
    /\ masked' = Disabled
    /\ UNCHANGED <<ring, index, merge, packet, ret, txScheduled, csr7, undone,
                   forgot, event, device>>

sMacFltrFrmXmit ==
    \/ SetupDescriptor("setup1", "setup2")
    \/ SetupDescriptor("setup2", "setupkick")
    \/ SetupKick \/ SetupWait

(***************************************************************************)
(* sMacPacketSend                                                          *)
(***************************************************************************)
\* The test of interrupt mitigation sends packets of minimal length.
sMacPacketSend ==
    /\ pc = "idle" /\ pc' = "fill"
    /\ left' \in 1 .. (IF Merging THEN 1 ELSE MaxFrag)
    /\ OwerDESArray' = <<>> /\ given' = 1 /\ forgot' = FALSE
    /\ UNCHANGED <<ring, index, merge, ret, txScheduled, masked, csr7, undone,
                   event, device>>

\* One round of the while loop: clean and try again, or fill a descriptor.
Fill ==
    /\ pc = "fill" /\ left > 0
    /\ \/ /\ Full
          /\ pc' = "clean" /\ ret' = "fill"
          /\ UNCHANGED <<desc, txIndex, txCount, left, OwerDESArray>>
       \/ /\ ~Full
          /\ desc' = [desc EXCEPT ![txIndex] =
                        [frag |-> Len(OwerDESArray) + 1, last |-> left = 1]]
          /\ OwerDESArray' = Append(OwerDESArray, txIndex)
          /\ txIndex' = NextIndex(txIndex)
          /\ txCount' = txCount + 1
          /\ left' = left - 1
          /\ UNCHANGED <<pc, ret>>
    /\ UNCHANGED <<own, txDiIndex, merge, given, sched, event, device>>

\* The OWN bits, first descriptor first, one store each.
Give ==
    /\ pc \in {"fill", "give"} /\ left = 0 /\ given <= Len(OwerDESArray)
    /\ own' = own \cup {OwerDESArray[given]}
    /\ given' = given + 1
    /\ pc' = IF given = Len(OwerDESArray) THEN "kick" ELSE "give"
    /\ UNCHANGED <<desc, index, merge, left, OwerDESArray, ret, sched, event,
                   device>>

\* A send without the poll demand.
Kick_forgotten ==
    /\ pc = "kick" /\ pc' = "idle"
    /\ UNCHANGED <<ring, index, merge, packet, ret, sched, event, device>>

\* sMAC_KICKSTART, once for every tx_merge_number + 1 packets.
Kick ==
    /\ pc = "kick" /\ pc' = "idle"
    /\ merge' = IF merge = 0 THEN opt.tx_merge_number ELSE merge - 1
    /\ hw' = IF merge = 0 /\ ~opt.AutoPollTx THEN "run" ELSE hw
    /\ UNCHANGED <<ring, index, packet, ret, sched, event, hwIndex, mid>>

(***************************************************************************)
(* sMacTxRingClean, sMacTxSchedule, sMacInt                                *)
(***************************************************************************)
\* One round of the reclaim loop.
sMacTxRingClean ==
    /\ pc = "clean"
    /\ \/ /\ txDiIndex # txIndex /\ txDiIndex \notin own
          /\ txDiIndex' = NextIndex(txDiIndex)
          /\ txCount' = txCount - 1
          /\ UNCHANGED pc
       \/ /\ txDiIndex = txIndex \/ txDiIndex \in own
          /\ pc' = ret
          /\ UNCHANGED <<txDiIndex, txCount>>
    /\ UNCHANGED <<ring, txIndex, merge, packet, ret, sched, event, device>>

\* MacTestPolling (macctrl.c) calls sMacTxSchedule when the handler asked for
\* it; the first thing it does is to clean the ring.
EnterTxSchedule ==
    /\ pc = "idle" /\ txScheduled
    /\ pc' = "clean" /\ ret' = "done"
    /\ UNCHANGED <<ring, index, merge, packet, sched, event, device>>

\* sMAC_INT_ENABLE reads CSR7, which both directions share, and writes it
\* back with some interrupts enabled; sMacInt may run in between.
ReadCSR7(from, to) ==
    /\ pc = from /\ pc' = to /\ csr7' = masked
    /\ UNCHANGED <<ring, index, merge, packet, ret, txScheduled, masked, undone,
                   forgot, event, device>>

WriteCSR7(from, enabled) ==
    /\ pc = from /\ pc' = "idle"
    /\ masked' = csr7 \ enabled /\ csr7' = {}
    /\ undone' = (undone \/ masked \ csr7 # {})
    /\ UNCHANGED <<ring, index, merge, packet, ret, txScheduled, forgot, event,
                   device>>

\* The reset of txScheduled.
Unschedule ==
    /\ pc = "done" /\ pc' = "enable" /\ txScheduled' = FALSE
    /\ UNCHANGED <<ring, index, merge, packet, ret, masked, csr7, undone,
                   forgot, event, device>>

\* The interrupts enabled first, txScheduled reset last.
sMacTxSchedule_enables_first ==
    \/ ReadCSR7("done", "write")
    \/ /\ pc = "write" /\ pc' = "enable"
       /\ masked' = {} /\ csr7' = {}
       /\ UNCHANGED <<ring, index, merge, packet, ret, txScheduled, undone,
                      forgot, event, device>>
    \/ /\ pc = "enable" /\ pc' = "idle" /\ txScheduled' = FALSE
       /\ UNCHANGED <<ring, index, merge, packet, ret, masked, csr7, undone,
                      forgot, event, device>>

\* The rest of sMacTxSchedule: reset txScheduled, then enable the
\* interrupts, TI alone if packets are merged.
sMacTxSchedule ==
    \/ Unschedule
    \/ ReadCSR7("enable", "write")
    \/ WriteCSR7("write", IF Merging THEN {"TI"} ELSE TxInts)

\* The end of sMacRxSchedule, which MacTestPolling calls first: the same
\* enable for the receive interrupts.  (It matters to the transmit bits only
\* if sMacInt changes them between the read and the write.)
RxEnable == ~txScheduled /\ ~opt.debug /\ ReadCSR7("idle", "rxwrite")

RxEnabled == WriteCSR7("rxwrite", {})

\* The test of interrupt mitigation writes its own mask to CSR7, after the
\* setup frame and then after every few packets.
ReturnToMask ==
    /\ pc = "idle" /\ Merging
    /\ masked' = {"TU"}
    /\ undone' = (undone \/ "TI" \in masked)
    /\ UNCHANGED <<ring, index, merge, packet, pc, ret, txScheduled, csr7,
                   forgot, event, device>>

\* The handler clears the enabled interrupts it finds pending.  Unless the
\* reclaim is scheduled already, it schedules it and disables both.  What it
\* clears between the reclaim and the reset of txScheduled is forgotten,
\* until it schedules anew or another packet is sent.
sMacInt ==
    /\ event \ masked # {}
    /\ event' = event \cap masked
    /\ txScheduled' = TRUE
    /\ masked' = IF txScheduled \/ opt.debug THEN masked ELSE TxInts
    /\ forgot' = (txScheduled /\ pc = "done")
    /\ UNCHANGED <<ring, index, merge, packet, pc, ret, csr7, undone, device>>

(***************************************************************************)
(* The device (external)                                                   *)
(***************************************************************************)
\* It sends what its next descriptor holds and gives the descriptor back.
\* The end of a packet may raise TI; no descriptor asks for it (TDESC1_IC).
Transmit ==
    /\ hw = "run" /\ hwIndex \in own
    /\ own' = own \ {hwIndex}
    /\ hwIndex' = NextIndex(hwIndex)
    /\ mid' = ~desc[hwIndex].last
    /\ desc' = [desc EXCEPT ![hwIndex] = Blank]
    /\ event' \in {event} \cup
                  (IF desc[hwIndex].last THEN {event \cup {"TI"}} ELSE {})
    /\ UNCHANGED <<index, merge, packet, pc, ret, sched, hw>>

\* It suspends at a descriptor it does not own and raises TU.
Suspend ==
    /\ hw = "run" /\ hwIndex \notin own
    /\ hw' = "susp" /\ event' = event \cup {"TU"}
    /\ UNCHANGED <<ring, index, merge, packet, pc, ret, sched, hwIndex, mid>>

\* Automatic polling resumes a suspended device.
AutoPoll ==
    /\ opt.AutoPollTx /\ hw = "susp" /\ hwIndex \in own
    /\ hw' = "run"
    /\ UNCHANGED <<ring, index, merge, packet, pc, ret, sched, event, hwIndex,
                   mid>>

Send ==
    /\ sMacFltrFrmXmit \/ Fill \/ Give \/ Kick \/ sMacTxRingClean
    /\ UNCHANGED opt

Poll == (EnterTxSchedule \/ sMacTxSchedule \/ RxEnabled) /\ UNCHANGED opt

Handler == sMacInt /\ UNCHANGED opt

Device == (Transmit \/ Suspend \/ AutoPoll) /\ UNCHANGED opt

Next ==
    \/ (sMacPacketSend \/ RxEnable \/ ReturnToMask) /\ UNCHANGED opt
    \/ Send \/ Poll \/ Handler \/ Device

\* The main thread runs and polls, interrupts are served and the device
\* works; sending a packet, receiving one and writing CSR7 is up to the user.
Spec ==
    /\ Init /\ [][Next]_vars
    /\ WF_vars(Send) /\ WF_vars(Poll) /\ WF_vars(Handler) /\ WF_vars(Device)

(***************************************************************************)
(* Properties                                                              *)
(***************************************************************************)
\* The ring implements a framed first-in first-out queue: no descriptor is
\* refilled while the device owns it, none is skipped or sent twice, and
\* the device finds the fragments of a packet next to each other.
Fifo == INSTANCE TxFifo WITH
    q <- [j \in 1 .. Cardinality(own) |->
            desc[(hwIndex + j - 1) % NumTds]],
    nxt <- IF pc = "give" THEN given ELSE 1

FifoSpec == Fifo!Spec

\* The device runs dry within a packet only in the short time between the
\* first and the last OWN bit, when it is still running from the packet
\* before; never while the packet is being set up or after it is complete.
UnderflowOnlyWhileGiving ==
    hw = "run" /\ mid /\ hwIndex \notin own => pc = "give"

\* TestCheckTxFinsih tells the truth: when the two indices meet between
\* calls, the device has sent everything.
TxFinishIsTrue == pc = "idle" /\ txIndex = txDiIndex => own = {}

\* sMacFltrFrmXmit and sMacPacketSend return: their unbounded waits for the
\* device and for a free descriptor end.
SendReturns ==
    pc \in {"setup1", "fill", "give", "kick"} ~> pc = "idle"

\* When everything has been sent, the descriptors are reclaimed and the wait
\* for TestCheckTxFinsih ends, unless another packet is sent, or sMacInt has
\* forgotten the interrupt, which ForgetsOnlyUnmasked is about.  (With
\* merging nobody waits for it, and TU is disabled.)
Reclaimed ==
    ~Merging /\ own = {} /\ txIndex # txDiIndex
        ~> txIndex = txDiIndex \/ own # {} \/ forgot

\* An interrupt is forgotten only where sMacInt disables none, and otherwise
\* only after the mask it had set was taken back behind its back, by an
\* enable for the other direction that it had interrupted.
ForgetsOnlyUnmasked == forgot => opt.debug \/ undone

\* What the ring is between and within calls: the indices tell the truth
\* about what has been sent, the device meets an unfinished packet only
\* where the OWN bits are being set, and the reclaim loses no interrupt but
\* by an unmasked handler.
RingSound ==
    TypeOK /\ TxFinishIsTrue /\ UnderflowOnlyWhileGiving /\ ForgetsOnlyUnmasked
=============================================================================
