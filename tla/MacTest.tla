------------------------------ MODULE MacTest ------------------------------
(***************************************************************************)
(* The test program of the Ethernet MAC, src/MAC/macctrl.c, with the       *)
(* initialisation of the driver, src/MAC/if_socle.c: the settings that a   *)
(* test changes and takes back, the PHY, the filter, the frames that a     *)
(* test sends to itself and what it looks at when they have come back.     *)
(*                                                                         *)
(* The rings of the driver are modules of their own (MacTx, MacRx): here a *)
(* frame that is sent is on the wire, and one that is received is in the   *)
(* pool, in order, as TxFifo and RxFifo promise.  The controller, the PHY  *)
(* and the wire are external.  The settings that no test looks at (speed,  *)
(* burst, arbitration, byte order) keep their defaults.                    *)
(***************************************************************************)
EXTENDS Session, TLC, SequencesExt

CONSTANT Sweep      \* the lengths that test O sends, of all from 60 to 1500

ASSUME SweepAssumption == Sweep \subseteq 60 .. 1500

\* Test_Perfect_MAC_Addr and Test_Hash_MAC_Addr: the latter are multicast
\* addresses, but for one that is the board's own.
Perfect(i) == <<"perfect", i>>
Hash(i) == IF i = 8 THEN Perfect(0) ELSE <<"hash", i>>
Multicast(addr) == addr[1] = "hash"

TEST_MIN_MTU == 46
TEST_MAX_MTU == 1500

\* The Test_ globals, as mac_normal_test sets them on the way in.
Default ==
    [FilterMode |-> "PERFECT", FilterSize |-> 1, DisPadding |-> FALSE,
     DisCRC |-> FALSE, Ethernet_Frame |-> FALSE, SingleBuff1 |-> TRUE,
     SingleBuff2 |-> FALSE, ChainDes |-> FALSE, SkipDes |-> FALSE,
     Tx_TR |-> 4, Tx_Underflow |-> FALSE, LoopBack |-> TRUE]

NoCount ==
    [rxTooLong |-> 0, rxRuntFrm |-> 0, rxCrcErr |-> 0, rxFiltrErr |-> 0,
     rxMultiFCount |-> 0, int_unf |-> 0]

VARIABLES
    board,      \* "good", without a plug in the socket, or without a PHY
    mset,       \* the Test_ globals
    chip,       \* [on, set, type]: what the controller was given, and the
                \* kind of filter it reports
    wire,       \* the frames that have been sent and are not back yet
    pool,       \* Test_Rx_DataPool since sMacInit, read or not
    rd,         \* number of frames of it that have been read
    cnt,        \* errStats, int_counter and rxMultiFCount
    mtest,      \* key of the last test
    round,      \* the round of the test, and
    sent,       \* the frames that it has sent in that round
    harmed      \* this test has met a fault of the board

mvars == <<board, mset, chip, wire, pool, rd, cnt, mtest, round, sent, harmed>>

-----------------------------------------------------------------------------
(* The tests.  A frame is its receiver, its length and its mark.  In each  *)
(* round a test sends, waits for `want` frames, and then looks at the next *)
(* frames of the pool and at counters.  `looks` says whose failure ends    *)
(* the test, where "wait" is the wait for the frames.                      *)

F(addr, length, ID) == <<addr, length, ID>>

Round(send, want, check) == [send |-> send, want |-> want, check |-> check]

MacItem(set, looks, rounds, counts) ==
    [set |-> set, looks |-> looks, rounds |-> rounds, counts |-> counts]

Own(length, ID) == F(Perfect(0), length, ID)

\* The nine frames of the normal test, of which the filter takes two.
NormalFrames ==
    <<Own(TEST_MIN_MTU, 1), Own(256, 2), Own(512, 3), Own(1024, 4),
      Own(TEST_MAX_MTU, 5), F(Perfect(1), TEST_MIN_MTU, 6),
      F(Perfect(1), TEST_MAX_MTU, 7), F(Hash(8), TEST_MIN_MTU, 8),
      F(Hash(8), TEST_MAX_MTU, 9)>>

NormalRound ==
    <<Round(NormalFrames, 7, SelectSeq(NormalFrames, LAMBDA f : f[3] \notin {6, 7}))>>

NoCheck == <<>>
All == {"init", "filter", "wait"}

\* '3', Initial MAC
InitialMac == MacItem(<<>>, All, <<Round(<<>>, 0, NoCheck)>>, <<>>)

\* '4', Normal Loopback Test
rc2 == MacItem(<<>>, All, NormalRound, <<>>)

\* '5', Long Frame
rc3 == MacItem("FilterMode" :> "ALL_BAD", {},
    <<Round(<<Own(TEST_MAX_MTU + 1, 1), Own(TEST_MAX_MTU + 256, 2)>>, 2, NoCheck)>>,
    "rxTooLong" :> 2)

\* '6', Run(t) Frame
rc4 == MacItem("FilterMode" :> "ALL_BAD" @@ "DisPadding" :> TRUE, {},
    <<Round(<<Own(45, 1), Own(4, 2)>>, 2, NoCheck)>>, "rxRuntFrm" :> 2)

\* '7', Frame with CRC Error
rc6 == MacItem("FilterMode" :> "ALL_BAD" @@ "DisCRC" :> TRUE, {},
    <<Round(<<Own(TEST_MIN_MTU + 4, 1), Own(TEST_MAX_MTU + 4, 2)>>, 2, NoCheck)>>,
    "rxCrcErr" :> 2)

TwoByTwo ==
    <<Own(TEST_MIN_MTU, 1), F(Perfect(1), TEST_MIN_MTU, 2),
      Own(TEST_MAX_MTU, 3), F(Perfect(1), TEST_MAX_MTU, 4)>>

\* '9', Filtering Fail
raf2 == MacItem("FilterMode" :> "PERFECT_FAIL", {"filter", "wait"},
    <<Round(TwoByTwo, 4, NoCheck)>>, "rxFiltrErr" :> 2)

\* 'A', Inverse Perfect Filtering
raf3 == MacItem("FilterMode" :> "INVERSE_PERFECT", {"filter", "wait"},
    <<Round(TwoByTwo, 2, <<TwoByTwo[2], TwoByTwo[4]>>)>>, <<>>)

\* The frames of the two hash tests: to the board, to each of the table's
\* multicast addresses, and three that the filter must refuse.
HashFrames(stranger) ==
    <<Own(TEST_MIN_MTU, 1), F(stranger, TEST_MIN_MTU, 12)>>
    \o [i \in 1 .. 8 |-> F(Hash(i - 1), IF i % 2 = 1 THEN TEST_MIN_MTU
                                         ELSE TEST_MAX_MTU, i + 1)]
    \o <<F(Hash(9), TEST_MIN_MTU, 10), F(stranger, TEST_MAX_MTU, 13),
         Own(TEST_MAX_MTU, 11)>>

HashRound(stranger) ==
    <<Round(HashFrames(stranger), 10,
            SelectSeq(HashFrames(stranger), LAMBDA f : f[3] \notin {10, 12, 13}))>>

\* 'B', Hash Filtering
raf4 == MacItem("FilterMode" :> "HASH" @@ "FilterSize" :> 9, {"filter", "wait"},
    HashRound(Perfect(1)), "rxMultiFCount" :> 8)

\* 'C', Hash Only Filtering
raf5 == MacItem("FilterMode" :> "HASH_ONLY" @@ "FilterSize" :> 9,
    {"filter", "wait"}, HashRound(Perfect(2)), "rxMultiFCount" :> 8)

\* Rounds that must bring back every frame.
AllBack(frames) == <<Round(frames, Len(frames), frames)>>

\* 'D', Receive Bad packet
raf6 == MacItem("FilterMode" :> "ALL_BAD" @@ "DisPadding" :> TRUE,
    {"filter", "wait"},
    AllBack(<<Own(TEST_MIN_MTU, 1), Own(40, 2), Own(4, 3), Own(TEST_MAX_MTU, 4),
              F(Perfect(1), TEST_MIN_MTU, 5), F(Perfect(2), TEST_MAX_MTU, 6)>>),
    "rxRuntFrm" :> 2)

\* 'E', Promiscuous Filtering
raf7 == MacItem("FilterMode" :> "PROMISCUOUS", {"filter", "wait"},
    AllBack([i \in 1 .. 8 |->
        F(IF i < 7 THEN Perfect((i - 1) \div 2) ELSE Hash(0),
          IF i % 2 = 1 THEN TEST_MIN_MTU ELSE TEST_MAX_MTU, i)]),
    "rxMultiFCount" :> 2)

MultiFrames ==
    <<Own(TEST_MIN_MTU, 1), Own(TEST_MAX_MTU, 2), F(Perfect(1), TEST_MIN_MTU, 3),
      F(Perfect(1), TEST_MAX_MTU, 4), F(Hash(0), TEST_MIN_MTU, 5),
      F(Hash(0), TEST_MAX_MTU, 6), F(Hash(1), TEST_MIN_MTU, 7),
      F(Hash(2), TEST_MAX_MTU, 8)>>

\* 'F', Pass All Multicast
raf8 == MacItem("FilterMode" :> "ALL_MULTI", {"filter", "wait"},
    <<Round(MultiFrames, 6, SelectSeq(MultiFrames, LAMBDA f : f[3] \notin {3, 4}))>>,
    "rxMultiFCount" :> 4)

\* 'H', 'I', 'L' and 'M': Single Buffer2, Chain Mode, Skip Ring Mode and
\* Dual Buffer
rlsm2 == MacItem("SingleBuff1" :> FALSE @@ "SingleBuff2" :> TRUE, {"wait"},
                 NormalRound, <<>>)

rlsm9 == MacItem("ChainDes" :> TRUE, {"wait"}, NormalRound, <<>>)

rlsm11 == MacItem("SkipDes" :> TRUE, {"wait"}, NormalRound, <<>>)

rlsm3 == MacItem("SingleBuff1" :> FALSE @@ "SingleBuff2" :> FALSE, {"wait"},
                 NormalRound, <<>>)

\* 'O', Continue Tx 60~1500 Packet
ContinueTx == MacItem(<<>>, {"wait"},
    LET lengths == SetToSortSeq(Sweep, <)
    IN  FlattenSeq([i \in DOMAIN lengths |->
                      AllBack(<<Own(lengths[i], lengths[i] % 128)>>)]), <<>>)

\* 'P', Tx Underflow Test: the frame never comes, and nobody waits for it;
\* the 100 ms of the test are enough for the controller.
tfifo9 == MacItem("Tx_TR" :> 1 @@ "Tx_Underflow" :> TRUE, {},
    <<Round(<<Own(TEST_MAX_MTU, 1)>>, 1, NoCheck)>>, "int_unf" :> 1)

\* 'Y', Normal external loopback Test
ExternalLoop == MacItem("LoopBack" :> FALSE @@ "Ethernet_Frame" :> TRUE, All,
                        NormalRound, <<>>)

\* The switch of mac_normal_test.
Item ==
    "3" :> InitialMac @@ "4" :> rc2 @@ "5" :> rc3 @@ "6" :> rc4 @@ "7" :> rc6
    @@ "9" :> raf2 @@ "A" :> raf3 @@ "B" :> raf4 @@ "C" :> raf5 @@ "D" :> raf6
    @@ "E" :> raf7 @@ "F" :> raf8 @@ "H" :> rlsm2 @@ "I" :> rlsm9
    @@ "L" :> rlsm11 @@ "M" :> rlsm3 @@ "O" :> ContinueTx @@ "P" :> tfifo9
    @@ "Y" :> ExternalLoop

-----------------------------------------------------------------------------
(* The controller. *)

\* Filter_TableType_TABLE
FilterTableType(mode) ==
    IF mode \in {"INVERSE_PERFECT", "HASH", "HASH_ONLY"} THEN mode ELSE "PERFECT"

\* MacTestFilterInit and sMacFltrFrmSetup: the addresses of the table.
FilterTable(set) ==
    LET size == set.FilterSize
    IN  CASE set.FilterMode = "HASH" -> {Perfect(0)} \union {Hash(i) : i \in 0 .. size - 2}
          [] set.FilterMode = "HASH_ONLY" -> {Hash(i) : i \in 0 .. size - 1}
          [] OTHER -> {Perfect(i) : i \in 0 .. size - 1}

\* The filter of the controller, with the table of the setup frame.
Matches(set, type, addr) ==
    IF type = "INVERSE_PERFECT" THEN addr \notin FilterTable(set)
    ELSE addr \in FilterTable(set)

\* What arrives: a frame without a CRC gives its last four bytes for one.
Arrived(set, f) ==
    IF set.DisCRC THEN [f EXCEPT !.length = @ - 4]
    ELSE IF set.DisPadding \/ f.length >= TEST_MIN_MTU THEN f
    ELSE [f EXCEPT !.length = TEST_MIN_MTU]

Runt(f) == f.length < TEST_MIN_MTU
Long(set, f) == ~set.DisCRC /\ f.length > TEST_MAX_MTU

\* Filter_OPMode_TABLE: what each mode lets through, bad frames only where
\* it says so.
Accepts(set, type, f) ==
    \/ set.FilterMode = "ALL_BAD"
    \/ /\ ~Runt(f) /\ ~set.DisCRC
       /\ \/ set.FilterMode \in {"PROMISCUOUS", "PERFECT_FAIL"}
          \/ set.FilterMode = "ALL_MULTI" /\ Multicast(f.to)
          \/ Matches(set, type, f.to)

\* sMacRecv: the counters of a frame.
Counted(set, type, f) ==
    [cnt EXCEPT !.rxTooLong = @ + (IF Long(set, f) THEN 1 ELSE 0),
                !.rxRuntFrm = @ + (IF Runt(f) THEN 1 ELSE 0),
                !.rxCrcErr = @ + (IF set.DisCRC THEN 1 ELSE 0),
                !.rxFiltrErr = @ + (IF Matches(set, type, f.to) THEN 0 ELSE 1),
                !.rxMultiFCount = @ + (IF Multicast(f.to) THEN 1 ELSE 0)]

\* A frame ends on the wire: it underflows, or comes back and is taken or
\* refused.  The wire may lose one, the filter let one through, the data
\* come back wrong.
MacLoopBack ==
    LET set  == chip.set
        type == chip.type
        f    == Arrived(set, Head(wire))
        Receive(g) == /\ pool' = Append(pool, g)
                      /\ cnt' = Counted(set, type, f)
        Refuse == UNCHANGED <<pool, cnt>>
    IN  /\ dev = "mac" /\ chip.on /\ wire # <<>> /\ wire' = Tail(wire)
        /\ \/ /\ set.Tx_Underflow /\ set.Tx_TR < 4
              /\ cnt' = [cnt EXCEPT !.int_unf = @ + 1]
              /\ UNCHANGED <<pool, harmed>>
           \/ /\ ~(set.Tx_Underflow /\ set.Tx_TR < 4)
              /\ \/ /\ IF Accepts(set, type, f) THEN Receive(f) ELSE Refuse
                    /\ UNCHANGED harmed
                 \/ /\ ~harmed /\ harmed' = TRUE
                    /\ \/ Accepts(set, type, f) /\ Refuse
                       \/ ~Accepts(set, type, f) /\ Receive(f)
                       \/ Accepts(set, type, f) /\ Receive([f EXCEPT !.data = -1])
        /\ UNCHANGED <<session, board, mset, chip, rd, mtest, round, sent>>

-----------------------------------------------------------------------------
(* The main thread. *)

MacStep(from, to) ==
    /\ Main("mac", FALSE, from, to)
    /\ UNCHANGED <<vec, iec, flag, board>>

\* mac_normal_test up to its loop
MacOpen ==
    /\ MacStep("closed", "menu")
    /\ mset' = Default
    /\ UNCHANGED <<ret, chip, wire, pool, rd, cnt, mtest, round, sent, harmed>>

\* 'x': the device stays enabled and its interrupt registered.
MacClose ==
    /\ MacStep("menu", "closed")
    /\ UNCHANGED <<ret, mset, chip, wire, pool, rd, cnt, mtest, round, sent, harmed>>

\* Paser_ParaSetting, ':' and '"'
Paser_ParaSetting(eth) ==
    /\ MacStep("menu", "menu")
    /\ mset' = [mset EXCEPT !.Ethernet_Frame = eth]
    /\ UNCHANGED <<ret, chip, wire, pool, rd, cnt, mtest, round, sent, harmed>>

\* sMacMiiScan: the PHY answers or not.  Its address is kept, and a second
\* call finds the same.
sMacMiiScan == board # "nophy"

\* sMacMiiInit: in loopback the link does not matter.
sMacMiiInit == sMacMiiScan /\ (mset.LoopBack \/ board = "good")

\* '1' and '2', which look at the PHY only.
MacMii(key) ==
    /\ MacStep("menu", "menu")
    /\ ret' = IF (key = "1" /\ sMacMiiScan) \/ (key = "2" /\ sMacMiiInit) THEN 0 ELSE -1
    /\ mtest' = key /\ harmed' = FALSE
    /\ UNCHANGED <<mset, chip, wire, pool, rd, cnt, round, sent>>

\* A test begins with its settings.
MacBegin(key) ==
    /\ MacStep("menu", "init")
    /\ mtest' = key /\ mset' = Item[key].set @@ mset
    /\ round' = 1 /\ sent' = 0 /\ harmed' = FALSE
    /\ UNCHANGED <<ret, chip, wire, pool, rd, cnt>>

\* A test ends: what it has set is taken back at its label, or, for the
\* loopback, at the top of the loop.  The kind of frame that Y sets stays.
MacEnd(from, result) ==
    /\ MacStep(from, "menu")
    /\ ret' = result
    /\ mset' = [k \in DOMAIN mset |->
                  IF k \in DOMAIN Item[mtest].set \ {"Ethernet_Frame"}
                  THEN Default[k] ELSE mset[k]]

\* The end of sMacInit: the indices of the pool and the counters start anew.
PoolReset == pool' = <<>> /\ rd' = 0 /\ cnt' = NoCount

\* sMacInit: the controller is reset before the PHY is looked for, and
\* stays so if there is none.
sMacInit ==
    LET looks == Item[mtest].looks
    IN  /\ pc = "init"
        /\ wire' = <<>>
        /\ chip' = [chip EXCEPT !.on = sMacMiiInit,
                               !.set = IF sMacMiiInit THEN mset ELSE @]
        /\ IF sMacMiiInit
           THEN /\ MacStep("init", "filter")
                /\ PoolReset
                /\ UNCHANGED <<ret, mset>>
           ELSE /\ \/ "init" \in looks /\ MacEnd("init", -1)
                   \/ "init" \notin looks /\ MacStep("init", "filter")
                      /\ UNCHANGED <<ret, mset>>
                /\ UNCHANGED <<pool, rd, cnt>>
        /\ UNCHANGED <<mtest, round, sent, harmed>>

\* sMacFltrFrmXmit: the setup frame is waited for without a bound, and a
\* controller that is off never takes it.  A broken one reports a kind of
\* filter that it was not told.
sMacFltrFrmXmit ==
    LET type == FilterTableType(mset.FilterMode)
    IN  /\ pc = "filter" /\ chip.on
        /\ \/ MacStep("filter", "send") /\ chip' = [chip EXCEPT !.type = type]
              /\ UNCHANGED <<ret, mset, harmed>>
           \/ /\ harmed' = TRUE
              /\ \E wrong \in {"PERFECT", "INVERSE_PERFECT"} \ {type} :
                    chip' = [chip EXCEPT !.type = wrong]
              /\ \/ "filter" \in Item[mtest].looks /\ MacEnd("filter", -1)
                 \/ "filter" \notin Item[mtest].looks
                    /\ MacStep("filter", "send") /\ UNCHANGED <<ret, mset>>
        /\ UNCHANGED <<wire, pool, rd, cnt, mtest, round, sent>>

\* The length or type field of a frame.
LengthType(length) ==
    IF mset.Ethernet_Frame THEN 32768
    ELSE IF length > 1500 THEN 0 ELSE IF mset.DisCRC THEN length - 4 ELSE length

Pattern(f) ==
    [to |-> f[1], length |-> f[2], field |-> LengthType(f[2]), data |-> f[3]]

Todo == Item[mtest].rounds[round]

\* MacTestPrepareTx and MacTestPolling
MacTestPrepareTx ==
    /\ MacStep("send", "send")
    /\ sent < Len(Todo.send)
    /\ wire' = Append(wire, Pattern(Todo.send[sent + 1]))
    /\ sent' = sent + 1
    /\ UNCHANGED <<ret, mset, chip, pool, rd, cnt, mtest, round, harmed>>

TestCheckRxNum(num) == Len(pool) - rd >= num

\* The loop that waits for the frames: it ends with TestCheckRxNum, or when
\* nothing can come any more.
MacWait ==
    /\ pc = "send" /\ sent = Len(Todo.send)
    /\ TestCheckRxNum(Todo.want) \/ wire = <<>>
    /\ \/ /\ TestCheckRxNum(Todo.want) \/ "wait" \notin Item[mtest].looks
          /\ MacStep("send", "check")
          /\ UNCHANGED <<ret, mset>>
       \/ /\ ~TestCheckRxNum(Todo.want) /\ "wait" \in Item[mtest].looks
          /\ MacEnd("send", -1)
    /\ UNCHANGED <<chip, wire, pool, rd, cnt, mtest, round, sent, harmed>>

\* Only the lengths are compared.
TestCheckRxPattern_length ==
    \A i \in DOMAIN Todo.check : pool[rd + i].length = Todo.check[i][2]

\* The calls of TestCheckRxPattern in a row
TestCheckRxPattern ==
    \A i \in DOMAIN Todo.check : pool[rd + i] = Pattern(Todo.check[i])

TestCheckCounts ==
    \A c \in DOMAIN Item[mtest].counts : cnt[c] = Item[mtest].counts[c]

\* The rest of a round: the next one, or the verdict.
MacCheck ==
    /\ pc = "check"
    /\ \/ /\ TestCheckRxPattern /\ round < Len(Item[mtest].rounds)
          /\ MacStep("check", "send")
          /\ rd' = rd + Len(Todo.check) /\ round' = round + 1 /\ sent' = 0
          /\ UNCHANGED <<ret, mset>>
       \/ /\ ~TestCheckRxPattern \/ round = Len(Item[mtest].rounds)
          /\ MacEnd("check", IF TestCheckRxPattern /\ TestCheckCounts THEN 0 ELSE -1)
          /\ UNCHANGED <<rd, round, sent>>
    /\ UNCHANGED <<chip, wire, pool, cnt, mtest, harmed>>

-----------------------------------------------------------------------------
MacInit ==
    /\ board \in {"good", "noplug", "nophy"}
    /\ mset = Default
    /\ chip = [on |-> FALSE, set |-> Default, type |-> "PERFECT"]
    /\ wire = <<>> /\ pool = <<>> /\ rd = 0 /\ cnt = NoCount
    /\ mtest = "none" /\ round = 1 /\ sent = 0 /\ harmed = FALSE

MacMain ==
    \/ MacOpen
    \/ MacClose
    \/ \E eth \in BOOLEAN : Paser_ParaSetting(eth)
    \/ \E key \in {"1", "2"} : MacMii(key)
    \/ \E key \in DOMAIN Item : MacBegin(key)
    \/ sMacInit
    \/ sMacFltrFrmXmit
    \/ MacTestPrepareTx
    \/ MacWait
    \/ MacCheck

MacTypeOK ==
    /\ board \in {"good", "noplug", "nophy"}
    /\ DOMAIN mset = DOMAIN Default /\ DOMAIN cnt = DOMAIN NoCount
    /\ chip.on \in BOOLEAN /\ DOMAIN chip.set = DOMAIN Default
    /\ rd \in 0 .. Len(pool) /\ Len(wire) + Len(pool) <= 13
    /\ mtest \in DOMAIN Item \union {"1", "2", "none"}
    /\ harmed \in BOOLEAN

-----------------------------------------------------------------------------
AtMenu == dev = "mac" /\ pc = "menu"

\* A board that does nothing wrong during a test passes it, whatever was
\* tested before, with whatever result, and wherever frames of that test
\* were when it ended: the frames, the counts and the number that each test
\* waits for agree with the filter that it sets.
GoodMacPasses ==
    AtMenu /\ board = "good" /\ ~harmed => ret # -1

\* The frames that a filter of this mode must let through, in order.
Due(t) ==
    LET set == t.set @@ Default
        arrived(f) == Arrived(set, [to |-> f[1], length |-> f[2], data |-> f[3]])
        sends == FlattenSeq([i \in DOMAIN t.rounds |-> t.rounds[i].send])
    IN  SelectSeq([i \in DOMAIN sends |-> arrived(sends[i])],
                  LAMBDA f : Accepts(set, FilterTableType(set.FilterMode), f))

\* A test that passes has seen every frame come back that its filter must
\* let through, in order, and none that it must not: the tests wait for a
\* number of frames and look at no more than these, so that a frame too
\* many shows only because a good one follows.  The data are right too,
\* unless the test looks at counters only.  The underflow test is the
\* exception, since its frame must not come.
MacPassIsReal ==
    AtMenu /\ ret = 0 /\ mtest \in DOMAIN Item \ {"P"} =>
        LET t   == Item[mtest]
            due == Due(t)
        IN  /\ Len(pool) = Len(due)
            /\ \A i \in DOMAIN due :
                  /\ pool[i].to = due[i].to /\ pool[i].length = due[i].length
                  /\ t.rounds[1].check # NoCheck => pool[i].data = due[i].data

\* No test leaves a setting behind for the next one, however it ended: the
\* settings of the menu are the defaults, but for the kind of frame, which
\* the user chooses and which the external loopback test sets too.
SettingsKept ==
    AtMenu => \A k \in DOMAIN Default \ {"Ethernet_Frame"} : mset[k] = Default[k]
=============================================================================
