---------------------------- MODULE I2c_proofs ----------------------------
(***************************************************************************)
(* Proofs about the I2C loopback test, for messages of any length, any     *)
(* number of retries and any kind of noise.                                *)
(***************************************************************************)
EXTENDS I2c, TLAPS

(***************************************************************************)
(* The inductive invariant                                                 *)
(***************************************************************************)
\* Is the message one that the master reads?
Reads == (test = "normal" /\ x = 2) \/ (test = "combined" /\ i = 2)

Loopback == test \in {"normal", "combined"}

Working ==
    pc \in {"addr", "addrack", "send", "sendack", "recv", "recvwait"}

\* The interrupts that are raised, copied or being worked on, and those that
\* the bus raises when it stops.
Pend == isr \cup todo \cup ({sec} \ {"none"})

Asks(l) ==
    CASE l = "slave" -> {"SLAVE_ADDR", "BROADCAST_ADDR", "SLAVE_ACK_PERIOD"}
      [] l \in {"deaf", "rslave"} -> {"SLAVE_RECV_ACK"}
      [] l = "master"  -> {"MASTER_RECV_ACK"}
      [] l = "rmaster" -> {"MASTER_ACK_PERIOD"}
      [] l = "lost"    -> {"ARBIT_LOSE"}
      [] OTHER         -> {}

\* There is one interrupt at a time, and it is the one the bus waits for.
HandlerInv ==
    /\ ~handling => todo = {} /\ sec = "none" /\ tmp = {}
    /\ todo # {} => sec = "none" /\ isr = todo /\ tmp = todo
    /\ sec # "none" => handling /\ isr = {} /\ todo = {}
    /\ Pend \subseteq Asks(line)
    /\ \A b, c \in Pend : b = c
    /\ "SLAVE_ADDR" \in Pend => mtxr \in {ADDR_W, ADDR_R}
    /\ "BROADCAST_ADDR" \in Pend => mtxr = CALL
    /\ "SLAVE_ACK_PERIOD" \in Pend => mtxr \notin Addresses

\* A flag, or the interrupt that will set it, is for the wait the master is in.
FlagInv ==
    /\ int_master_recv_ack => line = "master" /\ Pend = {}
    /\ int_master_recv_ack \/ "MASTER_RECV_ACK" \in Pend =>
         pc \in {"addrack", "sendack"}
    /\ int_master_ack_period => line = "rmaster" /\ Pend = {}
    /\ int_master_ack_period \/ "MASTER_ACK_PERIOD" \in Pend =>
         pc = "recvwait"

\* Where the bus is while the master is at pc.
PhaseInv ==
    /\ pc \in {"idle", "try"} =>
         line \in {"free", "stop", "rackbit", "rslave"}
    /\ pc = "addr" => line \in {"free", "master"}
    /\ pc \in {"addrack", "sendack"} =>
         line \in {"byte", "slave", "deaf", "ackbit", "nakbit", "master",
                   "lost"}
    /\ pc = "send" => line = "master"
    /\ pc = "recv" => line \in {"master", "rmaster"}
    /\ pc = "recvwait" => line \in {"rbyte", "rmaster", "rackbit", "rslave"}
    /\ pc = "out" =>
         line \in {"free", "stop", "rackbit", "rslave", "master", "rmaster"}
    /\ Working \/ line = "free" => ~stopping
    /\ line \in {"rackbit", "rslave"} => stopping \/ pc = "recvwait"

\* What is left of the stages of an address, and its first byte if it is the
\* only one.
StagesLeft ==
    IF ~Loopback \/ ~ten THEN {<<"start">>}
    ELSE IF Reads THEN {<<"start", "resume", "again">>, <<"resume", "again">>,
                        <<"again">>}
    ELSE {<<"start", "resume">>, <<"resume">>}

FirstAddress ==
    IF test = "call" THEN CALL ELSE IF test = "absent" THEN NOBODY
    ELSE IF Reads THEN ADDR_R ELSE ADDR_W

\* The message the master is in, and the byte it is at.
MessageInv ==
    /\ x = 1 \/ test = "normal"
    /\ Working => i = 1 \/ test = "combined"
    /\ pc \in {"addr", "addrack"} => stages \in StagesLeft
    /\ pc = "addrack" =>
         /\ stages = <<"start">> => mtxr = FirstAddress
         /\ stages \in {<<"start", "resume">>, <<"start", "resume", "again">>}
              => mtxr = ADDR_W
         /\ stages \in {<<"resume">>, <<"resume", "again">>} => mtxr = ADDR_2
         /\ stages = <<"again">> => mtxr = ADDR_R
    /\ pc \in {"send", "sendack"} =>
         ~Reads /\ test # "absent" /\ cnt \in 1 .. Length(test)
    /\ pc = "sendack" =>
         mtxr = IF test = "call" THEN CMD ELSE Length(test) - cnt
    /\ pc \in {"recv", "recvwait"} => Reads /\ cnt \in 1 .. PATTERN_BUF_SIZE
    /\ pc = "recv" /\ line = "master" => cnt = PATTERN_BUF_SIZE

\* What the slave knows of the address the master has sent, or is sending.
AddressInv ==
    /\ pc = "addrack" /\ line \in {"ackbit", "master"} =>
         /\ mtxr = ADDR_W => slave_buf_idx = 0 /\ (ten => addr_10_bits_str)
         /\ mtxr = ADDR_R => slave_buf_idx = 1
         /\ mtxr = CALL => gen_call_addr_str
         /\ mtxr = NOBODY => nak
    /\ pc = "addr" /\ stages \in {<<"resume">>, <<"resume", "again">>} =>
         slave_buf_idx = 0 /\ addr_10_bits_str
    /\ pc = "addrack" /\ mtxr = ADDR_2 =>
         /\ slave_buf_idx = 0
         /\ line \in {"byte", "slave"} => addr_10_bits_str
    /\ pc = "addrack" /\ mtxr = NOBODY =>
         line \in {"byte", "master", "lost"}
    /\ line \in {"deaf", "nakbit"} => nak /\ mtxr \notin Addresses

\* How far the slave's index is behind, or before, the master's count.
IndexInv ==
    /\ pc = "send" => IF test = "call" THEN gen_call_addr_str
                      ELSE slave_buf_idx <= PATTERN_BUF_SIZE - cnt
    /\ pc = "sendack" =>
         IF line \in {"byte", "slave"}
           THEN IF test = "call" THEN gen_call_addr_str
                ELSE slave_buf_idx <= PATTERN_BUF_SIZE - cnt
           ELSE Loopback => slave_buf_idx <= PATTERN_BUF_SIZE - cnt + 1
    /\ pc = "recv" /\ line = "master" => slave_buf_idx <= 1
    /\ pc = "recvwait" /\ line \in {"rbyte", "rmaster"} =>
         slave_buf_idx <= PATTERN_BUF_SIZE - cnt + 1
    /\ line \in {"rackbit", "rslave"}
       \/ (line = "rmaster" /\ pc # "recvwait") =>
         slave_buf_idx <= PATTERN_BUF_SIZE - cnt

\* After a call that did not give up, the slave does not expect a call's byte.
CallInv ==
    gen_call_addr_str /\ ~gaveup =>
      /\ test = "call" /\ pc # "idle" /\ (pc = "out" => ret = -1)
      /\ pc = "sendack" /\ line = "ackbit" => ackdis
      /\ pc = "sendack" /\ line = "master" => nak

\* What the slave has stored.
Stored(n) ==
    slave_buf_idx = n /\ \A k \in Index : k < n => slave_buf[k] = k

WriteInv ==
    Loopback /\ ~gaveup =>
      /\ pc = "send" => Stored(PATTERN_BUF_SIZE - cnt)
      /\ pc = "sendack" /\ line \in {"byte", "slave"} =>
           Stored(PATTERN_BUF_SIZE - cnt)
      /\ pc = "sendack" /\ line = "ackbit" =>
           ackdis \/ Stored(PATTERN_BUF_SIZE - cnt + 1)
      /\ pc = "sendack" /\ line = "master" =>
           nak \/ Stored(PATTERN_BUF_SIZE - cnt + 1)
      /\ test = "normal" /\ (x = 2 \/ (pc = "out" /\ ret = 1)) =>
           slave_buf = Pattern
      /\ test = "combined" /\ i = 2 /\ Working => slave_buf = Pattern

\* What the slave sends, and what the master has read.
Sending == sel /\ tran

ReadInv ==
    Loopback /\ ~gaveup /\ ~misheard =>
      /\ pc = "addrack" /\ mtxr = ADDR_R /\ line = "slave" => sel
      /\ (pc = "addrack" /\ mtxr = ADDR_R /\ line \in {"ackbit", "master"})
         \/ (pc = "recv" /\ line = "master") =>
           Sending /\ slave_buf_idx = 1 /\ stxr = slave_buf[0]
      /\ pc = "recv" /\ line = "rmaster" =>
           Sending /\ ~ackdis /\ slave_buf_idx = PATTERN_BUF_SIZE - cnt
      /\ pc = "recvwait" =>
           /\ Sending
           /\ line = "rackbit" =>
                ~ackdis /\ slave_buf_idx = PATTERN_BUF_SIZE - cnt
           /\ line = "rslave" =>
                ~nak /\ slave_buf_idx = PATTERN_BUF_SIZE - cnt
           /\ line = "rbyte" =>
                /\ slave_buf_idx = PATTERN_BUF_SIZE - cnt + 1
                /\ stxr = slave_buf[PATTERN_BUF_SIZE - cnt]
           /\ line = "rmaster" =>
                /\ slave_buf_idx = PATTERN_BUF_SIZE - cnt + 1
                /\ mrxr = slave_buf[PATTERN_BUF_SIZE - cnt]
      /\ pc \in {"recv", "recvwait"} =>
           \A k \in Index : k < PATTERN_BUF_SIZE - cnt => cmpr_buf[k] = k
      /\ pc = "out" /\ ret = 1 /\ (test = "combined" \/ x = 2) =>
           cmpr_buf = Pattern

IInv ==
    /\ TypeOK /\ HandlerInv /\ FlagInv /\ PhaseInv /\ MessageInv
    /\ AddressInv /\ IndexInv /\ CallInv /\ WriteInv /\ ReadInv
    /\ RetryIsExact

(***************************************************************************)
(* The messages of the tests                                               *)
(***************************************************************************)
LEMMA TransferFacts ==
    ASSUME NEW t \in Tests, NEW n \in 1 .. 2, n = 1 \/ t = "normal"
    PROVE  /\ Len(Transfers(t)) = IF t = "normal" THEN 2 ELSE 1
           /\ Len(Transfers(t)[n]) = IF t = "combined" THEN 2 ELSE 1
           /\ Transfers(t)[n][1] = IF n = 2 THEN "R" ELSE "W"
           /\ t = "combined" => Transfers(t)[n][2] = "R"
<1>1. CASE t = "normal"
  <2>1. Transfers(t) = <<<<"W">>, <<"R">>>>
    BY <1>1 DEF Transfers
  <2>2. /\ Transfers(t)[1] = <<"W">> /\ Transfers(t)[2] = <<"R">>
        /\ Len(Transfers(t)) = 2
    BY <2>1
  <2>3. /\ Len(<<"W">>) = 1 /\ <<"W">>[1] = "W"
        /\ Len(<<"R">>) = 1 /\ <<"R">>[1] = "R" /\ 1 # 2
        /\ "normal" # "combined"
    OBVIOUS
  <2>4. CASE n = 1
    BY <1>1, <2>2, <2>3, <2>4, Zenon
  <2>5. CASE n = 2
    BY <1>1, <2>2, <2>3, <2>5, Zenon
  <2>6. QED
    BY <2>4, <2>5
<1>2. CASE t = "combined"
  <2>1. Transfers(t) = <<<<"W", "R">>>>
    BY <1>2 DEF Transfers
  <2>2. QED
    BY <1>2, <2>1
<1>3. CASE t \in {"call", "absent"}
  <2>1. Transfers(t) = <<<<"W">>>>
    BY <1>3 DEF Transfers
  <2>2. n = 1
    BY <1>3
  <2>3. /\ Len(<<<<"W">>>>) = 1 /\ <<<<"W">>>>[1] = <<"W">>
        /\ Len(<<"W">>) = 1 /\ <<"W">>[1] = "W"
    OBVIOUS
  <2>4. QED
    BY <1>3, <2>1, <2>2, <2>3
<1>4. QED
    BY <1>1, <1>2, <1>3 DEF Tests

LEMMA MessageFacts ==
    ASSUME IInv
    PROVE  /\ Len(Transfers(test)) = IF test = "normal" THEN 2 ELSE 1
           /\ Len(Messages) = IF test = "combined" THEN 2 ELSE 1
           /\ Messages[1] = IF x = 2 THEN "R" ELSE "W"
           /\ test = "combined" => Messages[2] = "R"
           /\ Working => Messages[i] = IF Reads THEN "R" ELSE "W"
<1>1. /\ test \in Tests /\ x \in 1 .. 2 /\ i \in 1 .. 2
      /\ x = 1 \/ test = "normal"
      /\ (Working => i = 1 \/ test = "combined")
    BY DEF IInv, TypeOK, MessageInv
<1>2. QED
    BY <1>1, TransferFacts DEF Messages, Reads

LEMMA LengthFacts ==
    ASSUME NEW t \in Tests
    PROVE  /\ t \in {"normal", "combined"} => Length(t) = PATTERN_BUF_SIZE
           /\ t \in {"call", "absent"} => Length(t) = 1
           /\ Length(t) \in 1 .. PATTERN_BUF_SIZE
BY I2cAssumption DEF I2cAssumption, Length, Tests

\* One stage of an address after the other.
LEMMA StageFacts ==
    /\ Head(<<"start">>) = "start" /\ Head(<<"again">>) = "again"
    /\ Head(<<"resume">>) = "resume"
    /\ Head(<<"start", "resume">>) = "start"
    /\ Head(<<"resume", "again">>) = "resume"
    /\ Head(<<"start", "resume", "again">>) = "start"
    /\ Tail(<<"start">>) = <<>> /\ Tail(<<"again">>) = <<>>
    /\ Tail(<<"resume">>) = <<>>
    /\ Tail(<<"start", "resume">>) = <<"resume">>
    /\ Tail(<<"resume", "again">>) = <<"again">>
    /\ Tail(<<"start", "resume", "again">>) = <<"resume", "again">>
    /\ Len(<<"start">>) = 1 /\ Len(<<"again">>) = 1 /\ Len(<<"resume">>) = 1
    /\ Len(<<"start", "resume">>) = 2 /\ Len(<<"resume", "again">>) = 2
    /\ Len(<<"start", "resume", "again">>) = 3
<1>1. ASSUME NEW a, NEW b, NEW c
      PROVE  /\ Tail(<<a>>) = <<>> /\ Tail(<<a, b>>) = <<b>>
             /\ Tail(<<a, b, c>>) = <<b, c>>
  OBVIOUS
<1>2. QED
    BY <1>1

LEMMA BitsFacts ==
    Bits = {"ARBIT_LOSE", "BROADCAST_ADDR", "SLAVE_ADDR", "SLAVE_ACK_PERIOD",
            "SLAVE_RECV_ACK", "MASTER_ACK_PERIOD", "MASTER_RECV_ACK"}
BY DEF Bits, Order

\* Which stages are left says which address is sent.
LEMMA StagesLeftFacts ==
    ASSUME stages \in StagesLeft
    PROVE  /\ stages # <<>>
           /\ stages = <<"start">> => ~(Loopback /\ ten)
           /\ stages \in {<<"start", "resume">>, <<"resume">>} =>
                Loopback /\ ten /\ ~Reads
           /\ stages \in {<<"start", "resume", "again">>, <<"resume", "again">>,
                          <<"again">>} => Loopback /\ ten /\ Reads
BY StageFacts DEF StagesLeft

\* Which byte the master has sent.
LEMMA ByteFacts ==
    ASSUME IInv
    PROVE  /\ pc = "sendack" => mtxr \notin Addresses \cup {ADDR_2}
           /\ pc = "addrack" =>
                /\ mtxr \in Addresses \cup {ADDR_2}
                /\ mtxr = CALL <=> test = "call"
                /\ mtxr = NOBODY <=> test = "absent"
                /\ mtxr = ADDR_2 => Loopback /\ ten
                /\ mtxr = ADDR_W => Loopback
                /\ mtxr = ADDR_R => Loopback /\ Reads
<1>1. test \in Tests /\ (x = 1 \/ test = "normal") /\ i \in 1 .. 2
    BY DEF IInv, TypeOK, MessageInv
<1>2. ASSUME pc = "sendack" PROVE mtxr \notin Addresses \cup {ADDR_2}
    BY <1>1, <1>2, LengthFacts, I2cAssumption
       DEF I2cAssumption, IInv, MessageInv, Addresses, ADDR_W, ADDR_R, ADDR_2,
           CALL, NOBODY, CMD
<1>3. ASSUME pc = "addrack"
      PROVE  \/ /\ stages = <<"start">> /\ mtxr = FirstAddress
             \/ /\ Loopback /\ ten
                /\ mtxr \in {ADDR_W, ADDR_2} \/ (Reads /\ mtxr = ADDR_R)
    BY <1>3, StagesLeftFacts DEF IInv, MessageInv, StagesLeft
<1>4. ASSUME pc = "addrack"
      PROVE  /\ mtxr \in Addresses \cup {ADDR_2}
             /\ mtxr = CALL <=> test = "call"
             /\ mtxr = NOBODY <=> test = "absent"
             /\ mtxr = ADDR_2 => Loopback /\ ten
             /\ mtxr = ADDR_W => Loopback
             /\ mtxr = ADDR_R => Loopback /\ Reads
    BY <1>1, <1>3, <1>4 DEF FirstAddress, Loopback, Tests, Addresses, ADDR_W,
       ADDR_R, ADDR_2, CALL, NOBODY
<1>5. QED
    BY <1>2, <1>4

\* The pattern.
LEMMA PatternFacts ==
    /\ \A k \in Index : Pattern[k] = k
    /\ \A f \in [Index -> Byte] : (\A k \in Index : f[k] = k) => f = Pattern
BY DEF Pattern, Byte

\* socle_i2c_do_transfer looks whether the bus is free.
LEMMA BusCheckStep ==
    ASSUME IInv, BusCheck
    PROVE  IInv'
<1>a. /\ pc = "try" /\ ~handling /\ isr = {}
      /\ \/ /\ line # "free" /\ pc' = "out" /\ ret' = -1
            /\ UNCHANGED <<i, stages>>
         \/ /\ line = "free" /\ pc' = "addr" /\ i' = 1 /\ ret' = ret
            /\ stages' = Stages(test, Messages[1])
      /\ UNCHANGED <<test, ten, x, tries, cnt, int_master_ack_period,
                     int_master_recv_ack, cmpr_buf, slave_buf, slave_buf_idx,
                     addr_10_bits_str, gen_call_addr_str, handling, tmp, todo,
                     sec, isr, ackdis, nak, tran, stxr, mrxr, line, mtxr, sel,
                     stopping, gaveup, misheard>>
    BY DEF BusCheck, MainRuns, flags, slave, handler, ports, bus, hist
<1>b. /\ sec = "none" /\ todo = {} /\ Pend = {} /\ Pend' = {}
    BY <1>a DEF IInv, HandlerInv, Pend
<1>c. pc' = "addr" =>
        stages' = IF ~Loopback \/ ~ten THEN <<"start">>
                  ELSE IF x = 2 THEN <<"start", "resume", "again">>
                  ELSE <<"start", "resume">>
    BY <1>a, MessageFacts DEF IInv, TypeOK, Tests, Stages, Loopback
<1>1. TypeOK'
  <2>1. pc' \in {"idle", "try", "addr", "addrack", "send", "sendack", "recv",
              "recvwait", "out"}
    BY <1>a, <1>b, <1>c DEF IInv
  <2>2. ret' \in {-1, 1}
    BY <1>a, <1>b, <1>c DEF IInv, TypeOK
  <2>3. i' \in 1 .. 2
    BY <1>a, <1>b, <1>c DEF IInv, TypeOK
  <2>4. stages' \in {<<>>, <<"start">>, <<"resume">>, <<"again">>,
                  <<"start", "resume">>, <<"resume", "again">>,
                  <<"start", "resume", "again">>}
    BY <1>a, <1>b, <1>c DEF IInv, TypeOK
  <2>5. QED
    BY <1>a, <2>1, <2>2, <2>3, <2>4 DEF IInv, TypeOK
<1>2. HandlerInv'
    BY <1>a, <1>b DEF IInv, HandlerInv
<1>3. FlagInv'
    BY <1>a, <1>b, <1>c DEF IInv, FlagInv
<1>4. PhaseInv'
    BY <1>a DEF IInv, PhaseInv, Working
<1>5. MessageInv'
    BY <1>a, <1>c DEF IInv, MessageInv, StagesLeft, Reads, Loopback, Working
<1>6. AddressInv'
    BY <1>a, <1>c DEF IInv, AddressInv
<1>7. IndexInv'
    BY <1>a DEF IInv, IndexInv, Loopback
<1>8. CallInv'
    BY <1>a DEF IInv, CallInv
<1>9. WriteInv'
    BY <1>a DEF IInv, WriteInv, Loopback, Working
<1>10. ReadInv'
    BY <1>a DEF IInv, ReadInv, Loopback, Sending
<1>11. RetryIsExact'
    BY <1>a DEF IInv, RetryIsExact
<1>12. QED
    BY <1>1, <1>2, <1>3, <1>4, <1>5, <1>6, <1>7, <1>8, <1>9, <1>10, <1>11
       DEF IInv

\* An address byte is sent.
LEMMA AddressStep ==
    ASSUME IInv, Address
    PROVE  IInv'
<1>a. /\ pc = "addr" /\ pc' = "addrack" /\ ~handling /\ isr = {}
      /\ line' = "byte"
      /\ mtxr' = CASE Head(stages) = "start" -> FirstByte(test, Messages[i])
                   [] Head(stages) = "resume" -> ADDR_2
                   [] OTHER -> ADDR_R
      /\ UNCHANGED <<test, ten, x, tries, i, stages, cnt, ret,
                     int_master_ack_period, int_master_recv_ack, cmpr_buf,
                     slave_buf, slave_buf_idx, addr_10_bits_str,
                     gen_call_addr_str, handling, tmp, todo, sec, isr, ackdis,
                     nak, tran, stxr, mrxr, sel, stopping, gaveup, misheard>>
    BY DEF Address, MainRuns, start, resume, flags, slave, handler, ports, hist
<1>b. /\ sec = "none" /\ todo = {} /\ Pend = {} /\ Pend' = {}
    BY <1>a DEF IInv, HandlerInv, Pend
<1>m. /\ test \in Tests /\ x \in 1 .. 2 /\ i \in 1 .. 2
      /\ x = 1 \/ test = "normal"
      /\ Working => i = 1 \/ test = "combined"
    BY DEF IInv, TypeOK, MessageInv
<1>n. /\ Messages[i] = IF Reads THEN "R" ELSE "W"
      /\ stages \in StagesLeft
    BY <1>a, MessageFacts DEF IInv, MessageInv, Working
<1>s. FirstByte(test, Messages[i]) =
        IF test = "call" THEN CALL ELSE IF test = "absent" THEN NOBODY
        ELSE IF Reads /\ ~ten THEN ADDR_R ELSE ADDR_W
    BY <1>n DEF FirstByte
<1>t. /\ stages = <<"start">> => ~Loopback \/ ~ten
      /\ stages \in {<<"start", "resume">>, <<"start", "resume", "again">>}
           => ten /\ Loopback
    BY <1>n, StageFacts DEF StagesLeft
<1>c. /\ stages = <<"start">> => mtxr' = FirstAddress
      /\ stages \in {<<"start", "resume">>, <<"start", "resume", "again">>}
           => mtxr' = ADDR_W
      /\ stages \in {<<"resume">>, <<"resume", "again">>} => mtxr' = ADDR_2
      /\ stages = <<"again">> => mtxr' = ADDR_R
    BY <1>a, <1>m, <1>s, <1>t DEF Tests, Loopback, FirstAddress
<1>1. TypeOK'
  <2>1. pc' \in {"idle", "try", "addr", "addrack", "send", "sendack", "recv",
              "recvwait", "out"}
    BY <1>a, <1>b, <1>m, <1>c DEF IInv
  <2>2. line' \in {"free", "byte", "slave", "ackbit", "deaf", "nakbit",
                "master", "rbyte", "rmaster", "rackbit", "rslave",
                "stop", "lost"}
    BY <1>a, <1>b, <1>m, <1>c DEF IInv
  <2>3. mtxr' \in {ADDR_W, ADDR_R, ADDR_2, CALL, NOBODY, CMD} \cup Index
    BY <1>a, <1>c, <1>n DEF StagesLeft, FirstAddress
  <2>4. QED
    BY <1>a, <2>1, <2>2, <2>3 DEF IInv, TypeOK
<1>2. HandlerInv'
    BY <1>a, <1>b DEF IInv, HandlerInv
<1>3. FlagInv'
    BY <1>a, <1>b DEF IInv, FlagInv
<1>4. PhaseInv'
    BY <1>a DEF IInv, PhaseInv, Working
<1>5. MessageInv'
    BY <1>a, <1>c
       DEF IInv, MessageInv, StagesLeft, FirstAddress, Reads, Loopback, Working
<1>6. AddressInv'
    BY <1>a, <1>c
       DEF IInv, AddressInv, MessageInv, StagesLeft, FirstAddress, ADDR_W,
           ADDR_R, ADDR_2, CALL, NOBODY
<1>7. IndexInv'
    BY <1>a DEF IInv, IndexInv, Loopback
<1>8. CallInv'
    BY <1>a DEF IInv, CallInv
<1>9. WriteInv'
    BY <1>a DEF IInv, WriteInv, Loopback, Working
<1>10. ReadInv'
    BY <1>a DEF IInv, ReadInv, Loopback, Sending
<1>11. RetryIsExact'
    BY <1>a DEF IInv, RetryIsExact
<1>12. QED
    BY <1>1, <1>2, <1>3, <1>4, <1>5, <1>6, <1>7, <1>8, <1>9, <1>10, <1>11
       DEF IInv

\* The answer to an address byte.
LEMMA AddressAckStep ==
    ASSUME IInv, AddressAck
    PROVE  IInv'
<1>0. /\ PATTERN_BUF_SIZE \in Nat \ {0} /\ MaxTries \in Nat \ {0}
      /\ Noise \subseteq {"tomaster", "toslave", "arbitration"}
    BY I2cAssumption DEF I2cAssumption
<1>a. /\ pc = "addrack" /\ ~handling /\ isr = {}
      /\ int_master_recv_ack /\ int_master_recv_ack' = FALSE
      /\ stages' = Tail(stages)
      /\ \/ nak /\ pc' = "out" /\ ret' = -1 /\ cnt' = cnt
         \/ ~nak /\ Len(stages) > 1 /\ pc' = "addr" /\ ret' = ret /\ cnt' = cnt
         \/ /\ ~nak /\ ~(Len(stages) > 1) /\ ret' = ret /\ cnt' = Length(test)
            /\ pc' = IF Messages[i] = "R" THEN "recv" ELSE "send"
      /\ UNCHANGED <<test, ten, x, tries, i, int_master_ack_period, cmpr_buf,
                     slave_buf, slave_buf_idx, addr_10_bits_str,
                     gen_call_addr_str, handling, tmp, todo, sec, isr, ackdis,
                     nak, tran, stxr, mrxr, line, mtxr, sel, stopping, gaveup,
                     misheard>>
    BY DEF AddressAck, MainRuns, slave, handler, ports, bus, hist
<1>b. /\ sec = "none" /\ todo = {} /\ Pend = {} /\ Pend' = {}
    BY <1>a DEF IInv, HandlerInv, Pend
<1>l. line = "master"
    BY <1>a DEF IInv, FlagInv
<1>n. /\ Messages[i] = IF Reads THEN "R" ELSE "W"
      /\ stages \in StagesLeft
    BY <1>a, MessageFacts DEF IInv, MessageInv, Working
<1>h. /\ stages \in {<<"start">>, <<"resume">>, <<"again">>} =>
           Tail(stages) = <<>> /\ ~(Len(stages) > 1)
      /\ stages = <<"start", "resume">> =>
           Tail(stages) = <<"resume">> /\ Len(stages) > 1
      /\ stages = <<"resume", "again">> =>
           Tail(stages) = <<"again">> /\ Len(stages) > 1
      /\ stages = <<"start", "resume", "again">> =>
           Tail(stages) = <<"resume", "again">> /\ Len(stages) > 1
    BY StageFacts, 3 > 1, 2 > 1, ~(1 > 1), Zenon
<1>g. stages \in {<<"start">>, <<"resume">>, <<"again">>, <<"start", "resume">>,
                 <<"resume", "again">>, <<"start", "resume", "again">>}
    BY <1>n DEF StagesLeft
<1>c. /\ pc' = "addr" =>
           \/ stages = <<"start", "resume">> /\ stages' = <<"resume">>
           \/ /\ stages = <<"start", "resume", "again">>
              /\ stages' = <<"resume", "again">>
           \/ stages = <<"resume", "again">> /\ stages' = <<"again">>
      /\ pc' \in {"send", "recv"} =>
           /\ stages \in {<<"start">>, <<"resume">>, <<"again">>}
           /\ stages' = <<>> /\ pc' = IF Reads THEN "recv" ELSE "send"
    BY <1>a, <1>n, <1>g, <1>h, Zenon
<1>f. pc' = "addr" => stages' \in StagesLeft'
  <2>1. pc' = "addr" => Loopback /\ ten
    BY <1>n, <1>c, StagesLeftFacts
  <2>2. pc' = "addr" =>
           IF Reads THEN stages' \in {<<"resume", "again">>, <<"again">>}
                    ELSE stages' = <<"resume">>
    BY <1>n, <1>c, StagesLeftFacts
  <2>3. ten' = ten /\ (Loopback' <=> Loopback) /\ (Reads' <=> Reads)
    BY <1>a DEF Loopback, Reads
  <2>4. QED
    BY <2>1, <2>2, <2>3 DEF StagesLeft
<1>k. /\ pc' = "addr" =>
           stages' \in {<<"resume">>, <<"resume", "again">>, <<"again">>}
      /\ pc' = "addr" /\ stages' \in {<<"resume">>, <<"resume", "again">>} =>
           mtxr = ADDR_W /\ ten /\ Loopback
    BY <1>a, <1>c, StagesLeftFacts DEF IInv, MessageInv
<1>v. /\ ~nak => test # "absent"
      /\ pc' = "recv" => mtxr = ADDR_R /\ Reads /\ Loopback
    BY <1>a, <1>l, <1>c, ByteFacts, StagesLeftFacts
       DEF IInv, AddressInv, MessageInv, Reads, FirstAddress
<1>1. TypeOK'
  <2>1. int_master_recv_ack' \in BOOLEAN
    BY <1>a DEF IInv
  <2>2. stages' \in {<<>>, <<"start">>, <<"resume">>, <<"again">>,
                  <<"start", "resume">>, <<"resume", "again">>,
                  <<"start", "resume", "again">>}
    BY <1>a, <1>n, <1>h DEF StagesLeft
  <2>3. pc' \in {"idle", "try", "addr", "addrack", "send", "sendack", "recv",
              "recvwait", "out"}
    BY <1>a DEF IInv
  <2>4. ret' \in {-1, 1}
    BY <1>a DEF IInv, TypeOK
  <2>5. cnt' \in 0 .. PATTERN_BUF_SIZE
    BY <1>a, <1>0, LengthFacts DEF IInv, TypeOK
  <2>6. QED
    BY <1>a, <2>1, <2>2, <2>3, <2>4, <2>5 DEF IInv, TypeOK
<1>2. HandlerInv'
    BY <1>a, <1>b DEF IInv, HandlerInv
<1>3. FlagInv'
    BY <1>a, <1>b DEF IInv, FlagInv
<1>4. PhaseInv'
    BY <1>a, <1>l DEF IInv, PhaseInv, Working
<1>5. MessageInv'
    BY <1>a, <1>c, <1>f, <1>v, LengthFacts
       DEF IInv, TypeOK, MessageInv, Reads, Working
<1>6. AddressInv'
    BY <1>a, <1>l, <1>k DEF IInv, AddressInv
<1>7. IndexInv'
    BY <1>0, <1>a, <1>l, <1>c, <1>v
       DEF IInv, IndexInv, Length, AddressInv, MessageInv, StagesLeft,
           FirstAddress, Loopback
<1>8. CallInv'
    BY <1>a DEF IInv, CallInv
<1>9. WriteInv'
    BY <1>0, <1>a, <1>l, <1>c
       DEF IInv, WriteInv, Stored, AddressInv, Length, MessageInv, StagesLeft,
           FirstAddress, Loopback, Working, Index
<1>10. ReadInv'
    BY <1>a, <1>l, <1>v, LengthFacts
       DEF IInv, TypeOK, ReadInv, Sending, Loopback, Index
<1>11. RetryIsExact'
    BY <1>a DEF IInv, RetryIsExact
<1>12. QED
    BY <1>1, <1>2, <1>3, <1>4, <1>5, <1>6, <1>7, <1>8, <1>9, <1>10, <1>11
       DEF IInv

\* A byte is sent.
LEMMA SendStep ==
    ASSUME IInv, Send
    PROVE  IInv'
<1>0. /\ PATTERN_BUF_SIZE \in Nat \ {0} /\ MaxTries \in Nat \ {0}
      /\ Noise \subseteq {"tomaster", "toslave", "arbitration"}
    BY I2cAssumption DEF I2cAssumption
<1>a. /\ pc = "send" /\ pc' = "sendack" /\ ~handling /\ isr = {}
      /\ line' = "byte"
      /\ mtxr' = IF test = "call" THEN CMD ELSE Pattern[Length(test) - cnt]
      /\ UNCHANGED <<test, ten, x, tries, i, stages, cnt, ret,
                     int_master_ack_period, int_master_recv_ack, cmpr_buf,
                     slave_buf, slave_buf_idx, addr_10_bits_str,
                     gen_call_addr_str, handling, tmp, todo, sec, isr, ackdis,
                     nak, tran, stxr, mrxr, sel, stopping, gaveup, misheard>>
    BY DEF Send, MainRuns, resume, flags, slave, handler, ports, hist
<1>b. /\ sec = "none" /\ todo = {} /\ Pend = {} /\ Pend' = {}
    BY <1>a DEF IInv, HandlerInv, Pend
<1>m. test \in Tests /\ test # "absent" /\ cnt \in 1 .. Length(test)
    BY <1>a DEF IInv, TypeOK, MessageInv
<1>c. /\ mtxr' = IF test = "call" THEN CMD ELSE Length(test) - cnt
      /\ Length(test) - cnt \in Index
    BY <1>0, <1>a, <1>m, LengthFacts DEF Index, Pattern
<1>1. TypeOK'
  <2>1. pc' \in {"idle", "try", "addr", "addrack", "send", "sendack", "recv",
              "recvwait", "out"}
    BY <1>a, <1>b, <1>m, <1>c DEF IInv
  <2>2. line' \in {"free", "byte", "slave", "ackbit", "deaf", "nakbit",
                "master", "rbyte", "rmaster", "rackbit", "rslave",
                "stop", "lost"}
    BY <1>a, <1>b, <1>m, <1>c DEF IInv
  <2>3. mtxr' \in {ADDR_W, ADDR_R, ADDR_2, CALL, NOBODY, CMD} \cup Index
    BY <1>a, <1>0, <1>c DEF Index
  <2>4. QED
    BY <1>a, <2>1, <2>2, <2>3 DEF IInv, TypeOK
<1>2. HandlerInv'
    BY <1>a, <1>b DEF IInv, HandlerInv
<1>3. FlagInv'
    BY <1>a, <1>b DEF IInv, FlagInv
<1>4. PhaseInv'
    BY <1>a DEF IInv, PhaseInv, Working
<1>5. MessageInv'
    BY <1>a, <1>c DEF IInv, MessageInv, Reads, Working
<1>6. AddressInv'
    BY <1>a DEF IInv, AddressInv
<1>7. IndexInv'
    BY <1>a DEF IInv, IndexInv, Loopback
<1>8. CallInv'
    BY <1>a DEF IInv, CallInv
<1>9. WriteInv'
    BY <1>a DEF IInv, WriteInv, Loopback, Stored, Working
<1>10. ReadInv'
    BY <1>a DEF IInv, ReadInv, Loopback, Sending
<1>11. RetryIsExact'
    BY <1>a DEF IInv, RetryIsExact
<1>12. QED
    BY <1>1, <1>2, <1>3, <1>4, <1>5, <1>6, <1>7, <1>8, <1>9, <1>10, <1>11
       DEF IInv

\* The answer to a byte.
LEMMA SendAckStep ==
    ASSUME IInv, SendAck
    PROVE  IInv'
<1>0. /\ PATTERN_BUF_SIZE \in Nat \ {0} /\ MaxTries \in Nat \ {0}
      /\ Noise \subseteq {"tomaster", "toslave", "arbitration"}
    BY I2cAssumption DEF I2cAssumption
<1>a. /\ pc = "sendack" /\ ~handling /\ isr = {}
      /\ int_master_recv_ack /\ int_master_recv_ack' = FALSE
      /\ \/ nak /\ pc' = "out" /\ ret' = -1 /\ UNCHANGED <<cnt, i, stages>>
         \/ ~nak /\ Onward("send")
      /\ UNCHANGED <<test, ten, x, tries, int_master_ack_period, cmpr_buf,
                     slave_buf, slave_buf_idx, addr_10_bits_str,
                     gen_call_addr_str, handling, tmp, todo, sec, isr, ackdis,
                     nak, tran, stxr, mrxr, line, mtxr, sel, stopping, gaveup,
                     misheard>>
    BY DEF SendAck, MainRuns, slave, handler, ports, bus, hist
<1>b. /\ sec = "none" /\ todo = {} /\ Pend = {} /\ Pend' = {}
    BY <1>a DEF IInv, HandlerInv, Pend
<1>l. line = "master"
    BY <1>a DEF IInv, FlagInv
<1>m. /\ test \in Tests /\ x \in 1 .. 2 /\ i \in 1 .. 2
      /\ x = 1 \/ test = "normal"
      /\ Working => i = 1 \/ test = "combined"
    BY DEF IInv, TypeOK, MessageInv
<1>n. /\ Len(Messages) = IF test = "combined" THEN 2 ELSE 1
      /\ test = "combined" => Messages[2] = "R" /\ Messages[1] = "W"
    BY MessageFacts DEF IInv, MessageInv
<1>h. /\ cnt \in Nat \ {0} /\ (test = "combined" \/ i = 1)
      /\ test \in {"call", "absent"} => ~Reads
    BY <1>a DEF IInv, MessageInv, Working
<1>s. /\ i < Len(Messages) <=> test = "combined" /\ i = 1
      /\ i < Len(Messages) => i + 1 = 2 /\ Messages[i + 1] = "R"
    BY <1>m, <1>n, <1>h
<1>t. test = "combined" =>
        Stages(test, "R") = IF ten THEN <<"start", "resume", "again">>
                            ELSE <<"start">>
    BY DEF Stages
<1>c. \/ /\ nak /\ pc' = "out" /\ ret' = -1 /\ UNCHANGED <<cnt, i, stages>>
      \/ /\ ~nak
         /\ cnt' = cnt - 1 /\ cnt \in Nat \ {0}
         /\ \/ cnt > 1 /\ pc' = "send" /\ UNCHANGED <<i, stages, ret>>
            \/ /\ cnt = 1 /\ test = "combined" /\ i = 1 /\ i' = 2
               /\ pc' = "addr"
               /\ stages' = IF ten THEN <<"start", "resume", "again">>
                            ELSE <<"start">>
               /\ ret' = ret
            \/ /\ cnt = 1 /\ (test = "combined" => i = 2)
               /\ pc' = "out" /\ ret' = 1
               /\ UNCHANGED <<i, stages>>
    BY <1>a, <1>h, <1>m, <1>s, <1>t DEF Onward
<1>w. Loopback /\ ~gaveup /\ ~nak =>
        /\ Stored(PATTERN_BUF_SIZE - cnt + 1)
        /\ cnt = 1 => slave_buf = Pattern
    BY <1>0, <1>a, <1>l, PatternFacts DEF IInv, TypeOK, WriteInv, Stored, Index
<1>1. TypeOK'
  <2>1. int_master_recv_ack' \in BOOLEAN
    BY <1>a DEF IInv
  <2>2. cnt' \in 0 .. PATTERN_BUF_SIZE
    BY <1>0, <1>c DEF IInv, TypeOK
  <2>3. pc' \in {"idle", "try", "addr", "addrack", "send", "sendack", "recv",
              "recvwait", "out"}
    BY <1>c, <1>w DEF IInv
  <2>4. i' \in 1 .. 2
    BY <1>m, <1>c, <1>w DEF IInv
  <2>5. stages' \in {<<>>, <<"start">>, <<"resume">>, <<"again">>,
                  <<"start", "resume">>, <<"resume", "again">>,
                  <<"start", "resume", "again">>}
    BY <1>c DEF IInv, TypeOK
  <2>6. ret' \in {-1, 1}
    BY <1>c DEF IInv, TypeOK
  <2>7. QED
    BY <1>a, <2>1, <2>2, <2>3, <2>4, <2>5, <2>6 DEF IInv, TypeOK
<1>2. HandlerInv'
    BY <1>a, <1>b DEF IInv, HandlerInv
<1>3. FlagInv'
    BY <1>a, <1>b DEF IInv, FlagInv
<1>4. PhaseInv'
    BY <1>a, <1>l, <1>c DEF IInv, PhaseInv, Working
<1>5. MessageInv'
    BY <1>0, <1>a, <1>c
       DEF IInv, Length, MessageInv, StagesLeft, Reads, Loopback, Working
<1>6. AddressInv'
    BY <1>a, <1>c DEF IInv, AddressInv
<1>7. IndexInv'
    BY <1>0, <1>a, <1>l, <1>m, <1>c
       DEF IInv, IndexInv, Length, Tests, MessageInv, Loopback
<1>8. CallInv'
    BY <1>a, <1>l DEF IInv, CallInv
<1>9. WriteInv'
    BY <1>0, <1>a, <1>c, <1>w DEF IInv, WriteInv, Stored, Loopback, Working
<1>10. ReadInv'
    BY <1>a, <1>c DEF IInv, ReadInv, MessageInv, Reads
<1>11. RetryIsExact'
    BY <1>c DEF IInv, RetryIsExact
<1>12. QED
    BY <1>1, <1>2, <1>3, <1>4, <1>5, <1>6, <1>7, <1>8, <1>9, <1>10, <1>11
       DEF IInv

\* The next byte is asked for.
LEMMA RecvStep ==
    ASSUME IInv, Recv
    PROVE  IInv'
<1>0. /\ PATTERN_BUF_SIZE \in Nat \ {0} /\ MaxTries \in Nat \ {0}
      /\ Noise \subseteq {"tomaster", "toslave", "arbitration"}
    BY I2cAssumption DEF I2cAssumption
<1>a. /\ pc = "recv" /\ pc' = "recvwait" /\ ~handling /\ isr = {}
      /\ line' = IF line = "rmaster" THEN "rackbit" ELSE "rbyte"
      /\ UNCHANGED <<test, ten, x, tries, i, stages, cnt, ret,
                     int_master_ack_period, int_master_recv_ack, cmpr_buf,
                     slave_buf, slave_buf_idx, addr_10_bits_str,
                     gen_call_addr_str, handling, tmp, todo, sec, isr, ackdis,
                     nak, tran, stxr, mrxr, mtxr, sel, stopping, gaveup,
                     misheard>>
    BY DEF Recv, MainRuns, resume, flags, slave, handler, ports, hist
<1>b. /\ sec = "none" /\ todo = {} /\ Pend = {} /\ Pend' = {}
    BY <1>a DEF IInv, HandlerInv, Pend
<1>1. TypeOK'
  <2>1. pc' \in {"idle", "try", "addr", "addrack", "send", "sendack", "recv",
              "recvwait", "out"}
    BY <1>0, <1>a, <1>b DEF IInv, TypeOK
  <2>2. line' \in {"free", "byte", "slave", "ackbit", "deaf", "nakbit",
                "master", "rbyte", "rmaster", "rackbit", "rslave",
                "stop", "lost"}
    BY <1>0, <1>a, <1>b DEF IInv, TypeOK
  <2>3. QED
    BY <1>a, <2>1, <2>2 DEF IInv, TypeOK
<1>2. HandlerInv'
    BY <1>0, <1>a, <1>b DEF IInv, HandlerInv
<1>3. FlagInv'
    BY <1>a, <1>b DEF IInv, FlagInv
<1>4. PhaseInv'
    BY <1>a DEF IInv, PhaseInv, Working
<1>5. MessageInv'
    BY <1>a DEF IInv, MessageInv, Reads, Working
<1>6. AddressInv'
    BY <1>a DEF IInv, AddressInv
<1>7. IndexInv'
    BY <1>a DEF IInv, IndexInv, PhaseInv, MessageInv
<1>8. CallInv'
    BY <1>a DEF IInv, CallInv
<1>9. WriteInv'
    BY <1>a DEF IInv, WriteInv, Loopback, Working
<1>10. ReadInv'
    BY <1>a DEF IInv, ReadInv, Sending, PhaseInv, MessageInv, Loopback
<1>11. RetryIsExact'
    BY <1>a DEF IInv, RetryIsExact
<1>12. QED
    BY <1>1, <1>2, <1>3, <1>4, <1>5, <1>6, <1>7, <1>8, <1>9, <1>10, <1>11
       DEF IInv

\* A byte has come.
LEMMA ReadByteStep ==
    ASSUME IInv, ReadByte
    PROVE  IInv'
<1>0. /\ PATTERN_BUF_SIZE \in Nat \ {0} /\ MaxTries \in Nat \ {0}
      /\ Noise \subseteq {"tomaster", "toslave", "arbitration"}
    BY I2cAssumption DEF I2cAssumption
<1>a. /\ pc = "recvwait" /\ ~handling /\ isr = {}
      /\ int_master_ack_period /\ int_master_ack_period' = FALSE
      /\ cmpr_buf' = [cmpr_buf EXCEPT ![Length(test) - cnt] = mrxr]
      /\ ackdis' = (cnt = 1) /\ Onward("recv")
      /\ UNCHANGED <<test, ten, x, tries, int_master_recv_ack, slave_buf,
                     slave_buf_idx, addr_10_bits_str, gen_call_addr_str,
                     handling, tmp, todo, sec, isr, nak, tran, stxr, mrxr,
                     line, mtxr, sel, stopping, gaveup, misheard>>
    BY DEF ReadByte, MainRuns, slave, handler, bus, hist
<1>b. /\ sec = "none" /\ todo = {} /\ Pend = {} /\ Pend' = {}
    BY <1>a DEF IInv, HandlerInv, Pend
<1>l. line = "rmaster"
    BY <1>a DEF IInv, FlagInv
<1>m. /\ test \in Tests /\ x \in 1 .. 2 /\ i \in 1 .. 2
      /\ x = 1 \/ test = "normal"
      /\ Working => i = 1 \/ test = "combined"
    BY DEF IInv, TypeOK, MessageInv
<1>n. /\ Len(Messages) = IF test = "combined" THEN 2 ELSE 1
      /\ test = "combined" => Messages[2] = "R" /\ Messages[1] = "W"
    BY MessageFacts DEF IInv, MessageInv
<1>h. /\ cnt \in Nat \ {0} /\ (test = "combined" \/ i = 1)
      /\ test \in {"call", "absent"} => ~Reads
    BY <1>a DEF IInv, MessageInv, Working, Reads
<1>s. /\ i < Len(Messages) <=> test = "combined" /\ i = 1
      /\ i < Len(Messages) => i + 1 = 2 /\ Messages[i + 1] = "R"
    BY <1>m, <1>n, <1>h
<1>t. test = "combined" =>
        Stages(test, "R") = IF ten THEN <<"start", "resume", "again">>
                            ELSE <<"start">>
    BY DEF Stages
<1>c. /\ cnt' = cnt - 1 /\ cnt \in Nat \ {0}
      /\ \/ cnt > 1 /\ pc' = "recv" /\ UNCHANGED <<i, stages, ret>>
         \/ /\ cnt = 1 /\ test = "combined" /\ i = 1 /\ i' = 2 /\ pc' = "addr"
            /\ stages' = IF ten THEN <<"start", "resume", "again">> ELSE <<"start">>
            /\ ret' = ret
         \/ /\ cnt = 1 /\ (test = "combined" => i = 2) /\ pc' = "out" /\ ret' = 1
            /\ UNCHANGED <<i, stages>>
    BY <1>a, <1>h, <1>m, <1>s, <1>t DEF Onward
<1>e. Length(test) = PATTERN_BUF_SIZE /\ Reads /\ Loopback
      /\ cnt \in 1 .. PATTERN_BUF_SIZE /\ PATTERN_BUF_SIZE - cnt \in Index
    BY <1>a, <1>m, LengthFacts DEF IInv, MessageInv, Index, Reads, Loopback
<1>w. ~gaveup /\ ~misheard =>
        /\ slave_buf_idx = PATTERN_BUF_SIZE - cnt + 1 /\ Sending
        /\ mrxr = PATTERN_BUF_SIZE - cnt
        /\ \A k \in Index : k < PATTERN_BUF_SIZE - cnt => cmpr_buf[k] = k
    BY <1>a, <1>l, <1>e, PatternFacts
       DEF IInv, ReadInv, WriteInv, Reads, Working
<1>v. ~gaveup /\ ~misheard =>
        \A k \in Index : k < PATTERN_BUF_SIZE - cnt + 1 => cmpr_buf'[k] = k
    BY <1>a, <1>e, <1>w DEF IInv, TypeOK, Index
<1>k. ~gaveup /\ ~misheard /\ cnt = 1 => cmpr_buf' = Pattern
    BY <1>0, <1>a, <1>e, <1>v, PatternFacts DEF IInv, TypeOK, Index
<1>u. cnt > 1 => ~ackdis'
  <2>1. cnt > 1 => cnt # 1
    BY <1>c
  <2>2. QED
    BY <1>a, <2>1, Zenon
<1>1. TypeOK'
  <2>1. int_master_ack_period' \in BOOLEAN
    BY <1>a DEF IInv
  <2>2. cmpr_buf' \in [Index -> Byte]
    BY <1>a DEF IInv, TypeOK
  <2>3. ackdis' \in BOOLEAN
    BY <1>a DEF IInv
  <2>4. cnt' \in 0 .. PATTERN_BUF_SIZE
    BY <1>0, <1>c, <1>e DEF IInv
  <2>5. pc' \in {"idle", "try", "addr", "addrack", "send", "sendack", "recv",
              "recvwait", "out"}
    BY <1>c DEF IInv
  <2>6. i' \in 1 .. 2
    BY <1>m, <1>c DEF IInv
  <2>7. stages' \in {<<>>, <<"start">>, <<"resume">>, <<"again">>,
                  <<"start", "resume">>, <<"resume", "again">>,
                  <<"start", "resume", "again">>}
    BY <1>c DEF IInv, TypeOK
  <2>8. ret' \in {-1, 1}
    BY <1>c DEF IInv, TypeOK
  <2>9. QED
    BY <1>a, <2>1, <2>2, <2>3, <2>4, <2>5, <2>6, <2>7, <2>8 DEF IInv, TypeOK
<1>2. HandlerInv'
    BY <1>a, <1>b DEF IInv, HandlerInv
<1>3. FlagInv'
    BY <1>a, <1>b DEF IInv, FlagInv
<1>4. PhaseInv'
    BY <1>a, <1>l, <1>c DEF IInv, PhaseInv, Working, MessageInv, Reads
<1>5. MessageInv'
    BY <1>0, <1>a, <1>l, <1>c DEF IInv, MessageInv, Reads, Working
<1>6. AddressInv'
    BY <1>a, <1>c DEF IInv, AddressInv
<1>7. IndexInv'
    BY <1>0, <1>a, <1>l, <1>c DEF IInv, IndexInv
<1>8. CallInv'
    BY <1>a, <1>e DEF IInv, CallInv, Loopback
<1>9. WriteInv'
    BY <1>a, <1>c, <1>e DEF IInv, WriteInv, Reads, Working
<1>10. ReadInv'
    BY <1>0, <1>a, <1>l, <1>c, <1>w, <1>v, <1>k, <1>u
       DEF IInv, ReadInv, Sending
<1>11. RetryIsExact'
    BY <1>c DEF IInv, RetryIsExact
<1>12. QED
    BY <1>1, <1>2, <1>3, <1>4, <1>5, <1>6, <1>7, <1>8, <1>9, <1>10, <1>11
       DEF IInv

\* The end of an attempt.
LEMMA OutStep ==
    ASSUME IInv, Out
    PROVE  IInv'
<1>0. /\ PATTERN_BUF_SIZE \in Nat \ {0} /\ MaxTries \in Nat \ {0}
      /\ Noise \subseteq {"tomaster", "toslave", "arbitration"}
    BY I2cAssumption DEF I2cAssumption
<1>a. /\ pc = "out" /\ ~handling /\ isr = {} /\ stop
      /\ \/ /\ ret = 1 /\ tries' = 0 /\ gaveup' = gaveup
            /\ \/ x < Len(Transfers(test)) /\ x' = x + 1 /\ pc' = "try"
               \/ ~(x < Len(Transfers(test))) /\ pc' = "idle" /\ x' = x
         \/ /\ ret # 1 /\ x' = x
            /\ \/ /\ tries + 1 < MaxTries /\ tries' = tries + 1 /\ pc' = "try"
                  /\ gaveup' = gaveup
               \/ pc' = "idle" /\ gaveup' = TRUE /\ tries' = tries
      /\ UNCHANGED <<test, ten, i, stages, cnt, ret, int_master_ack_period,
                     int_master_recv_ack, cmpr_buf, slave_buf, slave_buf_idx,
                     addr_10_bits_str, gen_call_addr_str, handling, tmp, todo,
                     sec, isr, ackdis, nak, tran, stxr, mrxr, mtxr, sel,
                     misheard>>
    BY DEF Out, MainRuns, flags, slave, handler, ports
<1>b. /\ sec = "none" /\ todo = {} /\ Pend = {} /\ Pend' = {}
    BY <1>a DEF IInv, HandlerInv, Pend
<1>m. /\ test \in Tests /\ x \in 1 .. 2 /\ i \in 1 .. 2
      /\ x = 1 \/ test = "normal"
      /\ Working => i = 1 \/ test = "combined"
    BY DEF IInv, TypeOK, MessageInv
<1>n. Len(Transfers(test)) = IF test = "normal" THEN 2 ELSE 1
    BY MessageFacts
<1>c. x < Len(Transfers(test)) <=> x = 1 /\ test = "normal"
    BY <1>m, <1>n
<1>d. /\ line' = IF line = "master" THEN "stop"
                 ELSE IF line = "rmaster" THEN "rackbit" ELSE line
      /\ stopping' = (line # "free")
    BY <1>a DEF stop
<1>1. TypeOK'
  <2>1. line' \in {"free", "byte", "slave", "ackbit", "deaf", "nakbit",
                "master", "rbyte", "rmaster", "rackbit", "rslave",
                "stop", "lost"}
    BY <1>d DEF IInv, TypeOK
  <2>2. stopping' \in BOOLEAN
    BY <1>d DEF IInv
  <2>3. tries' \in 0 .. MaxTries - 1
    BY <1>0, <1>a DEF IInv, TypeOK
  <2>4. gaveup' \in BOOLEAN
    BY <1>a DEF IInv, TypeOK
  <2>5. x' \in 1 .. 2
    BY <1>a, <1>m, <1>c DEF IInv
  <2>6. pc' \in {"idle", "try", "addr", "addrack", "send", "sendack", "recv",
              "recvwait", "out"}
    BY <1>a DEF IInv
  <2>7. QED
    BY <1>a, <2>1, <2>2, <2>3, <2>4, <2>5, <2>6 DEF IInv, TypeOK
<1>2. HandlerInv'
    BY <1>a, <1>b DEF IInv, HandlerInv
<1>3. FlagInv'
    BY <1>a, <1>b DEF IInv, FlagInv
<1>4. PhaseInv'
    BY <1>a, <1>d DEF IInv, PhaseInv, Working
<1>5. MessageInv'
    BY <1>a, <1>c DEF IInv, MessageInv, Working
<1>6. AddressInv'
    BY <1>a, <1>d DEF IInv, AddressInv
<1>7. IndexInv'
    BY <1>a, <1>d DEF IInv, IndexInv
<1>8. CallInv'
    BY <1>a DEF IInv, CallInv
<1>9. WriteInv'
    BY <1>a DEF IInv, WriteInv, Loopback, Working
<1>10. ReadInv'
    BY <1>a DEF IInv, ReadInv, Loopback, Sending
<1>11. RetryIsExact'
    BY <1>a, <1>m, <1>c DEF IInv, RetryIsExact, ReadInv, Loopback
<1>12. QED
    BY <1>1, <1>2, <1>3, <1>4, <1>5, <1>6, <1>7, <1>8, <1>9, <1>10, <1>11
       DEF IInv

\* The handler copies ISR.
LEMMA EnterStep ==
    ASSUME IInv, Enter
    PROVE  IInv'
<1>0. /\ PATTERN_BUF_SIZE \in Nat \ {0} /\ MaxTries \in Nat \ {0}
      /\ Noise \subseteq {"tomaster", "toslave", "arbitration"}
    BY I2cAssumption DEF I2cAssumption
<1>a. /\ ~handling /\ isr # {} /\ handling' = TRUE
      /\ tmp' = isr /\ todo' = isr /\ sec' = "none"
      /\ UNCHANGED <<test, ten, x, tries, i, stages, cnt, pc, ret,
                     int_master_ack_period, int_master_recv_ack, cmpr_buf,
                     slave_buf, slave_buf_idx, addr_10_bits_str,
                     gen_call_addr_str, isr, ackdis, nak, tran, stxr, mrxr,
                     line, mtxr, sel, stopping, gaveup, misheard>>
    BY DEF Enter, master, thread, flags, slave, ports, bus, hist
<1>b. Pend' = Pend
    BY <1>a DEF IInv, HandlerInv, Pend
<1>1. TypeOK'
  <2>1. handling' \in BOOLEAN
    BY <1>0, <1>a, <1>b DEF IInv, TypeOK
  <2>2. tmp' \subseteq Bits
    BY <1>0, <1>a, <1>b DEF IInv, TypeOK
  <2>3. todo' \subseteq tmp'
    BY <1>0, <1>a, <1>b DEF IInv, TypeOK
  <2>4. sec' \in Bits \cup {"none"}
    BY <1>0, <1>a, <1>b DEF IInv, TypeOK
  <2>5. QED
    BY <1>a, <2>1, <2>2, <2>3, <2>4 DEF IInv, TypeOK
<1>2. HandlerInv'
    BY <1>0, <1>a, <1>b DEF IInv, HandlerInv
<1>3. FlagInv'
    BY <1>a, <1>b DEF IInv, FlagInv
<1>4. PhaseInv'
    BY <1>a DEF IInv, PhaseInv, Working
<1>5. MessageInv'
    BY <1>a
       DEF IInv, MessageInv, StagesLeft, FirstAddress, Reads, Loopback, Working
<1>6. AddressInv'
    BY <1>a DEF IInv, AddressInv
<1>7. IndexInv'
    BY <1>a DEF IInv, IndexInv, Loopback
<1>8. CallInv'
    BY <1>a DEF IInv, CallInv
<1>9. WriteInv'
    BY <1>a DEF IInv, WriteInv, Loopback, Stored, Working
<1>10. ReadInv'
    BY <1>a DEF IInv, ReadInv, Loopback, Sending
<1>11. RetryIsExact'
    BY <1>a DEF IInv, RetryIsExact
<1>12. QED
    BY <1>1, <1>2, <1>3, <1>4, <1>5, <1>6, <1>7, <1>8, <1>9, <1>10, <1>11
       DEF IInv

\* The handler clears a bit.
LEMMA ClearBitStep ==
    ASSUME IInv, NEW b \in Bits, ClearBit(b)
    PROVE  IInv'
<1>0. /\ PATTERN_BUF_SIZE \in Nat \ {0} /\ MaxTries \in Nat \ {0}
      /\ Noise \subseteq {"tomaster", "toslave", "arbitration"}
    BY I2cAssumption DEF I2cAssumption
<1>a. /\ handling /\ sec = "none" /\ b \in todo /\ sec' = b
      /\ isr' = isr \cap (tmp \ {b}) /\ todo' = todo \ {b}
      /\ UNCHANGED <<test, ten, x, tries, i, stages, cnt, pc, ret,
                     int_master_ack_period, int_master_recv_ack, cmpr_buf,
                     slave_buf, slave_buf_idx, addr_10_bits_str,
                     gen_call_addr_str, handling, tmp, ackdis, nak, tran, stxr,
                     mrxr, line, mtxr, sel, stopping, gaveup, misheard>>
    BY DEF ClearBit, master, thread, flags, slave, ports, bus, hist
<1>b. /\ isr = {b} /\ todo = {b} /\ isr' = {} /\ todo' = {}
      /\ Pend' = Pend /\ b # "none"
    BY <1>a, BitsFacts DEF IInv, HandlerInv, Pend
<1>1. TypeOK'
  <2>1. isr' \subseteq Bits
    BY <1>0, <1>a, BitsFacts DEF IInv, TypeOK
  <2>2. todo' \subseteq tmp'
    BY <1>0, <1>a, <1>b DEF IInv, TypeOK
  <2>3. sec' \in Bits \cup {"none"}
    BY <1>0, <1>a, <1>b DEF IInv, TypeOK
  <2>4. QED
    BY <1>a, <2>1, <2>2, <2>3 DEF IInv, TypeOK
<1>2. HandlerInv'
    BY <1>0, <1>a, <1>b DEF IInv, HandlerInv
<1>3. FlagInv'
    BY <1>a, <1>b DEF IInv, FlagInv
<1>4. PhaseInv'
    BY <1>a DEF IInv, PhaseInv, Working
<1>5. MessageInv'
    BY <1>a
       DEF IInv, MessageInv, StagesLeft, FirstAddress, Reads, Loopback, Working
<1>6. AddressInv'
    BY <1>a DEF IInv, AddressInv
<1>7. IndexInv'
    BY <1>a DEF IInv, IndexInv, Loopback
<1>8. CallInv'
    BY <1>a DEF IInv, CallInv
<1>9. WriteInv'
    BY <1>a DEF IInv, WriteInv, Loopback, Stored, Working
<1>10. ReadInv'
    BY <1>a DEF IInv, ReadInv, Loopback, Sending
<1>11. RetryIsExact'
    BY <1>a DEF IInv, RetryIsExact
<1>12. QED
    BY <1>1, <1>2, <1>3, <1>4, <1>5, <1>6, <1>7, <1>8, <1>9, <1>10, <1>11
       DEF IInv

\* The arbitration is lost.
LEMMA ArbitLoseStep ==
    ASSUME IInv, ArbitLose
    PROVE  IInv'
<1>a. /\ handling /\ sec = "ARBIT_LOSE" /\ sec' = "none"
      /\ UNCHANGED <<test, ten, x, tries, i, stages, cnt, pc, ret,
                     int_master_ack_period, int_master_recv_ack, cmpr_buf,
                     slave_buf, slave_buf_idx, addr_10_bits_str,
                     gen_call_addr_str, handling, tmp, todo, isr, ackdis, nak,
                     tran, stxr, mrxr, line, mtxr, sel, stopping, gaveup,
                     misheard>>
    BY DEF ArbitLose, Section, master, thread, flags, slave, ports, bus, hist
<1>d. /\ isr = {} /\ todo = {} /\ Pend = {sec} /\ Pend' = {}
      /\ sec \in Asks(line)
    BY <1>a DEF IInv, HandlerInv, Pend
<1>b. line = "lost"
    BY <1>a, <1>d DEF IInv, Asks
<1>1. TypeOK'
  <2>1. sec' \in Bits \cup {"none"}
    BY <1>a, <1>d, <1>b DEF IInv
  <2>2. QED
    BY <1>a, <2>1 DEF IInv, TypeOK
<1>2. HandlerInv'
    BY <1>a, <1>d DEF IInv, HandlerInv
<1>3. FlagInv'
    BY <1>a, <1>d, <1>b DEF IInv, FlagInv
<1>4. PhaseInv'
    BY <1>a DEF IInv, PhaseInv, Working
<1>5. MessageInv'
    BY <1>a
       DEF IInv, MessageInv, StagesLeft, FirstAddress, Reads, Loopback, Working
<1>6. AddressInv'
    BY <1>a DEF IInv, AddressInv
<1>7. IndexInv'
    BY <1>a DEF IInv, IndexInv, Loopback
<1>8. CallInv'
    BY <1>a DEF IInv, CallInv
<1>9. WriteInv'
    BY <1>a DEF IInv, WriteInv, Loopback, Stored, Working
<1>10. ReadInv'
    BY <1>a DEF IInv, ReadInv, Loopback, Sending
<1>11. RetryIsExact'
    BY <1>a DEF IInv, RetryIsExact
<1>12. QED
    BY <1>1, <1>2, <1>3, <1>4, <1>5, <1>6, <1>7, <1>8, <1>9, <1>10, <1>11
       DEF IInv

\* The slave is called by all.
LEMMA BroadcastAddrStep ==
    ASSUME IInv, BroadcastAddr
    PROVE  IInv'
<1>a. /\ handling /\ sec = "BROADCAST_ADDR" /\ sec' = "none"
      /\ gen_call_addr_str' = TRUE /\ ackdis' = FALSE /\ resume_slave
      /\ UNCHANGED <<test, ten, x, tries, i, stages, cnt, pc, ret,
                     int_master_ack_period, int_master_recv_ack, cmpr_buf,
                     slave_buf, slave_buf_idx, addr_10_bits_str, handling, tmp,
                     todo, isr, nak, tran, stxr, mrxr, mtxr, sel, stopping,
                     gaveup, misheard>>
    BY DEF BroadcastAddr, Section, resume_slave, master, thread, flags, hist
<1>d. /\ isr = {} /\ todo = {} /\ Pend = {sec} /\ Pend' = {}
      /\ sec \in Asks(line)
    BY <1>a DEF IInv, HandlerInv, Pend
<1>b. line = "slave" /\ mtxr = CALL
    BY <1>a, <1>d DEF IInv, HandlerInv, Asks
<1>c. line' = "ackbit" /\ UNCHANGED <<mtxr, sel, stopping>>
      /\ pc \in {"addrack", "sendack"}
    BY <1>a, <1>b DEF IInv, TypeOK, PhaseInv, resume_slave
<1>k. pc = "addrack" /\ test = "call"
    BY <1>b, <1>c, ByteFacts DEF Addresses
<1>1. TypeOK'
  <2>1. sec' \in Bits \cup {"none"}
    BY <1>a DEF IInv
  <2>2. gen_call_addr_str' \in BOOLEAN
    BY <1>a DEF IInv
  <2>3. ackdis' \in BOOLEAN
    BY <1>a DEF IInv
  <2>4. line' \in {"free", "byte", "slave", "ackbit", "deaf", "nakbit",
                "master", "rbyte", "rmaster", "rackbit", "rslave",
                "stop", "lost"}
    BY <1>c, <1>k DEF IInv
  <2>5. QED
    BY <1>a, <2>1, <2>2, <2>3, <2>4 DEF IInv, TypeOK
<1>2. HandlerInv'
    BY <1>a, <1>d DEF IInv, HandlerInv
<1>3. FlagInv'
    BY <1>a, <1>d DEF IInv, FlagInv
<1>4. PhaseInv'
    BY <1>a, <1>c DEF IInv, PhaseInv, Working
<1>5. MessageInv'
    BY <1>a, <1>k
       DEF IInv, MessageInv, StagesLeft, FirstAddress, Loopback, Working
<1>6. AddressInv'
    BY <1>a, <1>b, <1>c DEF IInv, AddressInv, ADDR_W, ADDR_R, CALL
<1>7. IndexInv'
    BY <1>a, <1>c, <1>k DEF IInv, IndexInv
<1>8. CallInv'
    BY <1>a, <1>k DEF CallInv
<1>9. WriteInv'
    BY <1>a, <1>k DEF IInv, WriteInv
<1>10. ReadInv'
    BY <1>a, <1>k DEF IInv, ReadInv, Loopback
<1>11. RetryIsExact'
    BY <1>a DEF IInv, RetryIsExact
<1>12. QED
    BY <1>1, <1>2, <1>3, <1>4, <1>5, <1>6, <1>7, <1>8, <1>9, <1>10, <1>11
       DEF IInv

\* The slave is addressed.
LEMMA SlaveAddrStep ==
    ASSUME IInv, SlaveAddr
    PROVE  IInv'
<1>0. /\ PATTERN_BUF_SIZE \in Nat \ {0} /\ MaxTries \in Nat \ {0}
      /\ Noise \subseteq {"tomaster", "toslave", "arbitration"}
    BY I2cAssumption DEF I2cAssumption
<1>a. /\ handling /\ sec = "SLAVE_ADDR" /\ sec' = "none"
      /\ addr_10_bits_str' = (addr_10_bits_str \/ (ten /\ mtxr = ADDR_W))
      /\ \/ /\ mtxr = ADDR_R /\ tran' = TRUE /\ stxr' = NextData(0)
            /\ slave_buf_idx' = 1
         \/ mtxr # ADDR_R /\ slave_buf_idx' = 0 /\ UNCHANGED <<tran, stxr>>
      /\ ackdis' = FALSE /\ resume_slave
      /\ UNCHANGED <<test, ten, x, tries, i, stages, cnt, pc, ret,
                     int_master_ack_period, int_master_recv_ack, cmpr_buf,
                     slave_buf, gen_call_addr_str, handling, tmp, todo, isr,
                     nak, mrxr, mtxr, sel, stopping, gaveup, misheard>>
    BY DEF SlaveAddr, Section, resume_slave, master, thread, flags, hist
<1>d. /\ isr = {} /\ todo = {} /\ Pend = {sec} /\ Pend' = {}
      /\ sec \in Asks(line)
    BY <1>a DEF IInv, HandlerInv, Pend
<1>b. line = "slave" /\ mtxr \in {ADDR_W, ADDR_R}
    BY <1>a, <1>d DEF IInv, HandlerInv, Asks
<1>c. line' = "ackbit" /\ UNCHANGED <<mtxr, sel, stopping>>
      /\ pc \in {"addrack", "sendack"}
    BY <1>a, <1>b DEF IInv, TypeOK, PhaseInv, resume_slave
<1>k. pc = "addrack" /\ Loopback /\ (mtxr = ADDR_R => Reads)
    BY <1>b, <1>c, ByteFacts DEF Addresses
<1>1. TypeOK'
  <2>1. sec' \in Bits \cup {"none"}
    BY <1>a DEF IInv
  <2>2. addr_10_bits_str' \in BOOLEAN
    BY <1>a DEF IInv
  <2>3. tran' \in BOOLEAN
    BY <1>a DEF IInv, TypeOK
  <2>4. stxr' \in Byte
    BY <1>a DEF IInv, TypeOK, NextData, Byte
  <2>5. slave_buf_idx' \in 0 .. PATTERN_BUF_SIZE + 1
    BY <1>0, <1>a DEF IInv
  <2>6. ackdis' \in BOOLEAN
    BY <1>a DEF IInv
  <2>7. line' \in {"free", "byte", "slave", "ackbit", "deaf", "nakbit",
                "master", "rbyte", "rmaster", "rackbit", "rslave",
                "stop", "lost"}
    BY <1>c, <1>k DEF IInv
  <2>8. QED
    BY <1>a, <2>1, <2>2, <2>3, <2>4, <2>5, <2>6, <2>7 DEF IInv, TypeOK
<1>2. HandlerInv'
    BY <1>a, <1>d DEF IInv, HandlerInv
<1>3. FlagInv'
    BY <1>a, <1>d DEF IInv, FlagInv
<1>4. PhaseInv'
    BY <1>a, <1>c DEF IInv, PhaseInv, Working
<1>5. MessageInv'
    BY <1>a, <1>k
       DEF IInv, MessageInv, StagesLeft, FirstAddress, Reads, Loopback, Working
<1>6. AddressInv'
    BY <1>a, <1>b, <1>c
       DEF IInv, TypeOK, AddressInv, ADDR_W, ADDR_R, ADDR_2, CALL
<1>7. IndexInv'
    BY <1>a, <1>c, <1>k DEF IInv, IndexInv
<1>8. CallInv'
    BY <1>a, <1>k DEF IInv, CallInv
<1>9. WriteInv'
    BY <1>a, <1>k DEF IInv, WriteInv, Working
<1>10. ReadInv'
    BY <1>0, <1>a, <1>b, <1>k DEF IInv, ReadInv, Sending, NextData, Index
<1>11. RetryIsExact'
    BY <1>a DEF IInv, RetryIsExact
<1>12. QED
    BY <1>1, <1>2, <1>3, <1>4, <1>5, <1>6, <1>7, <1>8, <1>9, <1>10, <1>11
       DEF IInv

\* The slave gets a byte.
LEMMA SlaveAckPeriodStep ==
    ASSUME IInv, SlaveAckPeriod
    PROVE  IInv'
<1>0. /\ PATTERN_BUF_SIZE \in Nat \ {0} /\ MaxTries \in Nat \ {0}
      /\ Noise \subseteq {"tomaster", "toslave", "arbitration"}
    BY I2cAssumption DEF I2cAssumption
<1>a. /\ handling /\ sec = "SLAVE_ACK_PERIOD" /\ sec' = "none"
      /\ \/ /\ ten /\ addr_10_bits_str
            /\ ackdis' = (mtxr # ADDR_2) /\ addr_10_bits_str' = FALSE
            /\ UNCHANGED <<slave_buf, slave_buf_idx, gen_call_addr_str>>
         \/ /\ ~(ten /\ addr_10_bits_str) /\ gen_call_addr_str
            /\ gen_call_addr_str' = FALSE /\ ackdis' = FALSE
            /\ UNCHANGED <<slave_buf, slave_buf_idx, addr_10_bits_str>>
         \/ /\ ~(ten /\ addr_10_bits_str) /\ ~gen_call_addr_str
            /\ slave_buf' = [slave_buf EXCEPT ![slave_buf_idx] =
                                IF mtxr \in Index THEN mtxr ELSE GARBAGE]
            /\ slave_buf_idx' = slave_buf_idx + 1 /\ ackdis' = FALSE
            /\ UNCHANGED <<addr_10_bits_str, gen_call_addr_str>>
      /\ resume_slave
      /\ UNCHANGED <<test, ten, x, tries, i, stages, cnt, pc, ret,
                     int_master_ack_period, int_master_recv_ack, cmpr_buf,
                     handling, tmp, todo, isr, nak, tran, stxr, mrxr, mtxr,
                     sel, stopping, gaveup, misheard>>
    BY DEF SlaveAckPeriod, IsAddress, Section, resume_slave, master, thread,
           flags, hist
<1>d. /\ isr = {} /\ todo = {} /\ Pend = {sec} /\ Pend' = {}
      /\ sec \in Asks(line)
    BY <1>a DEF IInv, HandlerInv, Pend
<1>b. line = "slave" /\ mtxr \notin Addresses
    BY <1>a, <1>d DEF IInv, HandlerInv, Asks
<1>c. line' = "ackbit" /\ UNCHANGED <<mtxr, sel, stopping>>
      /\ pc \in {"addrack", "sendack"}
    BY <1>a, <1>b DEF IInv, TypeOK, PhaseInv, resume_slave
<1>e. ~(ten /\ addr_10_bits_str) /\ ~gen_call_addr_str => slave_buf_idx \in Index
    BY <1>0, <1>b, <1>c
       DEF IInv, TypeOK, MessageInv, IndexInv, AddressInv, StagesLeft,
           FirstAddress, Addresses, Index
<1>k. pc = "addrack" => mtxr = ADDR_2 /\ Loopback /\ ten
    BY <1>b, <1>c, ByteFacts
<1>f. pc = "sendack" => mtxr # ADDR_2
    BY <1>c, ByteFacts
<1>1. TypeOK'
  <2>1. sec' \in Bits \cup {"none"}
    BY <1>a DEF IInv
  <2>2. ackdis' \in BOOLEAN
    BY <1>a DEF IInv
  <2>3. addr_10_bits_str' \in BOOLEAN
    BY <1>a DEF IInv, TypeOK
  <2>4. gen_call_addr_str' \in BOOLEAN
    BY <1>a DEF IInv, TypeOK
  <2>5. slave_buf' \in [Index -> Byte]
    BY <1>a, <1>e DEF IInv, TypeOK, Byte
  <2>6. slave_buf_idx' \in 0 .. PATTERN_BUF_SIZE + 1
    BY <1>0, <1>a, <1>e DEF IInv, TypeOK, Index
  <2>7. line' \in {"free", "byte", "slave", "ackbit", "deaf", "nakbit",
                "master", "rbyte", "rmaster", "rackbit", "rslave",
                "stop", "lost"}
    BY <1>c, <1>e, <1>k, <1>f DEF IInv
  <2>8. QED
    BY <1>a, <2>1, <2>2, <2>3, <2>4, <2>5, <2>6, <2>7 DEF IInv, TypeOK
<1>2. HandlerInv'
    BY <1>a, <1>d DEF IInv, HandlerInv
<1>3. FlagInv'
    BY <1>a, <1>d DEF IInv, FlagInv
<1>4. PhaseInv'
    BY <1>a, <1>c DEF IInv, PhaseInv, Working
<1>5. MessageInv'
    BY <1>a, <1>c, <1>k, <1>f
       DEF IInv, MessageInv, StagesLeft, Reads, Loopback, Working
<1>6. AddressInv'
    BY <1>a, <1>b, <1>c, <1>k DEF IInv, AddressInv, Addresses
<1>7. IndexInv'
    BY <1>0, <1>a, <1>b, <1>c DEF IInv, TypeOK, IndexInv, Loopback
<1>8. CallInv'
    BY <1>a, <1>c, <1>f DEF IInv, CallInv
<1>9. WriteInv'
    BY <1>0, <1>a, <1>b, <1>c, <1>k, <1>f
       DEF IInv, TypeOK, WriteInv, Stored, AddressInv, CallInv, Length,
           MessageInv, Reads, Loopback, Working, Index
<1>10. ReadInv'
    BY <1>a, <1>b, <1>c DEF IInv, ReadInv, Addresses
<1>11. RetryIsExact'
    BY <1>a DEF IInv, RetryIsExact
<1>12. QED
    BY <1>1, <1>2, <1>3, <1>4, <1>5, <1>6, <1>7, <1>8, <1>9, <1>10, <1>11
       DEF IInv

\* The slave gets the answer to its byte.
LEMMA SlaveRecvAckStep ==
    ASSUME IInv, SlaveRecvAck
    PROVE  IInv'
<1>0. /\ PATTERN_BUF_SIZE \in Nat \ {0} /\ MaxTries \in Nat \ {0}
      /\ Noise \subseteq {"tomaster", "toslave", "arbitration"}
    BY I2cAssumption DEF I2cAssumption
<1>a. /\ handling /\ sec = "SLAVE_RECV_ACK" /\ sec' = "none"
      /\ stxr' = NextData(slave_buf_idx)
      /\ slave_buf_idx' = IF nak THEN 0 ELSE slave_buf_idx + 1
      /\ tran' = (tran /\ ~nak) /\ resume_slave
      /\ UNCHANGED <<test, ten, x, tries, i, stages, cnt, pc, ret,
                     int_master_ack_period, int_master_recv_ack, cmpr_buf,
                     slave_buf, addr_10_bits_str, gen_call_addr_str, handling,
                     tmp, todo, isr, ackdis, nak, mrxr, mtxr, sel, stopping,
                     gaveup, misheard>>
    BY DEF SlaveRecvAck, Section, resume_slave, master, thread, flags, hist
<1>d. /\ isr = {} /\ todo = {} /\ Pend = {sec} /\ Pend' = {}
      /\ sec \in Asks(line)
    BY <1>a DEF IInv, HandlerInv, Pend
<1>b. line \in {"deaf", "rslave"}
    BY <1>a, <1>d DEF IInv, Asks
<1>c. /\ line = "deaf" => line' = "nakbit"
      /\ line = "rslave" => line' = IF stopping THEN "stop" ELSE "rbyte"
      /\ pc \in {"addrack", "sendack"} <=> line = "deaf"
    BY <1>a, <1>b DEF IInv, TypeOK, PhaseInv, resume_slave
<1>k. /\ pc # "recv" /\ (pc = "recvwait" => line' = "rbyte")
      /\ pc = "recvwait" => cnt \in 1 .. PATTERN_BUF_SIZE
    BY <1>b, <1>c DEF IInv, MessageInv, PhaseInv, Working
<1>v. Loopback /\ ~gaveup /\ ~misheard /\ pc = "recvwait" =>
        /\ sel /\ tran /\ ~nak /\ slave_buf_idx = PATTERN_BUF_SIZE - cnt
        /\ slave_buf_idx \in Index
    BY <1>0, <1>b, <1>c, <1>k DEF IInv, ReadInv, Sending, Index
<1>w. Loopback' /\ ~gaveup' /\ ~misheard' /\ pc' = "recvwait" =>
        /\ sel' /\ tran' /\ stxr' = slave_buf'[PATTERN_BUF_SIZE - cnt']
        /\ slave_buf_idx' = PATTERN_BUF_SIZE - cnt' + 1
  <2>1. ASSUME Loopback, ~gaveup, ~misheard, pc = "recvwait"
        PROVE  /\ tran' /\ stxr' = slave_buf[slave_buf_idx]
               /\ slave_buf_idx' = slave_buf_idx + 1
    BY <1>a, <1>v, <2>1, Zenon DEF NextData
  <2>2. QED
    BY <1>0, <1>a, <1>v, <2>1 DEF Loopback
<1>1. TypeOK'
  <2>1. sec' \in Bits \cup {"none"}
    BY <1>a DEF IInv
  <2>2. stxr' \in Byte
    BY <1>a DEF IInv, TypeOK, NextData, Byte
  <2>3. slave_buf_idx' \in 0 .. PATTERN_BUF_SIZE + 1
    BY <1>0, <1>a, <1>b DEF IInv, TypeOK, IndexInv, AddressInv
  <2>4. tran' \in BOOLEAN
    BY <1>a DEF IInv
  <2>5. line' \in {"free", "byte", "slave", "ackbit", "deaf", "nakbit",
                "master", "rbyte", "rmaster", "rackbit", "rslave",
                "stop", "lost"}
    BY <1>b, <1>c DEF IInv
  <2>6. QED
    BY <1>a, <2>1, <2>2, <2>3, <2>4, <2>5 DEF IInv, TypeOK
<1>2. HandlerInv'
    BY <1>a, <1>d DEF IInv, HandlerInv
<1>3. FlagInv'
    BY <1>a, <1>d DEF IInv, FlagInv
<1>4. PhaseInv'
    BY <1>a, <1>b, <1>c DEF IInv, PhaseInv, Working
<1>5. MessageInv'
    BY <1>a, <1>k
       DEF IInv, MessageInv, StagesLeft, FirstAddress, Reads, Loopback, Working
<1>6. AddressInv'
    BY <1>a, <1>b, <1>c DEF IInv, AddressInv, PhaseInv
<1>7. IndexInv'
    BY <1>0, <1>a, <1>b, <1>c DEF IInv, TypeOK, IndexInv, PhaseInv, AddressInv
<1>8. CallInv'
    BY <1>a, <1>c DEF IInv, CallInv
<1>9. WriteInv'
    BY <1>a, <1>b, <1>c DEF IInv, WriteInv, PhaseInv, Loopback, Working
<1>10. ReadInv'
    BY <1>a, <1>c, <1>k, <1>w DEF IInv, ReadInv, Sending, Loopback
<1>11. RetryIsExact'
    BY <1>a DEF IInv, RetryIsExact
<1>12. QED
    BY <1>1, <1>2, <1>3, <1>4, <1>5, <1>6, <1>7, <1>8, <1>9, <1>10, <1>11
       DEF IInv

\* The master is told of a byte.
LEMMA MasterAckPeriodStep ==
    ASSUME IInv, MasterAckPeriod
    PROVE  IInv'
<1>a. /\ handling /\ sec = "MASTER_ACK_PERIOD" /\ sec' = "none"
      /\ int_master_ack_period' = TRUE
      /\ UNCHANGED <<test, ten, x, tries, i, stages, cnt, pc, ret,
                     int_master_recv_ack, cmpr_buf, slave_buf, slave_buf_idx,
                     addr_10_bits_str, gen_call_addr_str, handling, tmp, todo,
                     isr, ackdis, nak, tran, stxr, mrxr, line, mtxr, sel,
                     stopping, gaveup, misheard>>
    BY DEF MasterAckPeriod, Section, master, thread, slave, ports, bus, hist
<1>d. /\ isr = {} /\ todo = {} /\ Pend = {sec} /\ Pend' = {}
      /\ sec \in Asks(line)
    BY <1>a DEF IInv, HandlerInv, Pend
<1>b. line = "rmaster"
    BY <1>a, <1>d DEF IInv, Asks
<1>1. TypeOK'
  <2>1. sec' \in Bits \cup {"none"}
    BY <1>a, <1>d, <1>b DEF IInv
  <2>2. int_master_ack_period' \in BOOLEAN
    BY <1>a, <1>d, <1>b DEF IInv
  <2>3. QED
    BY <1>a, <2>1, <2>2 DEF IInv, TypeOK
<1>2. HandlerInv'
    BY <1>a, <1>d DEF IInv, HandlerInv
<1>3. FlagInv'
    BY <1>a, <1>d, <1>b DEF IInv, FlagInv
<1>4. PhaseInv'
    BY <1>a DEF IInv, PhaseInv, Working
<1>5. MessageInv'
    BY <1>a
       DEF IInv, MessageInv, StagesLeft, FirstAddress, Reads, Loopback, Working
<1>6. AddressInv'
    BY <1>a DEF IInv, AddressInv
<1>7. IndexInv'
    BY <1>a DEF IInv, IndexInv, Loopback
<1>8. CallInv'
    BY <1>a DEF IInv, CallInv
<1>9. WriteInv'
    BY <1>a DEF IInv, WriteInv, Loopback, Stored, Working
<1>10. ReadInv'
    BY <1>a DEF IInv, ReadInv, Loopback, Sending
<1>11. RetryIsExact'
    BY <1>a DEF IInv, RetryIsExact
<1>12. QED
    BY <1>1, <1>2, <1>3, <1>4, <1>5, <1>6, <1>7, <1>8, <1>9, <1>10, <1>11
       DEF IInv

\* The master is told of an answer.
LEMMA MasterRecvAckStep ==
    ASSUME IInv, MasterRecvAck
    PROVE  IInv'
<1>a. /\ handling /\ sec = "MASTER_RECV_ACK" /\ sec' = "none"
      /\ int_master_recv_ack' = TRUE
      /\ UNCHANGED <<test, ten, x, tries, i, stages, cnt, pc, ret,
                     int_master_ack_period, cmpr_buf, slave_buf, slave_buf_idx,
                     addr_10_bits_str, gen_call_addr_str, handling, tmp, todo,
                     isr, ackdis, nak, tran, stxr, mrxr, line, mtxr, sel,
                     stopping, gaveup, misheard>>
    BY DEF MasterRecvAck, Section, master, thread, slave, ports, bus, hist
<1>d. /\ isr = {} /\ todo = {} /\ Pend = {sec} /\ Pend' = {}
      /\ sec \in Asks(line)
    BY <1>a DEF IInv, HandlerInv, Pend
<1>b. line = "master"
    BY <1>a, <1>d DEF IInv, Asks
<1>1. TypeOK'
  <2>1. sec' \in Bits \cup {"none"}
    BY <1>a, <1>d, <1>b DEF IInv
  <2>2. int_master_recv_ack' \in BOOLEAN
    BY <1>a, <1>d, <1>b DEF IInv
  <2>3. QED
    BY <1>a, <2>1, <2>2 DEF IInv, TypeOK
<1>2. HandlerInv'
    BY <1>a, <1>d DEF IInv, HandlerInv
<1>3. FlagInv'
    BY <1>a, <1>d, <1>b DEF IInv, FlagInv
<1>4. PhaseInv'
    BY <1>a DEF IInv, PhaseInv, Working
<1>5. MessageInv'
    BY <1>a
       DEF IInv, MessageInv, StagesLeft, FirstAddress, Reads, Loopback, Working
<1>6. AddressInv'
    BY <1>a DEF IInv, AddressInv
<1>7. IndexInv'
    BY <1>a DEF IInv, IndexInv, Loopback
<1>8. CallInv'
    BY <1>a DEF IInv, CallInv
<1>9. WriteInv'
    BY <1>a DEF IInv, WriteInv, Loopback, Stored, Working
<1>10. ReadInv'
    BY <1>a DEF IInv, ReadInv, Loopback, Sending
<1>11. RetryIsExact'
    BY <1>a DEF IInv, RetryIsExact
<1>12. QED
    BY <1>1, <1>2, <1>3, <1>4, <1>5, <1>6, <1>7, <1>8, <1>9, <1>10, <1>11
       DEF IInv

\* The handler returns.
LEMMA LeaveStep ==
    ASSUME IInv, Leave
    PROVE  IInv'
<1>0. /\ PATTERN_BUF_SIZE \in Nat \ {0} /\ MaxTries \in Nat \ {0}
      /\ Noise \subseteq {"tomaster", "toslave", "arbitration"}
    BY I2cAssumption DEF I2cAssumption
<1>a. /\ handling /\ sec = "none" /\ todo = {} /\ handling' = FALSE
      /\ tmp' = {}
      /\ UNCHANGED <<test, ten, x, tries, i, stages, cnt, pc, ret,
                     int_master_ack_period, int_master_recv_ack, cmpr_buf,
                     slave_buf, slave_buf_idx, addr_10_bits_str,
                     gen_call_addr_str, todo, sec, isr, ackdis, nak, tran,
                     stxr, mrxr, line, mtxr, sel, stopping, gaveup, misheard>>
    BY DEF Leave, master, thread, flags, slave, ports, bus, hist
<1>b. Pend' = Pend
    BY <1>a DEF IInv, HandlerInv, Pend
<1>1. TypeOK'
  <2>1. handling' \in BOOLEAN
    BY <1>0, <1>a, <1>b DEF IInv, TypeOK
  <2>2. tmp' \subseteq Bits
    BY <1>0, <1>a, <1>b DEF IInv, TypeOK
  <2>3. QED
    BY <1>a, <2>1, <2>2 DEF IInv, TypeOK
<1>2. HandlerInv'
    BY <1>0, <1>a, <1>b DEF IInv, HandlerInv
<1>3. FlagInv'
    BY <1>a, <1>b DEF IInv, FlagInv
<1>4. PhaseInv'
    BY <1>a DEF IInv, PhaseInv, Working
<1>5. MessageInv'
    BY <1>a
       DEF IInv, MessageInv, StagesLeft, FirstAddress, Reads, Loopback, Working
<1>6. AddressInv'
    BY <1>a DEF IInv, AddressInv
<1>7. IndexInv'
    BY <1>a DEF IInv, IndexInv, Loopback
<1>8. CallInv'
    BY <1>a DEF IInv, CallInv
<1>9. WriteInv'
    BY <1>a DEF IInv, WriteInv, Loopback, Stored, Working
<1>10. ReadInv'
    BY <1>a DEF IInv, ReadInv, Loopback, Sending
<1>11. RetryIsExact'
    BY <1>a DEF IInv, RetryIsExact
<1>12. QED
    BY <1>1, <1>2, <1>3, <1>4, <1>5, <1>6, <1>7, <1>8, <1>9, <1>10, <1>11
       DEF IInv

\* A byte of the master goes over the bus.
LEMMA ShiftStep ==
    ASSUME IInv, Shift
    PROVE  IInv'
<1>0. /\ PATTERN_BUF_SIZE \in Nat \ {0} /\ MaxTries \in Nat \ {0}
      /\ Noise \subseteq {"tomaster", "toslave", "arbitration"}
    BY I2cAssumption DEF I2cAssumption
<1>a. /\ line = "byte"
      /\ \/ /\ mtxr \in {ADDR_W, ADDR_R} /\ sel' = TRUE /\ line' = "slave"
            /\ isr' = isr \cup {"SLAVE_ADDR"} /\ nak' = nak
         \/ /\ mtxr = CALL /\ sel' = TRUE /\ line' = "slave"
            /\ isr' = isr \cup {"BROADCAST_ADDR"} /\ nak' = nak
         \/ /\ mtxr = NOBODY \/ (mtxr \notin Addresses /\ ~sel)
            /\ sel' = FALSE /\ line' = "master" /\ nak' = TRUE
            /\ isr' = isr \cup {"MASTER_RECV_ACK"}
         \/ /\ mtxr \notin Addresses /\ sel /\ ~tran /\ line' = "slave"
            /\ isr' = isr \cup {"SLAVE_ACK_PERIOD"} /\ UNCHANGED <<nak, sel>>
         \/ /\ mtxr \notin Addresses /\ sel /\ tran /\ line' = "deaf"
            /\ nak' = TRUE /\ isr' = isr \cup {"SLAVE_RECV_ACK"} /\ sel' = sel
      /\ UNCHANGED <<test, ten, x, tries, i, stages, cnt, pc, ret,
                     int_master_ack_period, int_master_recv_ack, cmpr_buf,
                     slave_buf, slave_buf_idx, addr_10_bits_str,
                     gen_call_addr_str, handling, tmp, todo, sec, ackdis, tran,
                     stxr, mrxr, mtxr, stopping, gaveup, misheard>>
    BY DEF Shift, Environment, Raise, master, thread, flags, slave, handler
<1>b. /\ isr = {} /\ todo = {} /\ sec = "none" /\ Pend = {}
      /\ Pend' = isr'
    BY <1>a DEF IInv, HandlerInv, Pend, Asks
<1>1. TypeOK'
  <2>1. sel' \in BOOLEAN
    BY <1>0, <1>a, <1>b DEF IInv, TypeOK
  <2>2. line' \in {"free", "byte", "slave", "ackbit", "deaf", "nakbit",
                "master", "rbyte", "rmaster", "rackbit", "rslave",
                "stop", "lost"}
    BY <1>0, <1>a, <1>b DEF IInv, TypeOK
  <2>3. isr' \subseteq Bits
    BY <1>0, <1>a, BitsFacts DEF IInv, TypeOK
  <2>4. nak' \in BOOLEAN
    BY <1>0, <1>a, <1>b DEF IInv, TypeOK
  <2>5. QED
    BY <1>a, <2>1, <2>2, <2>3, <2>4 DEF IInv, TypeOK
<1>2. HandlerInv'
    BY <1>a, <1>b DEF IInv, HandlerInv, Asks
<1>3. FlagInv'
    BY <1>a, <1>b DEF IInv, TypeOK, FlagInv, PhaseInv
<1>4. PhaseInv'
    BY <1>a DEF IInv, PhaseInv, Working
<1>5. MessageInv'
    BY <1>a
       DEF IInv, PhaseInv, MessageInv, StagesLeft, FirstAddress, Reads,
           Loopback, Working
<1>6. AddressInv'
    BY <1>a DEF IInv, AddressInv, ADDR_W, ADDR_R, CALL, NOBODY, Addresses
<1>7. IndexInv'
    BY <1>0, <1>a DEF IInv, TypeOK, IndexInv, PhaseInv, Loopback
<1>8. CallInv'
    BY <1>a DEF IInv, CallInv
<1>9. WriteInv'
    BY <1>a DEF IInv, WriteInv, Loopback, Stored, Working
<1>10. ReadInv'
    BY <1>a DEF IInv, ReadInv, PhaseInv, ADDR_R, NOBODY, Addresses
<1>11. RetryIsExact'
    BY <1>a DEF IInv, RetryIsExact
<1>12. QED
    BY <1>1, <1>2, <1>3, <1>4, <1>5, <1>6, <1>7, <1>8, <1>9, <1>10, <1>11
       DEF IInv

\* Its acknowledge bit.
LEMMA AckBitStep ==
    ASSUME IInv, AckBit
    PROVE  IInv'
<1>0. /\ PATTERN_BUF_SIZE \in Nat \ {0} /\ MaxTries \in Nat \ {0}
      /\ Noise \subseteq {"tomaster", "toslave", "arbitration"}
    BY I2cAssumption DEF I2cAssumption
<1>a. /\ line \in {"ackbit", "nakbit"} /\ line' = "master"
      /\ nak' = (ackdis \/ line = "nakbit") \/ nak' = TRUE
      /\ isr' = isr \cup {"MASTER_RECV_ACK"}
      /\ UNCHANGED <<test, ten, x, tries, i, stages, cnt, pc, ret,
                     int_master_ack_period, int_master_recv_ack, cmpr_buf,
                     slave_buf, slave_buf_idx, addr_10_bits_str,
                     gen_call_addr_str, handling, tmp, todo, sec, ackdis, tran,
                     stxr, mrxr, mtxr, sel, stopping, gaveup, misheard>>
    BY DEF AckBit, Environment, Raise, master, thread, flags, slave, handler
<1>b. /\ isr = {} /\ todo = {} /\ sec = "none" /\ Pend = {}
      /\ Pend' = {"MASTER_RECV_ACK"}
    BY <1>a DEF IInv, HandlerInv, Pend, Asks
<1>c. /\ pc \in {"addrack", "sendack"}
      /\ mtxr \in Addresses => line = "ackbit"
    BY <1>a DEF IInv, TypeOK, AddressInv, PhaseInv
<1>1. TypeOK'
  <2>1. nak' \in BOOLEAN
    BY <1>a, <1>b, <1>c DEF IInv
  <2>2. line' \in {"free", "byte", "slave", "ackbit", "deaf", "nakbit",
                "master", "rbyte", "rmaster", "rackbit", "rslave",
                "stop", "lost"}
    BY <1>a, <1>b, <1>c DEF IInv
  <2>3. isr' \subseteq Bits
    BY <1>0, <1>a, BitsFacts DEF IInv, TypeOK
  <2>4. QED
    BY <1>a, <2>1, <2>2, <2>3 DEF IInv, TypeOK
<1>2. HandlerInv'
    BY <1>a, <1>b DEF IInv, HandlerInv, Asks
<1>3. FlagInv'
    BY <1>a, <1>b, <1>c DEF IInv, FlagInv
<1>4. PhaseInv'
    BY <1>a DEF IInv, PhaseInv, Working
<1>5. MessageInv'
    BY <1>a, <1>c
       DEF IInv, MessageInv, StagesLeft, FirstAddress, Reads, Loopback, Working
<1>6. AddressInv'
    BY <1>a DEF IInv, TypeOK, AddressInv, Addresses
<1>7. IndexInv'
    BY <1>a, <1>c DEF IInv, IndexInv, Loopback
<1>8. CallInv'
    BY <1>a DEF IInv, CallInv
<1>9. WriteInv'
    BY <1>a DEF IInv, WriteInv, Loopback, Stored, Working
<1>10. ReadInv'
    BY <1>a, <1>c DEF IInv, ReadInv, Sending, Loopback, Addresses
<1>11. RetryIsExact'
    BY <1>a DEF IInv, RetryIsExact
<1>12. QED
    BY <1>1, <1>2, <1>3, <1>4, <1>5, <1>6, <1>7, <1>8, <1>9, <1>10, <1>11
       DEF IInv

\* A byte of the slave goes over the bus.
LEMMA FetchStep ==
    ASSUME IInv, Fetch
    PROVE  IInv'
<1>0. /\ PATTERN_BUF_SIZE \in Nat \ {0} /\ MaxTries \in Nat \ {0}
      /\ Noise \subseteq {"tomaster", "toslave", "arbitration"}
    BY I2cAssumption DEF I2cAssumption
<1>a. /\ line = "rbyte" /\ line' = "rmaster"
      /\ mrxr' = IF sel /\ tran THEN stxr ELSE GARBAGE
      /\ isr' = isr \cup {"MASTER_ACK_PERIOD"}
      /\ UNCHANGED <<test, ten, x, tries, i, stages, cnt, pc, ret,
                     int_master_ack_period, int_master_recv_ack, cmpr_buf,
                     slave_buf, slave_buf_idx, addr_10_bits_str,
                     gen_call_addr_str, handling, tmp, todo, sec, ackdis, nak,
                     tran, stxr, mtxr, sel, stopping, gaveup, misheard>>
    BY DEF Fetch, Environment, Raise, master, thread, flags, slave, handler
<1>b. /\ isr = {} /\ todo = {} /\ sec = "none" /\ Pend = {}
      /\ Pend' = {"MASTER_ACK_PERIOD"}
    BY <1>a DEF IInv, HandlerInv, Pend, Asks
<1>1. TypeOK'
  <2>1. mrxr' \in Byte
    BY <1>a DEF IInv, TypeOK, Byte
  <2>2. line' \in {"free", "byte", "slave", "ackbit", "deaf", "nakbit",
                "master", "rbyte", "rmaster", "rackbit", "rslave",
                "stop", "lost"}
    BY <1>0, <1>a, <1>b DEF IInv, TypeOK
  <2>3. isr' \subseteq Bits
    BY <1>0, <1>a, BitsFacts DEF IInv, TypeOK
  <2>4. QED
    BY <1>a, <2>1, <2>2, <2>3 DEF IInv, TypeOK
<1>2. HandlerInv'
    BY <1>a, <1>b DEF IInv, HandlerInv, Asks
<1>3. FlagInv'
    BY <1>a, <1>b DEF IInv, TypeOK, FlagInv, PhaseInv
<1>4. PhaseInv'
    BY <1>a DEF IInv, PhaseInv, Working
<1>5. MessageInv'
    BY <1>a
       DEF IInv, MessageInv, StagesLeft, FirstAddress, Reads, Loopback, Working
<1>6. AddressInv'
    BY <1>a DEF IInv, AddressInv
<1>7. IndexInv'
    BY <1>a DEF IInv, TypeOK, IndexInv, PhaseInv
<1>8. CallInv'
    BY <1>a DEF IInv, CallInv
<1>9. WriteInv'
    BY <1>a DEF IInv, WriteInv, Loopback, Stored, Working
<1>10. ReadInv'
    BY <1>a DEF IInv, ReadInv, Sending, PhaseInv, Loopback
<1>11. RetryIsExact'
    BY <1>a DEF IInv, RetryIsExact
<1>12. QED
    BY <1>1, <1>2, <1>3, <1>4, <1>5, <1>6, <1>7, <1>8, <1>9, <1>10, <1>11
       DEF IInv

\* Its acknowledge bit.
LEMMA SlaveHearsAckStep ==
    ASSUME IInv, SlaveHearsAck
    PROVE  IInv'
<1>0. /\ PATTERN_BUF_SIZE \in Nat \ {0} /\ MaxTries \in Nat \ {0}
      /\ Noise \subseteq {"tomaster", "toslave", "arbitration"}
    BY I2cAssumption DEF I2cAssumption
<1>a. /\ line = "rackbit"
      /\ \/ /\ sel /\ tran /\ line' = "rslave"
            /\ isr' = isr \cup {"SLAVE_RECV_ACK"}
            /\ \/ nak' = ackdis /\ misheard' = misheard
               \/ nak' = ~ackdis /\ misheard' = TRUE
         \/ /\ ~(sel /\ tran) /\ line' = IF stopping THEN "stop" ELSE "rbyte"
            /\ UNCHANGED <<isr, nak, misheard>>
      /\ UNCHANGED <<test, ten, x, tries, i, stages, cnt, pc, ret,
                     int_master_ack_period, int_master_recv_ack, cmpr_buf,
                     slave_buf, slave_buf_idx, addr_10_bits_str,
                     gen_call_addr_str, handling, tmp, todo, sec, ackdis, tran,
                     stxr, mrxr, mtxr, sel, stopping, gaveup>>
    BY DEF SlaveHearsAck, Environment, Raise, master, thread, flags, slave,
           handler
<1>b. /\ isr = {} /\ todo = {} /\ sec = "none" /\ Pend = {}
      /\ Pend' = isr'
    BY <1>a DEF IInv, HandlerInv, Pend, Asks
<1>1. TypeOK'
  <2>1. line' \in {"free", "byte", "slave", "ackbit", "deaf", "nakbit",
                "master", "rbyte", "rmaster", "rackbit", "rslave",
                "stop", "lost"}
    BY <1>0, <1>a, <1>b DEF IInv, TypeOK
  <2>2. isr' \subseteq Bits
    BY <1>0, <1>a, BitsFacts DEF IInv, TypeOK
  <2>3. nak' \in BOOLEAN
    BY <1>0, <1>a, <1>b DEF IInv, TypeOK
  <2>4. misheard' \in BOOLEAN
    BY <1>0, <1>a, <1>b DEF IInv, TypeOK
  <2>5. QED
    BY <1>a, <2>1, <2>2, <2>3, <2>4 DEF IInv, TypeOK
<1>2. HandlerInv'
    BY <1>a, <1>b DEF IInv, HandlerInv, Asks
<1>3. FlagInv'
    BY <1>a, <1>b DEF IInv, FlagInv
<1>4. PhaseInv'
    BY <1>a DEF IInv, PhaseInv, Working
<1>5. MessageInv'
    BY <1>a
       DEF IInv, MessageInv, StagesLeft, FirstAddress, Reads, Loopback, Working
<1>6. AddressInv'
    BY <1>a DEF IInv, AddressInv
<1>7. IndexInv'
    BY <1>0, <1>a DEF IInv, TypeOK, IndexInv
<1>8. CallInv'
    BY <1>a DEF IInv, CallInv
<1>9. WriteInv'
    BY <1>a DEF IInv, WriteInv, Loopback, Stored, Working
<1>10. ReadInv'
    BY <1>a DEF IInv, ReadInv, Loopback, Sending
<1>11. RetryIsExact'
    BY <1>a DEF IInv, RetryIsExact
<1>12. QED
    BY <1>1, <1>2, <1>3, <1>4, <1>5, <1>6, <1>7, <1>8, <1>9, <1>10, <1>11
       DEF IInv

\* The bus comes free.
LEMMA StopDoneStep ==
    ASSUME IInv, StopDone
    PROVE  IInv'
<1>0. /\ PATTERN_BUF_SIZE \in Nat \ {0} /\ MaxTries \in Nat \ {0}
      /\ Noise \subseteq {"tomaster", "toslave", "arbitration"}
    BY I2cAssumption DEF I2cAssumption
<1>a. /\ line = "stop" /\ line' = "free" /\ sel' = FALSE
      /\ stopping' = FALSE
      /\ UNCHANGED <<test, ten, x, tries, i, stages, cnt, pc, ret,
                     int_master_ack_period, int_master_recv_ack, cmpr_buf,
                     slave_buf, slave_buf_idx, addr_10_bits_str,
                     gen_call_addr_str, handling, tmp, todo, sec, isr, ackdis,
                     nak, tran, stxr, mrxr, mtxr, gaveup, misheard>>
    BY DEF StopDone, Environment, master, thread, flags, slave, handler, ports
<1>b. /\ isr = {} /\ todo = {} /\ sec = "none" /\ Pend = {}
      /\ Pend' = {}
    BY <1>a DEF IInv, HandlerInv, Pend, Asks
<1>1. TypeOK'
  <2>1. line' \in {"free", "byte", "slave", "ackbit", "deaf", "nakbit",
                "master", "rbyte", "rmaster", "rackbit", "rslave",
                "stop", "lost"}
    BY <1>0, <1>a, <1>b DEF IInv, TypeOK
  <2>2. sel' \in BOOLEAN
    BY <1>0, <1>a, <1>b DEF IInv, TypeOK
  <2>3. stopping' \in BOOLEAN
    BY <1>0, <1>a, <1>b DEF IInv, TypeOK
  <2>4. QED
    BY <1>a, <2>1, <2>2, <2>3 DEF IInv, TypeOK
<1>2. HandlerInv'
    BY <1>0, <1>a, <1>b DEF IInv, HandlerInv
<1>3. FlagInv'
    BY <1>a, <1>b DEF IInv, FlagInv
<1>4. PhaseInv'
    BY <1>a DEF IInv, PhaseInv, Working
<1>5. MessageInv'
    BY <1>a
       DEF IInv, MessageInv, StagesLeft, FirstAddress, Reads, Loopback, Working
<1>6. AddressInv'
    BY <1>a DEF IInv, AddressInv
<1>7. IndexInv'
    BY <1>a DEF IInv, IndexInv, Loopback
<1>8. CallInv'
    BY <1>a DEF IInv, CallInv
<1>9. WriteInv'
    BY <1>a DEF IInv, WriteInv, Loopback, Stored, Working
<1>10. ReadInv'
    BY <1>a DEF IInv, ReadInv, PhaseInv, Loopback
<1>11. RetryIsExact'
    BY <1>a DEF IInv, RetryIsExact
<1>12. QED
    BY <1>1, <1>2, <1>3, <1>4, <1>5, <1>6, <1>7, <1>8, <1>9, <1>10, <1>11
       DEF IInv

\* Another master wins the bus.
LEMMA ArbitrationStep ==
    ASSUME IInv, Arbitration
    PROVE  IInv'
<1>0. /\ PATTERN_BUF_SIZE \in Nat \ {0} /\ MaxTries \in Nat \ {0}
      /\ Noise \subseteq {"tomaster", "toslave", "arbitration"}
    BY I2cAssumption DEF I2cAssumption
<1>a. /\ line = "byte" /\ line' = "lost" /\ sel' = FALSE
      /\ isr' = isr \cup {"ARBIT_LOSE"}
      /\ UNCHANGED <<test, ten, x, tries, i, stages, cnt, pc, ret,
                     int_master_ack_period, int_master_recv_ack, cmpr_buf,
                     slave_buf, slave_buf_idx, addr_10_bits_str,
                     gen_call_addr_str, handling, tmp, todo, sec, ackdis, nak,
                     tran, stxr, mrxr, mtxr, stopping, gaveup, misheard>>
    BY DEF Arbitration, Environment, Raise, master, thread, flags, slave,
           handler, ports
<1>b. /\ isr = {} /\ todo = {} /\ sec = "none" /\ Pend = {}
      /\ Pend' = {"ARBIT_LOSE"}
    BY <1>a DEF IInv, HandlerInv, Pend, Asks
<1>1. TypeOK'
  <2>1. line' \in {"free", "byte", "slave", "ackbit", "deaf", "nakbit",
                "master", "rbyte", "rmaster", "rackbit", "rslave",
                "stop", "lost"}
    BY <1>0, <1>a, <1>b DEF IInv, TypeOK
  <2>2. sel' \in BOOLEAN
    BY <1>0, <1>a, <1>b DEF IInv, TypeOK
  <2>3. isr' \subseteq Bits
    BY <1>0, <1>a, BitsFacts DEF IInv, TypeOK
  <2>4. QED
    BY <1>a, <2>1, <2>2, <2>3 DEF IInv, TypeOK
<1>2. HandlerInv'
    BY <1>a, <1>b DEF IInv, HandlerInv, Asks
<1>3. FlagInv'
    BY <1>a, <1>b DEF IInv, FlagInv
<1>4. PhaseInv'
    BY <1>a DEF IInv, PhaseInv, Working
<1>5. MessageInv'
    BY <1>a
       DEF IInv, MessageInv, StagesLeft, FirstAddress, Reads, Loopback, Working
<1>6. AddressInv'
    BY <1>a DEF IInv, AddressInv
<1>7. IndexInv'
    BY <1>0, <1>a DEF IInv, TypeOK, IndexInv, Loopback
<1>8. CallInv'
    BY <1>a DEF IInv, CallInv
<1>9. WriteInv'
    BY <1>a DEF IInv, WriteInv, Loopback, Stored, Working
<1>10. ReadInv'
    BY <1>a DEF IInv, ReadInv, PhaseInv
<1>11. RetryIsExact'
    BY <1>a DEF IInv, RetryIsExact
<1>12. QED
    BY <1>1, <1>2, <1>3, <1>4, <1>5, <1>6, <1>7, <1>8, <1>9, <1>10, <1>11
       DEF IInv

\* A test is chosen.
LEMMA BeginStep ==
    ASSUME IInv, NEW t \in Tests, Begin(t)
    PROVE  IInv'
<1>0. /\ PATTERN_BUF_SIZE \in Nat \ {0} /\ MaxTries \in Nat \ {0}
      /\ Noise \subseteq {"tomaster", "toslave", "arbitration"}
    BY I2cAssumption DEF I2cAssumption
<1>a. /\ pc = "idle" /\ ~handling /\ isr = {}
      /\ test' = t /\ x' = 1 /\ tries' = 0 /\ pc' = "try"
      /\ \/ ten' \in BOOLEAN /\ cmpr_buf' = [k \in Index |-> 0]
         \/ UNCHANGED <<ten, cmpr_buf>>
      /\ tran' = (tran /\ t # "call") /\ misheard' = FALSE
      /\ UNCHANGED <<i, stages, cnt, ret, int_master_ack_period,
                     int_master_recv_ack, slave_buf, slave_buf_idx,
                     addr_10_bits_str, gen_call_addr_str, handling, tmp, todo,
                     sec, isr, ackdis, nak, stxr, mrxr, line, mtxr, sel,
                     stopping, gaveup>>
    BY DEF Begin, MainRuns, flags, slave, handler, bus
<1>b. /\ sec = "none" /\ todo = {} /\ Pend = {} /\ Pend' = {}
    BY <1>a DEF IInv, HandlerInv, Pend
<1>1. TypeOK'
  <2>1. test' \in Tests
    BY <1>0, <1>a, <1>b DEF IInv, TypeOK
  <2>2. ten' \in BOOLEAN
    BY <1>0, <1>a, <1>b DEF IInv, TypeOK
  <2>3. x' \in 1 .. 2
    BY <1>0, <1>a, <1>b DEF IInv, TypeOK
  <2>4. tries' \in 0 .. MaxTries - 1
    BY <1>0, <1>a, <1>b DEF IInv, TypeOK
  <2>5. pc' \in {"idle", "try", "addr", "addrack", "send", "sendack", "recv",
              "recvwait", "out"}
    BY <1>0, <1>a, <1>b DEF IInv, TypeOK
  <2>6. cmpr_buf' \in [Index -> Byte]
    BY <1>0, <1>a DEF IInv, TypeOK, Byte, Index
  <2>7. tran' \in BOOLEAN
    BY <1>a DEF IInv, TypeOK
  <2>8. misheard' \in BOOLEAN
    BY <1>0, <1>a, <1>b DEF IInv, TypeOK
  <2>9. QED
    BY <1>a, <2>1, <2>2, <2>3, <2>4, <2>5, <2>6, <2>7, <2>8 DEF IInv, TypeOK
<1>2. HandlerInv'
    BY <1>a DEF IInv, HandlerInv, Pend, Asks
<1>3. FlagInv'
    BY <1>a DEF IInv, FlagInv, Pend
<1>4. PhaseInv'
    BY <1>a DEF IInv, PhaseInv, Working
<1>5. MessageInv'
    BY <1>a DEF IInv, MessageInv, Working
<1>6. AddressInv'
    BY <1>a DEF IInv, AddressInv
<1>7. IndexInv'
    BY <1>a DEF IInv, IndexInv, Loopback
<1>8. CallInv'
    BY <1>a DEF IInv, CallInv
<1>9. WriteInv'
    BY <1>a DEF IInv, WriteInv, Working
<1>10. ReadInv'
    BY <1>a DEF IInv, ReadInv, Loopback, Sending
<1>11. RetryIsExact'
    BY <1>a DEF IInv, RetryIsExact
<1>12. QED
    BY <1>1, <1>2, <1>3, <1>4, <1>5, <1>6, <1>7, <1>8, <1>9, <1>10, <1>11
       DEF IInv

(***************************************************************************)
(* The theorems                                                            *)
(***************************************************************************)
LEMMA InitInv == Init => IInv
<1> SUFFICES ASSUME Init PROVE IInv
    OBVIOUS
<1>0. /\ PATTERN_BUF_SIZE \in Nat \ {0} /\ MaxTries \in Nat \ {0}
      /\ Noise \subseteq {"tomaster", "toslave", "arbitration"}
    BY I2cAssumption DEF I2cAssumption
<1>1. TypeOK
  <2>1. /\ test \in Tests /\ x \in 1 .. 2 /\ tries \in 0 .. MaxTries - 1
        /\ i \in 1 .. 2 /\ cnt \in 0 .. PATTERN_BUF_SIZE /\ ret \in {-1, 1}
        /\ slave_buf_idx \in 0 .. PATTERN_BUF_SIZE + 1
    BY <1>0 DEF Init, Tests
  <2>2. /\ cmpr_buf \in [Index -> Byte] /\ slave_buf \in [Index -> Byte]
        /\ stxr \in Byte /\ mrxr \in Byte
    BY <1>0 DEF Init, Byte, Index
  <2>3. /\ ten \in BOOLEAN /\ int_master_ack_period \in BOOLEAN
        /\ int_master_recv_ack \in BOOLEAN /\ addr_10_bits_str \in BOOLEAN
        /\ gen_call_addr_str \in BOOLEAN /\ handling \in BOOLEAN
        /\ ackdis \in BOOLEAN /\ nak \in BOOLEAN /\ tran \in BOOLEAN
        /\ sel \in BOOLEAN /\ stopping \in BOOLEAN /\ gaveup \in BOOLEAN
        /\ misheard \in BOOLEAN
    BY DEF Init
  <2>4. /\ tmp \subseteq Bits /\ todo \subseteq tmp /\ isr \subseteq Bits
        /\ sec \in Bits \cup {"none"}
        /\ stages = <<>> /\ pc = "idle" /\ line = "free" /\ mtxr = NOBODY
    BY DEF Init
  <2>5. QED
    BY <2>1, <2>2, <2>3, <2>4 DEF TypeOK
<1>2. Pend = {}
    BY DEF Init, Pend
<1>3. HandlerInv /\ FlagInv /\ PhaseInv
    BY <1>2 DEF Init, HandlerInv, FlagInv, PhaseInv
<1>4. MessageInv /\ AddressInv
    BY DEF Init, MessageInv, AddressInv, Working
<1>5. IndexInv /\ CallInv
    BY DEF Init, IndexInv, CallInv
<1>6. WriteInv /\ ReadInv /\ RetryIsExact
    BY DEF Init, WriteInv, ReadInv, RetryIsExact, Loopback
<1>7. QED
    BY <1>1, <1>3, <1>4, <1>5, <1>6 DEF IInv

\* A step of nobody.
LEMMA StutterStep ==
    ASSUME IInv, UNCHANGED vars
    PROVE  IInv'
<1> USE DEF vars, master, thread, flags, slave, handler, ports, bus, hist
<1>1. TypeOK'
    BY DEF IInv, TypeOK
<1>2. HandlerInv' /\ FlagInv'
    BY DEF IInv, HandlerInv, FlagInv, Pend
<1>3. PhaseInv' /\ AddressInv' /\ IndexInv' /\ CallInv' /\ RetryIsExact'
    BY DEF IInv, PhaseInv, Working, AddressInv, IndexInv, Loopback, CallInv,
           RetryIsExact
<1>4. MessageInv'
    BY DEF IInv, MessageInv, StagesLeft, FirstAddress, Reads, Loopback, Working
<1>5. WriteInv' /\ ReadInv'
    BY DEF IInv, WriteInv, Stored, ReadInv, Sending, Loopback, Working
<1>6. QED
    BY <1>1, <1>2, <1>3, <1>4, <1>5 DEF IInv

LEMMA NextInv == IInv /\ [Next]_vars => IInv'
<1> SUFFICES ASSUME IInv, [Next]_vars PROVE IInv'
    OBVIOUS
<1>1. CASE \E t \in Tests : Begin(t)
    BY <1>1, BeginStep
<1>2. CASE Main
    BY <1>2, BusCheckStep, AddressStep, AddressAckStep, SendStep, SendAckStep,
       RecvStep, ReadByteStep, OutStep
       DEF Main
<1>3. CASE Handler
    BY <1>3, EnterStep, ClearBitStep, ArbitLoseStep, BroadcastAddrStep,
       SlaveAddrStep, SlaveAckPeriodStep, SlaveRecvAckStep,
       MasterAckPeriodStep, MasterRecvAckStep, LeaveStep
       DEF Handler
<1>4. CASE Bus
    BY <1>4, ShiftStep, AckBitStep, FetchStep, SlaveHearsAckStep, StopDoneStep
       DEF Bus
<1>5. CASE Arbitration
    BY <1>5, ArbitrationStep
<1>6. CASE UNCHANGED vars
    BY <1>6, StutterStep
<1>7. QED
    BY <1>1, <1>2, <1>3, <1>4, <1>5, <1>6 DEF Next

\* Master, slave and bus stay in step: the inductive invariant holds in every
\* reachable state.
THEOREM Invariance == Spec => []IInv
    BY InitInv, NextInv, PTL DEF Spec

\* A loop-back test that i2c_transfer says has succeeded has read back what it
\* wrote, whatever was retried on the way, for a pattern of any length.
THEOREM RetriesAreExact == Spec => []RetryIsExact
<1>1. IInv => RetryIsExact
    BY DEF IInv
<1>2. QED
    BY <1>1, Invariance, PTL

\* socle_i2c_isr, as the slave, never stores behind slave_buf, although its
\* index is bounded by nothing but what the master sends.
THEOREM StoresStayInBounds == Spec => []StoresInBounds
<1>1. IInv => StoresInBounds
  <2> SUFFICES ASSUME IInv, sec = "SLAVE_ACK_PERIOD", ~IsAddress,
                      ~gen_call_addr_str
               PROVE  slave_buf_idx \in Index
    BY DEF StoresInBounds
  <2>0. PATTERN_BUF_SIZE \in Nat \ {0}
    BY I2cAssumption DEF I2cAssumption
  <2>1. line = "slave" /\ mtxr \notin Addresses
    <3>1. sec \in Pend /\ sec \in Asks(line)
      BY DEF IInv, HandlerInv, Pend
    <3>2. QED
      BY <3>1 DEF IInv, TypeOK, HandlerInv, Asks
  <2>2. pc \in {"addrack", "sendack"}
    BY <2>1 DEF IInv, TypeOK, PhaseInv
  <2>3. pc = "addrack" => mtxr = ADDR_2 /\ ten
    BY <2>1, ByteFacts
  <2>4. pc = "sendack"
    BY <2>1, <2>2, <2>3 DEF IInv, AddressInv, IsAddress
  <2>5. cnt \in 1 .. PATTERN_BUF_SIZE /\ slave_buf_idx <= PATTERN_BUF_SIZE - cnt
    BY <2>1, <2>4 DEF IInv, TypeOK, MessageInv, IndexInv
  <2>6. QED
    BY <2>0, <2>5 DEF IInv, TypeOK, Index
<1>2. QED
    BY <1>1, Invariance, PTL

\* socle_i2c_isr, which takes the interrupts once and works through them, loses
\* none; when the master commands the bus, no flag of an earlier byte is left.
THEOREM HandshakeHolds == Spec => []Handshake
<1>1. IInv => TypeOK
    BY DEF IInv
<1>2. IInv => NoLostInterrupt
    BY DEF IInv, HandlerInv, NoLostInterrupt
<1>3. IInv => FlagsAreFresh
    BY DEF IInv, FlagInv, FlagsAreFresh, Pend
<1>4. QED
    BY <1>1, <1>2, <1>3, Invariance, PTL DEF Handshake
=============================================================================
