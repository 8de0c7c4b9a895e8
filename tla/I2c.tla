-------------------------------- MODULE I2c --------------------------------
(***************************************************************************)
(* The I2C driver, src/I2C/i2c.c, in its internal loopback test,           *)
(* src/I2C/i2c-ctrl.c: the main thread is the master (i2c_transfer), the   *)
(* interrupt handler (socle_i2c_isr) is the slave and also tells the       *)
(* master how far the bus has come.  Master and slave share the registers  *)
(* of one controller: CONR (acknowledge, direction), LSR, LCMR and ISR,    *)
(* whose bits the handler clears by writing back the copy it has read.     *)
(*                                                                         *)
(* The controller and the bus are external.  A byte stops on its way, once *)
(* for the slave and once for the master, until the one who is asked       *)
(* writes LCMR; noise may make one of them hear the opposite acknowledge   *)
(* or make the master lose the arbitration.                                *)
(***************************************************************************)
EXTENDS Integers, Sequences

CONSTANTS
    PATTERN_BUF_SIZE,    \* bytes of a message, and of the slave's buffer
    MaxTries,            \* attempts of i2c_transfer
    Noise                \* kinds of noise on the bus

ASSUME I2cAssumption ==
    /\ PATTERN_BUF_SIZE \in Nat \ {0} /\ MaxTries \in Nat \ {0}
    /\ Noise \subseteq {"tomaster", "toslave", "arbitration"}

\* The tests: in normal format a write and a read are two transfers, in
\* combined format one; a general call is one byte.  An absent device is
\* the EEPROM that does not answer.
Tests == {"normal", "combined", "call", "absent"}
Transfers(t) == CASE t = "normal"   -> <<<<"W">>, <<"R">>>>
                  [] t = "combined" -> <<<<"W", "R">>>>
                  [] OTHER          -> <<<<"W">>>>
Length(t) == IF t \in {"call", "absent"} THEN 1 ELSE PATTERN_BUF_SIZE

Index   == 0 .. PATTERN_BUF_SIZE - 1
GARBAGE == -7                         \* what an undriven bus reads as
Byte    == Index \cup {GARBAGE}

\* The other bytes of the master: addresses, and the byte of a general call.
\* (A byte of the pattern is known by its place; these are none of them.)
ADDR_W == -1
ADDR_R == -2
ADDR_2 == -3
CALL   == -4
NOBODY == -5
CMD    == -6

\* socle_i2c_make_test_pattern
Pattern == [k \in Index |-> k]

\* The bits of ISR, in the order in which the handler looks at them; without
\* ABNORMAL_STP, second in the code, which it only reports and clears: the
\* master is assumed never to stop in the middle of a byte.
Order == <<"ARBIT_LOSE", "BROADCAST_ADDR", "SLAVE_ADDR", "SLAVE_ACK_PERIOD",
           "SLAVE_RECV_ACK", "MASTER_ACK_PERIOD", "MASTER_RECV_ACK">>
Bits  == {Order[k] : k \in DOMAIN Order}

VARIABLES
    test, ten, x, tries, i, stages, cnt, pc, ret,     \* main thread
    int_master_ack_period, int_master_recv_ack,
    cmpr_buf,
    slave_buf, slave_buf_idx, addr_10_bits_str, gen_call_addr_str,
    handling, tmp, todo, sec,                         \* handler
    isr, ackdis, nak, tran, stxr, mrxr,               \* registers
    line, mtxr, sel, stopping,                        \* the bus
    gaveup, misheard                                  \* history

flags   == <<int_master_ack_period, int_master_recv_ack>>
slave   == <<slave_buf, slave_buf_idx, addr_10_bits_str, gen_call_addr_str>>
thread  == <<x, tries, i, stages, cnt, pc, ret>>
master  == <<test, ten, thread, cmpr_buf>>
handler == <<handling, tmp, todo, sec>>
ports   == <<ackdis, nak, tran, stxr, mrxr>>
bus     == <<line, mtxr, sel, stopping>>
hist    == <<gaveup, misheard>>
vars    == <<master, flags, slave, handler, isr, ports, bus, hist>>

TypeOK ==
    /\ test \in Tests /\ ten \in BOOLEAN
    /\ x \in 1 .. 2 /\ tries \in 0 .. MaxTries - 1 /\ i \in 1 .. 2
    /\ stages \in {<<>>, <<"start">>, <<"resume">>, <<"again">>,
                   <<"start", "resume">>, <<"resume", "again">>,
                   <<"start", "resume", "again">>}
    /\ cnt \in 0 .. PATTERN_BUF_SIZE /\ ret \in {-1, 1}
    /\ pc \in {"idle", "try", "addr", "addrack", "send", "sendack", "recv",
               "recvwait", "out"}
    /\ int_master_ack_period \in BOOLEAN /\ int_master_recv_ack \in BOOLEAN
    /\ cmpr_buf \in [Index -> Byte] /\ slave_buf \in [Index -> Byte]
    /\ slave_buf_idx \in 0 .. PATTERN_BUF_SIZE + 1
    /\ addr_10_bits_str \in BOOLEAN /\ gen_call_addr_str \in BOOLEAN
    /\ handling \in BOOLEAN /\ sec \in Bits \cup {"none"}
    /\ tmp \subseteq Bits /\ todo \subseteq tmp /\ isr \subseteq Bits
    /\ ackdis \in BOOLEAN /\ nak \in BOOLEAN /\ tran \in BOOLEAN
    /\ stxr \in Byte /\ mrxr \in Byte
    /\ line \in {"free", "byte", "slave", "ackbit", "deaf", "nakbit", "master",
                 "rbyte", "rmaster", "rackbit", "rslave", "stop", "lost"}
    /\ mtxr \in {ADDR_W, ADDR_R, ADDR_2, CALL, NOBODY, CMD} \cup Index
    /\ sel \in BOOLEAN /\ stopping \in BOOLEAN
    /\ gaveup \in BOOLEAN /\ misheard \in BOOLEAN

Init ==
    /\ test = "absent" /\ ten = FALSE
    /\ x = 1 /\ tries = 0 /\ i = 1 /\ stages = <<>> /\ cnt = 0
    /\ pc = "idle" /\ ret = -1
    /\ int_master_ack_period = FALSE /\ int_master_recv_ack = FALSE
    /\ cmpr_buf = [k \in Index |-> 0]
    /\ slave_buf = [k \in Index |-> 0] /\ slave_buf_idx = 0
    /\ addr_10_bits_str = FALSE /\ gen_call_addr_str = FALSE
    /\ handling = FALSE /\ tmp = {} /\ todo = {} /\ sec = "none"
    /\ isr = {} /\ ackdis = FALSE /\ nak = FALSE /\ tran = FALSE
    /\ stxr = 0 /\ mrxr = 0
    /\ line = "free" /\ mtxr = NOBODY /\ sel = FALSE /\ stopping = FALSE
    /\ gaveup = FALSE /\ misheard = FALSE

----------------------------------------------------------------------------
(* The line command register.  The bus waits for whoever is asked.         *)

\* socle_i2c_start: a start, or a repeated one, and the byte in MTXR.
start == /\ line' = "byte" /\ UNCHANGED stopping

\* socle_i2c_resume by the master: the next byte in the direction of CONR,
\* after the acknowledge bit it owes for the byte it has read.
resume(reading) ==
    /\ line' = IF ~reading THEN "byte"
               ELSE IF line = "rmaster" THEN "rackbit" ELSE "rbyte"
    /\ UNCHANGED stopping

\* socle_i2c_stop, which may come while the bus still works off the last one.
stop ==
    /\ line' = CASE line = "master"  -> "stop"
                 [] line = "rmaster" -> "rackbit"
                 [] OTHER            -> line
    /\ stopping' = (line # "free")

\* socle_i2c_resume by the slave.
resume_slave ==
    /\ line' = CASE line = "slave"  -> "ackbit"
                 [] line = "deaf"   -> "nakbit"
                 [] line = "rslave" -> (IF stopping THEN "stop" ELSE "rbyte")
                 [] OTHER           -> line
    /\ UNCHANGED <<mtxr, sel, stopping>>

----------------------------------------------------------------------------
(* Main thread: the tests and the master.                                  *)

\* Main runs while no interrupt is pending or being handled.
MainRuns == ~handling /\ isr = {}

\* The stages of socle_i2c_do_address: the start with the first byte, the
\* rest of a ten-bit address, and the repeated start that turns to reading.
Stages(t, dir) ==
    IF t \in {"call", "absent"} \/ ~ten THEN <<"start">>
    ELSE IF dir = "W" THEN <<"start", "resume">>
    ELSE <<"start", "resume", "again">>
FirstByte(t, dir) ==
    CASE t = "call"   -> CALL
      [] t = "absent" -> NOBODY
      [] OTHER        -> IF dir = "R" /\ ~ten THEN ADDR_R ELSE ADDR_W
Messages == Transfers(test)[x]

\* A test of the menu is chosen.  The address tests set the address mode
\* and clear the compare buffer; the general call test makes the slave a
\* receiver.
Begin(t) ==
    /\ MainRuns /\ pc = "idle"
    /\ test' = t /\ x' = 1 /\ tries' = 0 /\ pc' = "try"
    /\ IF t \in {"normal", "combined"}
       THEN /\ ten' \in BOOLEAN /\ cmpr_buf' = [k \in Index |-> 0]
       ELSE UNCHANGED <<ten, cmpr_buf>>
    /\ tran' = (tran /\ t # "call")
    /\ misheard' = FALSE
    /\ UNCHANGED <<i, stages, cnt, ret, flags, slave, handler, isr, ackdis, nak,
                   stxr, mrxr, bus, gaveup>>

\* socle_i2c_do_transfer: the first message needs a free bus.
BusCheck ==
    /\ MainRuns /\ pc = "try"
    /\ IF line # "free"
       THEN pc' = "out" /\ ret' = -1 /\ UNCHANGED <<i, stages>>
       ELSE pc' = "addr" /\ i' = 1 /\ stages' = Stages(test, Messages[1])
            /\ UNCHANGED ret
    /\ UNCHANGED <<test, ten, x, tries, cnt, cmpr_buf, flags, slave, handler,
                   isr, ports, bus, hist>>

\* socle_i2c_do_address, up to the wait for the acknowledge
Address ==
    /\ MainRuns /\ pc = "addr" /\ pc' = "addrack"
    /\ CASE Head(stages) = "start"  -> mtxr' = FirstByte(test, Messages[i])
                                       /\ start
         [] Head(stages) = "resume" -> mtxr' = ADDR_2 /\ resume(FALSE)
         [] OTHER                   -> mtxr' = ADDR_R /\ start
    /\ UNCHANGED <<test, ten, x, tries, i, stages, cnt, ret, cmpr_buf, flags,
                   slave, handler, isr, ports, sel, hist>>

\* socle_i2c_do_address behind socle_i2c_master_check_ack
AddressAck ==
    /\ MainRuns /\ pc = "addrack" /\ int_master_recv_ack
    /\ int_master_recv_ack' = FALSE
    /\ stages' = Tail(stages)
    /\ IF nak THEN pc' = "out" /\ ret' = -1 /\ UNCHANGED cnt
       ELSE /\ UNCHANGED ret
            /\ IF Len(stages) > 1 THEN pc' = "addr" /\ UNCHANGED cnt
               ELSE /\ pc' = IF Messages[i] = "R" THEN "recv" ELSE "send"
                    /\ cnt' = Length(test)
    /\ UNCHANGED <<test, ten, x, tries, i, cmpr_buf, int_master_ack_period,
                   slave, handler, isr, ports, bus, hist>>

\* After a byte of message i: the next byte, the next message or the end.
Onward(again) ==
    /\ cnt' = cnt - 1
    /\ IF cnt > 1 THEN pc' = again /\ UNCHANGED <<i, stages, ret>>
       ELSE IF i < Len(Messages)
       THEN /\ pc' = "addr" /\ i' = i + 1
            /\ stages' = Stages(test, Messages[i + 1]) /\ UNCHANGED ret
       ELSE pc' = "out" /\ ret' = 1 /\ UNCHANGED <<i, stages>>

\* socle_i2c_send_bytes, up to the wait
Send ==
    /\ MainRuns /\ pc = "send" /\ pc' = "sendack"
    /\ mtxr' = IF test = "call" THEN CMD ELSE Pattern[Length(test) - cnt]
    /\ resume(FALSE)
    /\ UNCHANGED <<test, ten, x, tries, i, stages, cnt, ret, cmpr_buf, flags,
                   slave, handler, isr, ports, sel, hist>>

\* socle_i2c_send_bytes behind socle_i2c_master_check_ack
SendAck_ignores_nak ==
    /\ MainRuns /\ pc = "sendack" /\ int_master_recv_ack
    /\ int_master_recv_ack' = FALSE
    /\ Onward("send")
    /\ UNCHANGED <<test, ten, x, tries, cmpr_buf, int_master_ack_period, slave,
                   handler, isr, ports, bus, hist>>
SendAck ==
    /\ MainRuns /\ pc = "sendack" /\ int_master_recv_ack
    /\ int_master_recv_ack' = FALSE
    /\ IF nak THEN pc' = "out" /\ ret' = -1 /\ UNCHANGED <<cnt, i, stages>>
       ELSE Onward("send")
    /\ UNCHANGED <<test, ten, x, tries, cmpr_buf, int_master_ack_period, slave,
                   handler, isr, ports, bus, hist>>

\* socle_i2c_read_bytes, up to the wait
Recv ==
    /\ MainRuns /\ pc = "recv" /\ pc' = "recvwait"
    /\ resume(TRUE)
    /\ UNCHANGED <<test, ten, x, tries, i, stages, cnt, ret, cmpr_buf, flags,
                   slave, handler, isr, ports, mtxr, sel, hist>>

\* socle_i2c_read_bytes behind socle_i2c_master_read_byte: the byte is
\* stored, and the answer to it is ACK, or NAK for the last one.
ReadByte_keeps_flag ==
    /\ MainRuns /\ pc = "recvwait" /\ int_master_ack_period
    /\ cmpr_buf' = [cmpr_buf EXCEPT ![Length(test) - cnt] = mrxr]
    /\ ackdis' = (cnt = 1)
    /\ Onward("recv")
    /\ UNCHANGED <<test, ten, x, tries, flags, slave, handler, isr, nak, tran,
                   stxr, mrxr, bus, hist>>
ReadByte ==
    /\ MainRuns /\ pc = "recvwait" /\ int_master_ack_period
    /\ int_master_ack_period' = FALSE
    /\ cmpr_buf' = [cmpr_buf EXCEPT ![Length(test) - cnt] = mrxr]
    /\ ackdis' = (cnt = 1)
    /\ Onward("recv")
    /\ UNCHANGED <<test, ten, x, tries, int_master_recv_ack, slave, handler,
                   isr, nak, tran, stxr, mrxr, bus, hist>>

\* The end of socle_i2c_do_transfer, and what i2c_transfer and the test do
\* with its result: on, again, or back to the menu.
Out ==
    /\ MainRuns /\ pc = "out"
    /\ stop
    /\ IF ret = 1
       THEN /\ tries' = 0 /\ UNCHANGED gaveup
            /\ IF x < Len(Transfers(test)) THEN x' = x + 1 /\ pc' = "try"
               ELSE pc' = "idle" /\ UNCHANGED x
       ELSE /\ UNCHANGED x
            /\ IF tries + 1 < MaxTries
               THEN tries' = tries + 1 /\ pc' = "try" /\ UNCHANGED gaveup
               ELSE pc' = "idle" /\ gaveup' = TRUE /\ UNCHANGED tries
    /\ UNCHANGED <<test, ten, i, stages, cnt, ret, cmpr_buf, flags, slave,
                   handler, isr, ports, mtxr, sel, misheard>>

----------------------------------------------------------------------------
(* The handler, socle_i2c_isr.                                             *)

Enter ==
    /\ ~handling /\ isr # {}
    /\ handling' = TRUE /\ tmp' = isr /\ todo' = isr /\ sec' = "none"
    /\ UNCHANGED <<master, flags, slave, isr, ports, bus, hist>>

\* Each section first clears its bit: it writes back the copy of ISR it
\* entered with, which clears every bit that is not in it.
ClearBit(b) ==
    /\ handling /\ sec = "none" /\ b \in todo
    /\ \A k, l \in DOMAIN Order :
            Order[k] = b /\ Order[l] \in todo => k <= l
    /\ isr' = isr \cap (tmp \ {b})
    /\ todo' = todo \ {b} /\ sec' = b
    /\ UNCHANGED <<master, flags, slave, handling, tmp, ports, bus, hist>>

Section(b) ==
    /\ handling /\ sec = b /\ sec' = "none"
    /\ UNCHANGED <<handling, tmp, todo, isr>>

\* The arbitration is lost: the handler only says so.
ArbitLose ==
    /\ Section("ARBIT_LOSE")
    /\ UNCHANGED <<master, flags, slave, ports, bus, hist>>

BroadcastAddr ==
    /\ Section("BROADCAST_ADDR")
    /\ gen_call_addr_str' = TRUE
    /\ ackdis' = FALSE
    /\ resume_slave
    /\ UNCHANGED <<master, flags, slave_buf, slave_buf_idx, addr_10_bits_str,
                   nak, tran, stxr, mrxr, hist>>

\* What STXR gets from the slave's buffer: one byte past its end is read when
\* the last byte has been sent.
NextData(k) == IF k \in Index THEN slave_buf[k] ELSE GARBAGE

SlaveAddr_keeps_idx ==
    /\ Section("SLAVE_ADDR")
    /\ addr_10_bits_str' = (addr_10_bits_str \/ (ten /\ mtxr = ADDR_W))
    /\ IF mtxr = ADDR_R
       THEN /\ tran' = TRUE /\ stxr' = NextData(slave_buf_idx)
            /\ slave_buf_idx' = slave_buf_idx + 1
       ELSE UNCHANGED <<slave_buf_idx, tran, stxr>>
    /\ ackdis' = FALSE
    /\ resume_slave
    /\ UNCHANGED <<master, flags, slave_buf, gen_call_addr_str, nak, mrxr, hist>>
SlaveAddr ==
    /\ Section("SLAVE_ADDR")
    /\ addr_10_bits_str' = (addr_10_bits_str \/ (ten /\ mtxr = ADDR_W))
    /\ IF mtxr = ADDR_R
       THEN tran' = TRUE /\ stxr' = NextData(0) /\ slave_buf_idx' = 1
       ELSE slave_buf_idx' = 0 /\ UNCHANGED <<tran, stxr>>
    /\ ackdis' = FALSE
    /\ resume_slave
    /\ UNCHANGED <<master, flags, slave_buf, gen_call_addr_str, nak, mrxr, hist>>

\* Is the byte in SRXR the rest of the slave's address?
IsAddress == ten /\ addr_10_bits_str

SlaveAckPeriod ==
    /\ Section("SLAVE_ACK_PERIOD")
    /\ \/ /\ IsAddress
          /\ ackdis' = (mtxr # ADDR_2) /\ addr_10_bits_str' = FALSE
          /\ UNCHANGED <<slave_buf, slave_buf_idx, gen_call_addr_str>>
       \/ /\ ~IsAddress /\ gen_call_addr_str
          /\ gen_call_addr_str' = FALSE /\ ackdis' = FALSE
          /\ UNCHANGED <<slave_buf, slave_buf_idx, addr_10_bits_str>>
       \/ /\ ~IsAddress /\ ~gen_call_addr_str
          /\ slave_buf' = [slave_buf EXCEPT ![slave_buf_idx] =
                              IF mtxr \in Index THEN mtxr ELSE GARBAGE]
          /\ slave_buf_idx' = slave_buf_idx + 1
          /\ ackdis' = FALSE
          /\ UNCHANGED <<addr_10_bits_str, gen_call_addr_str>>
    /\ resume_slave
    /\ UNCHANGED <<master, flags, nak, tran, stxr, mrxr, hist>>

\* The master has answered a byte of the slave: the next byte goes to STXR,
\* and after NAK the slave is a receiver again.
SlaveRecvAck_no_resume ==
    /\ Section("SLAVE_RECV_ACK")
    /\ stxr' = NextData(slave_buf_idx)
    /\ slave_buf_idx' = IF nak THEN 0 ELSE slave_buf_idx + 1
    /\ tran' = (tran /\ ~nak)
    /\ IF nak THEN UNCHANGED bus ELSE resume_slave
    /\ UNCHANGED <<master, flags, slave_buf, addr_10_bits_str,
                   gen_call_addr_str, ackdis, nak, mrxr, hist>>
SlaveRecvAck ==
    /\ Section("SLAVE_RECV_ACK")
    /\ stxr' = NextData(slave_buf_idx)
    /\ slave_buf_idx' = IF nak THEN 0 ELSE slave_buf_idx + 1
    /\ tran' = (tran /\ ~nak)
    /\ resume_slave
    /\ UNCHANGED <<master, flags, slave_buf, addr_10_bits_str,
                   gen_call_addr_str, ackdis, nak, mrxr, hist>>

MasterAckPeriod ==
    /\ Section("MASTER_ACK_PERIOD")
    /\ int_master_ack_period' = TRUE
    /\ UNCHANGED <<master, int_master_recv_ack, slave, ports, bus, hist>>

MasterRecvAck ==
    /\ Section("MASTER_RECV_ACK")
    /\ int_master_recv_ack' = TRUE
    /\ UNCHANGED <<master, int_master_ack_period, slave, ports, bus, hist>>

Leave ==
    /\ handling /\ sec = "none" /\ todo = {}
    /\ handling' = FALSE /\ tmp' = {}
    /\ UNCHANGED <<master, flags, slave, todo, sec, isr, ports, bus, hist>>

Handler ==
    \/ Enter \/ (\E b \in Bits : ClearBit(b)) \/ ArbitLose \/ BroadcastAddr
    \/ SlaveAddr \/ SlaveAckPeriod \/ SlaveRecvAck \/ MasterAckPeriod
    \/ MasterRecvAck \/ Leave

----------------------------------------------------------------------------
(* The controller and the bus.                                             *)

Raise(b) == isr' = isr \cup {b}
Environment == UNCHANGED <<master, flags, slave, handler, gaveup>>

Addresses == {ADDR_W, ADDR_R, CALL, NOBODY}

\* A byte of the master has gone over the bus.  An address selects the
\* slave or nobody; any other byte is for the selected slave, which does not
\* hear it while it is set to transmit.
Shift ==
    /\ line = "byte"
    /\ \/ /\ mtxr \in {ADDR_W, ADDR_R}
          /\ sel' = TRUE /\ line' = "slave" /\ Raise("SLAVE_ADDR")
          /\ UNCHANGED nak
       \/ /\ mtxr = CALL
          /\ sel' = TRUE /\ line' = "slave" /\ Raise("BROADCAST_ADDR")
          /\ UNCHANGED nak
       \/ /\ mtxr = NOBODY \/ (mtxr \notin Addresses /\ ~sel)
          /\ sel' = FALSE /\ line' = "master" /\ nak' = TRUE
          /\ Raise("MASTER_RECV_ACK")
       \/ /\ mtxr \notin Addresses /\ sel /\ ~tran
          /\ line' = "slave" /\ Raise("SLAVE_ACK_PERIOD")
          /\ UNCHANGED <<nak, sel>>
       \/ /\ mtxr \notin Addresses /\ sel /\ tran
          /\ line' = "deaf" /\ nak' = TRUE /\ Raise("SLAVE_RECV_ACK")
          /\ UNCHANGED sel
    /\ UNCHANGED <<ackdis, tran, stxr, mrxr, mtxr, stopping, misheard>>
    /\ Environment

\* The acknowledge for a byte of the master.
AckBit ==
    /\ line \in {"ackbit", "nakbit"}
    /\ \/ nak' = (ackdis \/ line = "nakbit")
       \/ "tomaster" \in Noise /\ nak' = TRUE
    /\ line' = "master" /\ Raise("MASTER_RECV_ACK")
    /\ UNCHANGED <<ackdis, tran, stxr, mrxr, mtxr, sel, stopping, misheard>>
    /\ Environment

\* A byte of the slave has gone over the bus.
Fetch ==
    /\ line = "rbyte"
    /\ mrxr' = IF sel /\ tran THEN stxr ELSE GARBAGE
    /\ line' = "rmaster" /\ Raise("MASTER_ACK_PERIOD")
    /\ UNCHANGED <<ackdis, nak, tran, stxr, mtxr, sel, stopping, misheard>>
    /\ Environment

\* The acknowledge for a byte of the slave.
SlaveHearsAck ==
    /\ line = "rackbit"
    /\ IF sel /\ tran
       THEN /\ line' = "rslave" /\ Raise("SLAVE_RECV_ACK")
            /\ \/ nak' = ackdis /\ UNCHANGED misheard
               \/ "toslave" \in Noise /\ nak' = ~ackdis /\ misheard' = TRUE
       ELSE /\ line' = IF stopping THEN "stop" ELSE "rbyte"
            /\ UNCHANGED <<isr, nak, misheard>>
    /\ UNCHANGED <<ackdis, tran, stxr, mrxr, mtxr, sel, stopping>>
    /\ Environment

StopDone ==
    /\ line = "stop"
    /\ line' = "free" /\ sel' = FALSE /\ stopping' = FALSE
    /\ UNCHANGED <<isr, ports, mtxr, misheard>>
    /\ Environment

\* Another master wins the bus and keeps it.
Arbitration ==
    /\ "arbitration" \in Noise /\ line = "byte"
    /\ line' = "lost" /\ sel' = FALSE /\ Raise("ARBIT_LOSE")
    /\ UNCHANGED <<ports, mtxr, stopping, misheard>>
    /\ Environment

Bus == Shift \/ AckBit \/ Fetch \/ SlaveHearsAck \/ StopDone

----------------------------------------------------------------------------
Main == BusCheck \/ Address \/ AddressAck \/ Send \/ SendAck \/ Recv \/ ReadByte
        \/ Out

Next == (\E t \in Tests : Begin(t)) \/ Main \/ Handler \/ Bus \/ Arbitration

\* The processor runs the handler and the main thread, the controller moves
\* the bus on; nothing obliges a person to choose a test.
Fairness == WF_vars(Main) /\ WF_vars(Handler) /\ WF_vars(Bus)

Spec == Init /\ [][Next]_vars /\ Fairness

----------------------------------------------------------------------------
\* A loopback test whose transfers all returned success, after however many
\* retries, has read back what it wrote: i2c_transfer starts the message again
\* from its first byte, and the slave starts its buffer again with the
\* address.  Excepted are tests in which the slave misheard an answer, and
\* those after a transfer that gave up: the slave may then still expect the
\* byte of a general call (gen_call_addr_str).
RetryIsExact ==
    pc = "idle" /\ ret = 1 /\ test \in {"normal", "combined"}
    /\ ~gaveup /\ ~misheard => cmpr_buf = Pattern

\* Whatever is retried or misheard, the slave stores no byte behind its
\* buffer (socle_i2c_slave_buf[socle_i2c_slave_buf_idx++]).
StoresInBounds ==
    sec = "SLAVE_ACK_PERIOD" /\ ~IsAddress /\ ~gen_call_addr_str
        => slave_buf_idx \in Index

\* The handler clears no bit it has not seen, although it clears by writing
\* back a copy of ISR: the bus moves only when the section is over.
NoLostInterrupt == handling /\ sec = "none" /\ todo # {} => isr \subseteq tmp

\* When the master commands the bus, no flag of an earlier byte is left, also
\* not of an attempt that failed: the wait that follows is for this byte.
FlagsAreFresh ==
    pc \in {"idle", "try", "addr", "send", "recv", "out"}
        => /\ ~int_master_ack_period /\ ~int_master_recv_ack
           /\ isr \cap {"MASTER_ACK_PERIOD", "MASTER_RECV_ACK"} = {}

\* i2c_transfer returns, whether or not a device answers, unless the
\* arbitration is lost: check_ack waits for an interrupt that then never
\* comes.
TransferReturns == (pc # "idle") ~> (pc = "idle" \/ line = "lost")

\* Once the test is over the bus comes free: the slave answers the last NAK.
BusReleased == (pc = "idle") ~> (line = "free" \/ pc # "idle")

\* Master, handler and bus agree on which byte an interrupt is about.
Handshake == TypeOK /\ NoLostInterrupt /\ FlagsAreFresh

\* Both sides come to their end: the call returns and the bus is free.
TransferEnds == TransferReturns /\ BusReleased
=============================================================================
