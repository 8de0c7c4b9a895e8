----------------------------- MODULE SpiMaster -----------------------------
(***************************************************************************)
(* Transfers of the SPI master by interrupt: sq_spi_transfer and its       *)
(* handler, src/SPI/spi-master.c, as the internal loop-back test           *)
(* (src/SPI/spi-master-ctrl.c) and the test of an AT25040 EEPROM           *)
(* (src/SPI/eeprom-test.c) use them.  The controller and the EEPROM are    *)
(* external.  A FIFO interrupt lasts as long as its level is reached, that *)
(* of the end of reception until ISR is read, and the handler keeps up     *)
(* with the wire.                                                          *)
(***************************************************************************)
EXTENDS Session

CONSTANTS
    SpiSize,                \* PATTERN_BUF_SIZE of the SPI tests
    SQ_SPI_FIFO_SIZE,
    AT25040_MAX_PKG_LEN,    \* bytes of a page; the EEPROM has two
    RETRY_CNT_THRESHOLD

ASSUME SpiAssumption ==
    /\ SpiSize \in Nat \ {0} /\ AT25040_MAX_PKG_LEN \in Nat \ {0}
    /\ SQ_SPI_FIFO_SIZE \in Nat \ {0} /\ SQ_SPI_FIFO_SIZE % 2 = 0
    /\ RETRY_CNT_THRESHOLD \in Nat

MAX_BYTE == 2 * AT25040_MAX_PKG_LEN     \* 256, all that u8 can address
Level    == SQ_SPI_FIFO_SIZE \div 2     \* TRIGGER_LEVEL_4

\* The commands and the bits of the status.
WREN == 6
RDSR == 5
WRITE == 2
READ == 3
RDY == 1
WEN == 2

VARIABLES
    sopt,           \* this board
    phase,          \* what the transfer is for, see Message
    page, retry_cnt,
    tx_buf, tidx,   \* sq_spi_isr_tx_buf and its index
    rx_buf,         \* what has been stored at sq_spi_isr_rx_buf
    rx_cnt,         \* how much the caller has asked for
    tx_flag,        \* sq_spi_tx_complete_flag; flag is that of reception
    on, run,        \* the device is enabled; SQ_SPI_TXRX_RUN
    txc, rxc,       \* TXCR and RXCR, counting down
    txf, rxf,       \* the FIFOs
    tie, done,      \* IER_TXFIFO_INT_EN; the RX_COMPLETE interrupt
    got,            \* what the EEPROM has received in this transfer
    cells, busy, wen,
    over,           \* history: an access behind a buffer
    given,          \* history: the last transfer was given up
    spoilt          \* history: the loop back has changed a byte

call   == <<phase, page, retry_cnt, rx_cnt>>
memory == <<cells, busy, wen>>
hist   == <<over, given, spoilt>>
svars  == <<sopt, call, tx_buf, tidx, rx_buf, tx_flag, on, run, txc, rxc, txf,
           rxf, tie, done, got, memory, hist>>

\* A board has one fault at most: the clock of the controller is slower
\* than the wait or stands still; the loop back changes bytes; the EEPROM
\* is missing, and its line low or high, is protected, or never gets ready.
Good == [clock |-> "good", loop |-> "good", eeprom |-> "good"]
Boards ==
    {Good, [Good EXCEPT !.clock = "slow"], [Good EXCEPT !.clock = "dead"],
     [Good EXCEPT !.loop = "bad"]}
    \cup {[Good EXCEPT !.eeprom = e] : e \in {"low", "high", "protected", "slow"}}

SpiPattern(n) == [i \in 1 .. n |-> i - 1]
Changed       == 170

\* What is sent, and how many bytes are read back.  The address of the read
\* is that of the last page, gone round to 0.
Message ==
    CASE phase = "loop"  -> SpiPattern(SpiSize)
      [] phase = "wren"  -> <<WREN>>
      [] phase = "wen"   -> <<RDSR>>
      [] phase = "write" -> <<WRITE, page * AT25040_MAX_PKG_LEN>>
                            \o SubSeq(SpiPattern(MAX_BYTE),
                                      page * AT25040_MAX_PKG_LEN + 1,
                                      (page + 1) * AT25040_MAX_PKG_LEN)
      [] phase = "ready" -> <<RDSR>>
      [] phase = "read"  -> <<READ, (page * AT25040_MAX_PKG_LEN) % MAX_BYTE>>
ReadBack ==
    CASE phase = "loop" -> SpiSize [] phase = "read" -> MAX_BYTE
      [] phase \in {"wen", "ready"} -> 1 [] OTHER -> 0

SpiTypeOK ==
    /\ sopt \in Boards
    /\ phase \in {"loop", "wren", "wen", "write", "ready", "read"}
    /\ page \in 0 .. 2 /\ retry_cnt \in 0 .. RETRY_CNT_THRESHOLD + 1
    /\ tidx \in 0 .. Len(tx_buf) /\ Len(rx_buf) <= rx_cnt
    /\ tx_flag \in {0, 1}
    /\ {on, run, tie, done, busy, wen, over, given, spoilt} \subseteq BOOLEAN
    /\ txc \in Nat /\ rxc \in Nat
    /\ Len(txf) <= SQ_SPI_FIFO_SIZE /\ Len(rxf) <= SQ_SPI_FIFO_SIZE
    /\ DOMAIN cells = 0 .. MAX_BYTE - 1

SpiInit ==
    /\ sopt \in Boards /\ phase = "loop" /\ page = 0 /\ retry_cnt = 0
    /\ tx_buf = <<>> /\ tidx = 0 /\ rx_buf = <<>> /\ rx_cnt = 0 /\ tx_flag = 0
    /\ on = FALSE /\ run = FALSE /\ txc = 0 /\ rxc = 0 /\ txf = <<>>
    /\ rxf = <<>> /\ tie = FALSE /\ done = FALSE /\ got = <<>>
    /\ cells = [a \in 0 .. MAX_BYTE - 1 |-> 255] /\ busy = FALSE /\ wen = FALSE
    /\ over = FALSE /\ given = FALSE /\ spoilt = FALSE

SpiLine == on /\ (done \/ Len(rxf) >= Level \/ (tie /\ Len(txf) <= Level))

SMain(from, to) == Main("spi", SpiLine, from, to)
SKeep == UNCHANGED <<vec, iec>>

(***************************************************************************)
(* The tests                                                               *)
(***************************************************************************)
\* sq_spi_master0_test, sq_spi_master_init.
SpiOpen ==
    /\ Request("spi", FALSE, "closed", "menu") /\ on' = TRUE
    /\ UNCHANGED <<flag, sopt, call, tx_buf, tidx, rx_buf, tx_flag, run, txc,
                   rxc, txf, rxf, tie, done, got, memory, hist>>

\* Its end: the device is disabled before its handler goes.
SpiClose ==
    /\ \/ /\ SMain("menu", "off") /\ on' = FALSE /\ SKeep
          /\ UNCHANGED <<flag, ret>>
       \/ Free("spi", SpiLine, "off", "closed") /\ UNCHANGED on
    /\ UNCHANGED <<sopt, call, tx_buf, tidx, rx_buf, tx_flag, run, txc, rxc,
                   txf, rxf, tie, done, got, memory, hist>>

\* A test begins: soft reset, ...
SpiReset(p) ==
    /\ SMain("menu", "ier") /\ SKeep
    /\ phase' = p /\ page' = 0 /\ retry_cnt' = 0
    /\ run' = FALSE /\ txc' = 0 /\ rxc' = 0 /\ done' = FALSE /\ got' = <<>>
    /\ given' = FALSE /\ spoilt' = FALSE
    /\ UNCHANGED <<flag, ret, sopt, rx_cnt, tx_buf, tidx, rx_buf, tx_flag, on,
                   txf, rxf, tie, memory, over>>

\* ... the interrupts, the FIFOs, and the buffers.
SpiConfigure ==
    /\ \/ SMain("ier", "fcr") /\ tie' = FALSE /\ UNCHANGED <<txf, rxf>>
       \/ SMain("fcr", "set") /\ txf' = <<>> /\ rxf' = <<>> /\ UNCHANGED tie
    /\ SKeep
    /\ UNCHANGED <<flag, ret, sopt, call, tx_buf, tidx, rx_buf, tx_flag, on,
                   run, txc, rxc, done, got, memory, hist>>

\* What a test does with what it has read: the phase that follows, or the
\* result.
Ends(r) == pc' = "menu" /\ ret' = r /\ UNCHANGED <<phase, page, retry_cnt>>
GoesOn(p, n) ==
    /\ pc' = "set" /\ phase' = p /\ page' = n /\ retry_cnt' = 0
    /\ UNCHANGED ret

Polled(bit, value, next, n) ==
    LET stat == (rx_buf[1] \div bit) % 2
    IN  \/ stat = value /\ GoesOn(next, n)
        \/ stat # value /\ retry_cnt > RETRY_CNT_THRESHOLD /\ Ends(-1)
        \/ /\ stat # value /\ retry_cnt <= RETRY_CNT_THRESHOLD
           /\ pc' = "set" /\ retry_cnt' = retry_cnt + 1
           /\ UNCHANGED <<phase, page, ret>>

SpiCompare(n) == IF rx_buf = SpiPattern(n) THEN 0 ELSE -1

SpiGoOn ==
    /\ dev = "spi" /\ pc = "back" /\ isr = "none" /\ ~(iec /\ SpiLine)
    /\ \/ phase = "loop"  /\ Ends(SpiCompare(SpiSize))
       \/ phase = "wren"  /\ GoesOn("wen", page)
       \/ phase = "wen"   /\ Polled(WEN, 1, "write", page)
       \/ phase = "write" /\ GoesOn("ready", page)
       \/ phase = "ready" /\ Polled(RDY, 0, IF page = 1 THEN "read" ELSE "wren",
                                    page + 1)
       \/ phase = "read"  /\ Ends(SpiCompare(MAX_BYTE))
    /\ SKeep
    /\ UNCHANGED <<dev, isr, flag, sopt, rx_cnt, tx_buf, tidx, rx_buf,
                   tx_flag, on, run, txc, rxc, txf, rxf, tie, done, got, memory,
                   hist>>

(***************************************************************************)
(* sq_spi_transfer                                                         *)
(***************************************************************************)
XKeep == UNCHANGED <<vec, iec, ret, sopt, phase, page, retry_cnt, on, got,
                     memory, over, spoilt>>

\* Indices, buffers and flags.
TransferSet ==
    /\ SMain("set", "spin") /\ XKeep
    /\ tx_buf' = Message /\ tidx' = 0 /\ rx_buf' = <<>> /\ rx_cnt' = ReadBack
    /\ tx_flag' = 0 /\ flag' = 0
    /\ UNCHANGED <<run, txc, rxc, txf, rxf, tie, done, given>>

\* With the controller at rest: the counts, as many bytes as the FIFO takes,
\* and the interrupt for the others.  Nothing happens until RUN is set.
TransferFill ==
    /\ SMain("spin", "start") /\ XKeep /\ ~run
    /\ txc' = Len(tx_buf) /\ rxc' = rx_cnt
    /\ LET n == IF Len(tx_buf) <= SQ_SPI_FIFO_SIZE - Len(txf)
                  THEN Len(tx_buf) ELSE SQ_SPI_FIFO_SIZE - Len(txf)
       IN  /\ txf' = txf \o SubSeq(tx_buf, 1, n) /\ tidx' = n
           /\ tx_flag' = IF n = Len(tx_buf) THEN 1 ELSE 0
           /\ tie' = (tie \/ n # Len(tx_buf))
    /\ UNCHANGED <<flag, tx_buf, rx_buf, rx_cnt, run, rxf, done, given>>

TransferStart ==
    /\ SMain("start", "wait") /\ XKeep /\ run' = TRUE
    /\ UNCHANGED <<flag, tx_buf, tidx, rx_buf, rx_cnt, tx_flag, txc, rxc, txf,
                   rxf, tie, done, given>>

\* Nothing moves any more.
Stuck ==
    \/ sopt.clock = "dead" \/ ~run
    \/ txc > 0 /\ txf = <<>>

\* The wait, for the bytes to be received if there are any, for those to be
\* sent if not.  A good controller needs less time than the wait has.
TransferWait ==
    /\ \/ rx_cnt > 0 /\ Waited("spi", SpiLine, "wait", "drain")
          /\ UNCHANGED <<ret, tx_flag, given>>
       \/ /\ rx_cnt = 0 /\ SMain("wait", "drain") /\ SKeep
          /\ tx_flag = 1 /\ tx_flag' = 0 /\ UNCHANGED <<flag, ret, given>>
       \/ /\ rx_cnt > 0 /\ GaveUp("spi", SpiLine, "wait", "menu")
          /\ sopt.clock = "slow" \/ Stuck
          /\ given' = TRUE /\ UNCHANGED tx_flag
       \/ /\ rx_cnt = 0 /\ SMain("wait", "menu") /\ SKeep
          /\ tx_flag # 1 /\ ret' = -1 /\ (sopt.clock = "slow" \/ Stuck)
          /\ given' = TRUE /\ UNCHANGED <<flag, tx_flag>>
    /\ UNCHANGED <<sopt, call, tx_buf, tidx, rx_buf, on, run, txc, rxc, txf,
                   rxf, tie, done, got, memory, over, spoilt>>

\* A transfer that returns with the last byte in the FIFO.
TransferDrain_none ==
    /\ SMain("drain", "back") /\ XKeep
    /\ UNCHANGED <<flag, tx_buf, tidx, rx_buf, rx_cnt, tx_flag, run, txc, rxc,
                   txf, rxf, tie, done, given>>

\* The last loop, which has no bound.
TransferDrain ==
    /\ SMain("drain", "back") /\ XKeep /\ ~run
    /\ UNCHANGED <<flag, tx_buf, tidx, rx_buf, rx_cnt, tx_flag, run, txc, rxc,
                   txf, rxf, tie, done, given>>

SpiMain ==
    \/ SpiOpen
    \/ SpiClose
    \/ \E p \in {"loop", "wren"} : SpiReset(p)
    \/ SpiConfigure
    \/ TransferSet
    \/ TransferFill
    \/ TransferStart
    \/ TransferWait
    \/ TransferDrain
    \/ SpiGoOn

(***************************************************************************)
(* sq_spi_master_isr                                                       *)
(***************************************************************************)
SIsr(from, to) ==
    /\ dev = "spi" /\ isr = from /\ isr' = to
    /\ UNCHANGED <<dev, pc, vec, iec, ret, sopt, call, tx_buf, on, run, txc,
                   rxc, got, memory, given, spoilt>>

SpiEnter == Dispatch("spi", SpiLine, "isr") /\ UNCHANGED svars

\* ISR is read, which clears it, and the first of its bits is served.
SpiReadIsr ==
    /\ \/ done /\ SIsr("isr", "complete")
       \/ ~done /\ Len(rxf) >= Level /\ SIsr("isr", "rx")
       \/ ~done /\ Len(rxf) < Level /\ SIsr("isr", "tx")
    /\ done' = FALSE
    /\ UNCHANGED <<flag, tidx, rx_buf, tx_flag, txf, rxf, tie, over>>

\* A loop over the receive FIFO, one byte a step.
SpiStore ==
    /\ \/ /\ isr \in {"complete", "rx"} /\ rxf # <<>> /\ SIsr(isr, isr)
          /\ rxf' = Tail(rxf) /\ UNCHANGED flag
          /\ IF Len(rx_buf) < rx_cnt
               THEN rx_buf' = Append(rx_buf, Head(rxf)) /\ UNCHANGED over
               ELSE over' = TRUE /\ UNCHANGED rx_buf
       \/ /\ rxf = <<>> /\ SIsr("complete", "none") /\ flag' = 1
          /\ UNCHANGED <<rx_buf, rxf, over>>
       \/ /\ rxf = <<>> /\ SIsr("rx", "none")
          /\ UNCHANGED <<flag, rx_buf, rxf, over>>
    /\ UNCHANGED <<tidx, tx_flag, txf, tie, done>>

\* The loop that fills the transmit FIFO.
SpiSend ==
    /\ \/ Len(txf) = SQ_SPI_FIFO_SIZE /\ SIsr("tx", "none")
          /\ UNCHANGED <<tidx, txf, tx_flag, tie, over>>
       \/ /\ Len(txf) < SQ_SPI_FIFO_SIZE /\ tidx >= Len(tx_buf)
          /\ SIsr("tx", "tx") /\ over' = TRUE
          /\ UNCHANGED <<tidx, txf, tx_flag, tie>>
       \/ /\ Len(txf) < SQ_SPI_FIFO_SIZE /\ tidx < Len(tx_buf)
          /\ txf' = Append(txf, tx_buf[tidx + 1]) /\ tidx' = tidx + 1
          /\ \/ tidx' = Len(tx_buf) /\ SIsr("tx", "none")
                /\ tx_flag' = 1 /\ tie' = FALSE
             \/ tidx' # Len(tx_buf) /\ SIsr("tx", "tx")
                /\ UNCHANGED <<tx_flag, tie>>
          /\ UNCHANGED over
    /\ UNCHANGED <<flag, rx_buf, rxf, done>>

SpiHandler == SpiEnter \/ SpiReadIsr \/ SpiStore \/ SpiSend

(***************************************************************************)
(* The controller and the EEPROM (external)                                *)
(***************************************************************************)
SDevice ==
    /\ dev = "spi" /\ on /\ sopt.clock # "dead"
    /\ UNCHANGED <<session, sopt, call, tx_buf, tidx, rx_buf, tx_flag, on, tie,
                   over, given>>

\* A byte goes out; in loop back it comes in again.
ShiftOut ==
    /\ SDevice /\ run /\ txc > 0 /\ txf # <<>>
    /\ txf' = Tail(txf) /\ txc' = txc - 1
    /\ \/ /\ phase = "loop" /\ rxc > 0 /\ Len(rxf) < SQ_SPI_FIFO_SIZE
          /\ \/ rxf' = Append(rxf, Head(txf)) /\ UNCHANGED spoilt
             \/ /\ sopt.loop = "bad" /\ rxf' = Append(rxf, Changed)
                /\ spoilt' = TRUE
          /\ rxc' = rxc - 1 /\ done' = (done \/ rxc = 1) /\ UNCHANGED got
       \/ /\ phase # "loop" /\ got' = Append(got, Head(txf))
          /\ UNCHANGED <<rxf, rxc, done, spoilt>>
    /\ UNCHANGED <<run, memory>>

\* What the EEPROM answers to the command it has received.
Answer ==
    CASE sopt.eeprom = "low"  -> 0
      [] sopt.eeprom = "high" -> 255
      [] got[1] = RDSR -> (IF busy THEN RDY ELSE 0) + (IF wen THEN WEN ELSE 0)
      [] got[1] = READ /\ ~busy -> cells[(got[2] + (rx_cnt - rxc)) % MAX_BYTE]
      [] OTHER -> 255

\* A good EEPROM is ready before the retries are used up.
ShiftIn ==
    /\ SDevice /\ run /\ phase # "loop" /\ txc = 0 /\ rxc > 0
    /\ Len(rxf) < SQ_SPI_FIFO_SIZE
    /\ busy /\ retry_cnt > RETRY_CNT_THRESHOLD => sopt.eeprom = "slow"
    /\ rxf' = Append(rxf, Answer) /\ rxc' = rxc - 1 /\ done' = (done \/ rxc = 1)
    /\ UNCHANGED <<run, txc, txf, got, memory, spoilt>>

\* The end of a transfer, which is when the EEPROM executes a command.
ShiftEnd ==
    /\ SDevice /\ run /\ txc = 0 /\ rxc = 0
    /\ run' = FALSE /\ got' = <<>>
    /\ LET takes(c) == /\ got # <<>> /\ got[1] = c /\ ~busy
                       /\ sopt.eeprom \notin {"low", "high"}
       IN  /\ wen' = (wen \/ takes(WREN))
           /\ busy' = (busy \/ (takes(WRITE) /\ wen))
           /\ cells' = IF takes(WRITE) /\ wen /\ sopt.eeprom # "protected"
                         THEN [a \in DOMAIN cells |->
                                 IF a - got[2] \in 0 .. Len(got) - 3
                                   THEN got[a - got[2] + 3] ELSE cells[a]]
                         ELSE cells
    /\ UNCHANGED <<txc, rxc, txf, rxf, done, spoilt>>

EepromReady ==
    /\ dev = "spi" /\ busy /\ busy' = FALSE /\ wen' = FALSE
    /\ UNCHANGED <<session, sopt, call, tx_buf, tidx, rx_buf, tx_flag, on, run,
                   txc, rxc, txf, rxf, tie, done, got, cells, hist>>

SpiDevice == ShiftOut \/ ShiftIn \/ ShiftEnd

(***************************************************************************)
(* Properties                                                              *)
(***************************************************************************)
\* A good board passes both tests, in any order: no byte and no wake-up is
\* lost between the two contexts, the FIFOs and the counts, a transfer is
\* over on the wire when the next one begins, and the address that has gone
\* round to 0 is the one to read from.
GoodSpiPasses == dev = "spi" /\ sopt = Good => ret # -1

\* A test that passes has had every byte back unchanged, or has the pattern
\* in the EEPROM, with the transfers of an earlier test that were given up
\* still under way.
SpiPassIsReal ==
    dev = "spi" /\ pc = "menu" /\ ret = 0 =>
        /\ phase = "loop" => ~spoilt
        /\ phase = "read" => \A a \in DOMAIN cells : cells[a] = a

\* The handler stays within the buffers of the transfer that set them, even
\* after it was given up; and a transfer begins with nothing of another one
\* in the controller, whose interrupt would move its indices.
SpiInPlace ==
    /\ ~over
    /\ dev = "spi" /\ pc \in {"set", "spin"} =>
         ~run /\ ~done /\ ~tie /\ txf = <<>> /\ rxf = <<>>
=============================================================================
