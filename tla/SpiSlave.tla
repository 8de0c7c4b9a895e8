------------------------------ MODULE SpiSlave ------------------------------
(***************************************************************************)
(* Two boards joined by SPI.  One runs the master's side of the slave test *)
(* (src/SPI/sq-spi-slave-test.c, over sq_spi_transfer of spi-master.c):    *)
(* it waits for READY, writes a pattern, waits, reads it back, waits, and  *)
(* tells the slave to exit.  The other runs sq_spi_slave_protocol_run of   *)
(* src/SPI/spi-slave-ctrl.c: a main loop and an interrupt handler that     *)
(* share `state`, three completion flags, the interrupt enables and the    *)
(* status byte TX_REG0 that the master polls.                              *)
(*                                                                         *)
(* The wire, the FIFOs and the DMA engine are external.  A byte carries    *)
(* its value and, for the properties, whether the current run of the       *)
(* master sent it.                                                         *)
(***************************************************************************)
EXTENDS Integers, Sequences

CONSTANTS
    PATTERN_BUF_SIZE,   \* bytes of the pattern
    FIFO_SIZE,          \* SQ_SPI_FIFO_SIZE
    MaxRetry,           \* bound on the polls for READY (2000 in the code)
    Backlog             \* bytes that may wait for an enabled handler: a byte
                        \* takes 8192 bus clocks on the wire (SLAVE_DIV), so
                        \* the handler has the first byte of a header before
                        \* the fifth is sent

ASSUME SpiAssumption ==
    /\ PATTERN_BUF_SIZE \in 1 .. 65535     \* a header has two bytes for it
    /\ PATTERN_BUF_SIZE % 4 = 0            \* it is compared word by word
    /\ FIFO_SIZE \in Nat \ {0} /\ FIFO_SIZE % 2 = 0
    /\ PATTERN_BUF_SIZE % FIFO_SIZE = 0
    /\ MaxRetry \in Nat /\ Backlog \in 1 .. 4 /\ Backlog <= FIFO_SIZE

Half == FIFO_SIZE \div 2

\* Commands of the protocol and their bytes.
CMD_READ  == 1
CMD_WRITE == 2
CMD_DMARD == 3
CMD_DMAWR == 4
CMD_EXIT  == 15
Data      == {CMD_READ, CMD_WRITE, CMD_DMARD, CMD_DMAWR}
Reading   == {CMD_READ, CMD_DMARD}

\* The values of `state`; a data command is a state too.
STA_CMD          == 0
STA_GET_ADDR_HI  == 16
STA_GET_ADDR_LOW == 17
STA_GET_SIZE_HI  == 18
STA_GET_SIZE_LOW == 19
States == {STA_CMD, STA_GET_ADDR_HI, STA_GET_ADDR_LOW, STA_GET_SIZE_HI,
           STA_GET_SIZE_LOW} \cup Data

VARIABLES
    pc, type, phase, i, stat, out, retry, cmpr, ret,    \* the master
    spc, start, state, command, temp_addr, temp_size,   \* the slave
    count, op, rx_complete, tx_complete, tx_finish, storage,
    ier, tx_reg0, rx_reg0, rxfifo, txfifo,              \* its controller
    dma_req, dma,
    recovering, crossed                                 \* history

master == <<pc, type, phase, i, stat, out, retry, cmpr, ret>>
soft   == <<start, state, command, temp_addr, temp_size, op>>
flags  == <<rx_complete, tx_complete, tx_finish>>
hard   == <<ier, tx_reg0, rx_reg0, rxfifo, txfifo, dma_req, dma>>
hist   == <<recovering, crossed>>
vars   == <<master, spc, soft, count, flags, storage, hard, hist>>

Byte(k)   == [b |-> k % 256, fresh |-> TRUE]
Plain(b)  == [b |-> b, fresh |-> FALSE]
Cells     == [b : 0 .. 255, fresh : BOOLEAN]
Empty     == [k \in 0 .. PATTERN_BUF_SIZE - 1 |-> Plain(0)]
Storage   == 0 .. PATTERN_BUF_SIZE - 1
NoDma     == [dir |-> "off", n |-> 0]

Init ==
    /\ pc = "idle" /\ type = "normal" /\ phase = "write" /\ i = 0 /\ stat = 0
    /\ out = <<>> /\ retry = 0 /\ cmpr = Empty /\ ret = "none"
    /\ spc = "off" /\ start = 0 /\ state = STA_CMD /\ command = 0
    /\ temp_addr = 0 /\ temp_size = 0 /\ count = 0 /\ op = 0
    /\ rx_complete = 0 /\ tx_complete = 0 /\ tx_finish = 0
    /\ storage = [k \in Storage |-> Plain(0)]
    /\ ier = {} /\ tx_reg0 = "BUSY" /\ rx_reg0 = "none"
    /\ rxfifo = <<>> /\ txfifo = <<>> /\ dma_req = FALSE /\ dma = NoDma
    /\ recovering = FALSE /\ crossed = FALSE

-----------------------------------------------------------------------------
(* What the slave's controller asks for. *)

RxAvail == spc # "off" /\ "RXAVAIL" \in ier /\ rxfifo # <<>>
TxEmpty == spc # "off" /\ "TXFIFO_EMPTY" \in ier /\ txfifo = <<>>
DmaRequest == /\ dma_req /\ dma.n < temp_size
              /\ \/ dma.dir = "rx" /\ rxfifo # <<>>
                 \/ dma.dir = "tx" /\ Len(txfifo) < FIFO_SIZE

-----------------------------------------------------------------------------
(* The master. *)

\* A run is started from the menu.  Both buffers are cleared and the pattern
\* is made; what earlier runs left in the slave is no longer fresh.
Aged(c) == [c EXCEPT !.fresh = FALSE]

Begin_keeps_cmpr(t) ==
    /\ pc = "idle"
    /\ type' = t /\ i' = 0 /\ stat' = 0 /\ out' = <<>> /\ retry' = 0 /\ ret' = "none"
    /\ cmpr' = [k \in DOMAIN cmpr |-> Aged(cmpr[k])]
    /\ IF t = "reset"
         THEN pc' = "reset_en" /\ phase' = "reset"
         ELSE pc' = "ready" /\ phase' = "write"
    /\ storage' = [k \in Storage |-> Aged(storage[k])]
    /\ rxfifo' = [k \in DOMAIN rxfifo |-> Aged(rxfifo[k])]
    /\ txfifo' = [k \in DOMAIN txfifo |-> Aged(txfifo[k])]
    /\ UNCHANGED <<spc, soft, count, flags, ier, tx_reg0, rx_reg0,
                   dma_req, dma, hist>>

Begin(t) ==
    /\ pc = "idle"
    /\ type' = t /\ i' = 0 /\ stat' = 0 /\ out' = <<>> /\ retry' = 0 /\ ret' = "none"
    /\ cmpr' = Empty
    /\ IF t = "reset"
         THEN pc' = "reset_en" /\ phase' = "reset"
         ELSE pc' = "ready" /\ phase' = "write"
    /\ storage' = [k \in Storage |-> Aged(storage[k])]
    /\ rxfifo' = [k \in DOMAIN rxfifo |-> Aged(rxfifo[k])]
    /\ txfifo' = [k \in DOMAIN txfifo |-> Aged(txfifo[k])]
    /\ UNCHANGED <<spc, soft, count, flags, ier, tx_reg0, rx_reg0,
                   dma_req, dma, hist>>

\* sq_spi_slave_run returns r; its locals are gone, and after an error no one
\* looks at the compare buffer, which the next run clears.
Leave(r) ==
    /\ pc' = "idle" /\ ret' = r
    /\ i' = 0 /\ stat' = 0 /\ out' = <<>> /\ retry' = 0
    /\ cmpr' = IF r = "error" THEN Empty ELSE cmpr
    /\ type' = "normal" /\ phase' = "write"

\* The byte of the pattern at k; behind the pattern lies the compare buffer.
Pattern(k) == IF k < PATTERN_BUF_SIZE THEN Byte(k)
              ELSE Plain(cmpr[k - PATTERN_BUF_SIZE].b)

Command == IF phase = "write"
             THEN IF type = "normal" THEN CMD_WRITE ELSE CMD_DMAWR
             ELSE IF type = "normal" THEN CMD_READ ELSE CMD_DMARD

Header == <<Plain(Command), Plain(0), Plain(0),
            Plain(PATTERN_BUF_SIZE \div 256), Plain(PATTERN_BUF_SIZE % 256)>>

\* sq_spi_wait_slave_ready: READY goes on with the header, the exit command,
\* or, after a reset, ends the run.
Exiting == start = 0 \/ \E k \in DOMAIN rxfifo : rxfifo[k].b = CMD_EXIT

PollReady ==
    /\ pc = "ready"
    /\ \/ /\ tx_reg0 = "READY"
          /\ crossed' = (crossed \/ Exiting)
          /\ \/ phase = "reset" /\ Leave("reset")
             \/ /\ phase = "exit"
                /\ out' = <<Plain(CMD_EXIT)>> /\ pc' = "shift"
                /\ UNCHANGED <<type, phase, i, stat, retry, cmpr, ret>>
             \/ /\ phase \in {"write", "read"}
                /\ out' = Header /\ pc' = "shift" /\ i' = 0
                /\ UNCHANGED <<type, phase, stat, retry, cmpr, ret>>
       \/ tx_reg0 # "READY" /\ retry > MaxRetry /\ Leave("error")
                /\ UNCHANGED crossed
       \/ /\ tx_reg0 # "READY" /\ retry <= MaxRetry
          /\ retry' = retry + 1
          /\ UNCHANGED <<pc, type, phase, i, stat, out, cmpr, ret, crossed>>
    /\ UNCHANGED <<spc, soft, count, flags, storage, hard, recovering>>

\* A byte of a transfer arrives in the slave's receive FIFO; a slave that is
\* not enabled does not hear it.  The handler keeps up with the wire.
Hears == spc # "off"

Shift ==
    /\ pc = "shift" /\ out # <<>>
    /\ RxAvail => Len(rxfifo) < Backlog
    /\ ~TxEmpty
    /\ out' = Tail(out)
    /\ rxfifo' = IF Hears THEN Append(rxfifo, Head(out)) ELSE rxfifo
    /\ UNCHANGED <<pc, type, phase, i, stat, retry, cmpr, ret, spc, soft,
                   count, flags, storage, ier, tx_reg0, rx_reg0,
                   txfifo, dma_req, dma, hist>>

\* The transfer is over: the next block, the next phase, or the comparison.
Next_phase == IF phase = "write" THEN "read" ELSE "exit"

Compare == IF \A k \in DOMAIN cmpr : cmpr[k].b = k % 256 THEN "pass" ELSE "fail"

Sent ==
    /\ pc = "shift" /\ out = <<>>
    /\ \/ phase = "exit" /\ Leave(Compare)
       \/ /\ phase \in {"write", "read"} /\ i < PATTERN_BUF_SIZE
          /\ pc' = "rdfs"
          /\ UNCHANGED <<type, phase, i, stat, out, retry, cmpr, ret>>
       \/ /\ phase \in {"write", "read"} /\ i >= PATTERN_BUF_SIZE
          /\ pc' = "ready" /\ retry' = 0 /\ phase' = Next_phase
          /\ UNCHANGED <<type, i, stat, out, cmpr, ret>>
    /\ UNCHANGED <<spc, soft, count, flags, storage, hard, hist>>

\* SQ_HW_CMD_RDFS: how many bytes the slave's FIFO has room for, or offers.
RxRoom_past_half ==
    IF rxfifo = <<>> THEN FIFO_SIZE
    ELSE IF Len(rxfifo) < FIFO_SIZE THEN Half ELSE 0

RxRoom == IF rxfifo = <<>> THEN FIFO_SIZE
          ELSE IF Len(rxfifo) < Half THEN Half ELSE 0

TxOffer == IF Len(txfifo) >= FIFO_SIZE THEN FIFO_SIZE
           ELSE IF Len(txfifo) >= Half THEN Half ELSE 0

ReadStatus ==
    /\ pc = "rdfs"
    /\ stat' = IF phase = "write" THEN RxRoom ELSE TxOffer
    /\ pc' = IF stat' = 0 THEN "rdfs" ELSE "block"
    /\ UNCHANGED <<type, phase, i, out, retry, cmpr, ret, spc, soft, count,
                   flags, storage, hard, hist>>

\* The block the status allowed, written or read.
WriteBlock ==
    /\ pc = "block" /\ phase = "write"
    /\ out' = [k \in 1 .. stat |-> Pattern(i + k - 1)]
    /\ i' = i + stat /\ pc' = "shift"
    /\ UNCHANGED <<type, phase, stat, retry, cmpr, ret, spc, soft, count,
                   flags, storage, hard, hist>>

ReadBlock ==
    /\ pc = "block" /\ phase = "read"
    /\ LET n == IF Len(txfifo) < stat THEN Len(txfifo) ELSE stat
       IN  /\ cmpr' = [k \in DOMAIN cmpr |->
                        IF k >= i /\ k < i + n THEN txfifo[k - i + 1] ELSE cmpr[k]]
           /\ txfifo' = SubSeq(txfifo, n + 1, Len(txfifo))
    /\ i' = i + stat /\ pc' = "shift"
    /\ UNCHANGED <<type, phase, stat, out, retry, ret, spc, soft, count, flags,
                   storage, ier, tx_reg0, rx_reg0, rxfifo, dma_req,
                   dma, hist>>

\* SQ_HW_CMD_WRREG_0: the reset test's two commands.
WriteReg(p, v, q) ==
    /\ pc = p
    /\ rx_reg0' = IF Hears THEN v ELSE rx_reg0
    /\ pc' = q /\ retry' = 0
    /\ UNCHANGED <<type, phase, i, stat, out, cmpr, ret, spc, soft, count, flags,
                   storage, ier, tx_reg0, rxfifo, txfifo, dma_req, dma, hist>>

PollResetEn ==
    /\ pc = "reseten"
    /\ \/ /\ tx_reg0 = "RESET_EN"
          /\ pc' = "reset"
          /\ UNCHANGED <<type, phase, i, stat, out, retry, cmpr, ret>>
       \/ tx_reg0 # "RESET_EN" /\ retry > MaxRetry /\ Leave("error")
       \/ /\ tx_reg0 # "RESET_EN" /\ retry <= MaxRetry
          /\ retry' = retry + 1
          /\ UNCHANGED <<pc, type, phase, i, stat, out, cmpr, ret>>
    /\ UNCHANGED <<spc, soft, count, flags, storage, hard, hist>>

\* sq_spi_transfer waits for an interrupt wherever it receives (each poll,
\* each block read) and where nine bytes do not fit its FIFO: the wait may
\* time out, and every caller returns.
Abort ==
    /\ \/ pc \in {"ready", "rdfs", "reseten"}
       \/ pc = "block" /\ phase = "read"
       \/ pc = "shift" /\ stat = FIFO_SIZE /\ phase = "write" /\ i > 0 /\ Len(out) = 1
    /\ Leave("error")
    /\ UNCHANGED <<spc, soft, count, flags, storage, hard, hist>>

Master == PollReady \/ Shift \/ Sent \/ ReadStatus \/ WriteBlock \/ ReadBlock
          \/ WriteReg("reset_en", "RESET_EN", "reseten") \/ PollResetEn
          \/ WriteReg("reset", "RESET", "ready")

-----------------------------------------------------------------------------
(* The slave's main program. *)

ProtocolReset_leaves_filling ==
    /\ rxfifo' = <<>> /\ txfifo' = <<>> /\ dma_req' = FALSE
    /\ ier' = {"RX_REG0", "RXAVAIL"}
    /\ count' = 0
    /\ rx_complete' = 1 /\ tx_finish' = 1 /\ UNCHANGED tx_complete

\* sq_spi_slave_protocol_reset: a soft reset, both FIFOs cleared, the
\* interrupts of an idle slave, and every flag set to end whatever wait the
\* main program is in.
ProtocolReset ==
    /\ rxfifo' = <<>> /\ txfifo' = <<>> /\ dma_req' = FALSE
    /\ ier' = {"RX_REG0", "RXAVAIL"}
    /\ count' = 0
    /\ rx_complete' = 1 /\ tx_complete' = 1 /\ tx_finish' = 1

\* protocol_run up to its READY.
SlaveStart ==
    /\ spc = "off"
    /\ start' = 1 /\ spc' = "ready" /\ op' = 0
    /\ storage' = [k \in Storage |-> Plain(0)]
    /\ ProtocolReset
    /\ tx_reg0' = "BUSY" /\ rx_reg0' = "none"
    /\ UNCHANGED <<master, state, command, temp_addr, temp_size, dma, hist>>

\* while (start): a data command is dispatched, otherwise the loop goes on.
Dispatch ==
    /\ spc = "loop" /\ start = 1 /\ state \in Data
    /\ op' = state /\ spc' = "clear"
    /\ UNCHANGED <<master, start, state, command, temp_addr, temp_size, count,
                   flags, storage, hard, hist>>

SlaveStop ==
    /\ spc = "loop" /\ start = 0
    /\ spc' = "off" /\ tx_reg0' = "BUSY"
    /\ UNCHANGED <<master, soft, count, flags, storage, ier, rx_reg0,
                   rxfifo, txfifo, dma_req, dma, hist>>

\* The first statements of the four handlers of a command.
Clear ==
    /\ spc = "clear"
    /\ IF op \in Reading
         THEN tx_complete' = 0 /\ tx_finish' = 0 /\ UNCHANGED rx_complete
         ELSE rx_complete' = 0 /\ UNCHANGED <<tx_complete, tx_finish>>
    /\ count' = IF op \in {CMD_WRITE, CMD_READ} THEN 0 ELSE count
    /\ spc' = CASE op = CMD_WRITE -> "arm" [] op = CMD_READ -> "fill" [] OTHER -> "dma"
    /\ UNCHANGED <<master, soft, storage, hard, hist>>

Enable(at, int, to) ==
    /\ spc = at
    /\ ier' = ier \cup {int} /\ spc' = to
    /\ UNCHANGED <<master, soft, count, flags, storage, tx_reg0, rx_reg0, rxfifo, txfifo, dma_req, dma, hist>>

\* sq_spi_slave_read fills the FIFO itself, without a bound on the time.
Fill ==
    /\ spc = "fill"
    /\ spc' = IF tx_complete = 1 THEN "empty" ELSE "put"
    /\ UNCHANGED <<master, soft, count, flags, storage, hard, hist>>

Put ==
    /\ spc = "put"
    /\ \/ /\ Len(txfifo) >= FIFO_SIZE
          /\ spc' = "fill" /\ UNCHANGED <<count, tx_complete, txfifo>>
       \/ /\ Len(txfifo) < FIFO_SIZE
          /\ txfifo' = Append(txfifo, storage[temp_addr + count])
          /\ count' = count + 1
          /\ IF temp_size = count' THEN tx_complete' = 1 /\ spc' = "fill"
                                   ELSE UNCHANGED <<tx_complete, spc>>
    /\ UNCHANGED <<master, soft, rx_complete, tx_finish, storage, ier, tx_reg0,
                   rx_reg0, rxfifo, dma_req, dma, hist>>

\* The DMA commands: the channel is programmed and enabled, then requests.
StartDma ==
    /\ spc = "dma"
    /\ dma' = [dir |-> IF op = CMD_DMAWR THEN "rx" ELSE "tx", n |-> 0]
    /\ dma_req' = TRUE /\ spc' = "wait"
    /\ UNCHANGED <<master, soft, count, flags, storage, ier, tx_reg0, rx_reg0, rxfifo, txfifo, hist>>

StopDma ==
    /\ spc = "undma"
    /\ dma' = NoDma /\ dma_req' = FALSE
    /\ spc' = IF op = CMD_DMAWR THEN "flush" ELSE "empty"
    /\ UNCHANGED <<master, soft, count, flags, storage, ier, tx_reg0, rx_reg0, rxfifo, txfifo, hist>>

\* sq_wait_for_int: the flag, or the time.  The 30 seconds are long for the
\* wire, the handler and the DMA engine: they run out only if the master has
\* stopped serving the command and nothing is left to be moved.
Serving == /\ pc \in {"rdfs", "block", "shift"}
           /\ phase \in {"write", "read"}

Waited == CASE spc = "wait" /\ op \in {CMD_WRITE, CMD_DMAWR} -> rx_complete
            [] spc = "wait" /\ op = CMD_DMARD               -> tx_complete
            [] OTHER                                        -> tx_finish

Wait ==
    /\ spc \in {"wait", "wait_empty"}
    /\ Waited = 1 \/ (~Serving /\ ~RxAvail /\ ~TxEmpty /\ ~DmaRequest)
    /\ spc' = IF spc = "wait" /\ op # CMD_WRITE THEN "undma" ELSE "flush"
    /\ UNCHANGED <<master, soft, count, flags, storage, hard, hist>>

\* What is left in the FIFOs is cleared.
Flush ==
    /\ spc = "flush"
    /\ rxfifo' = <<>>
    /\ txfifo' = IF op \in Reading THEN <<>> ELSE txfifo
    /\ spc' = "free"
    /\ UNCHANGED <<master, soft, count, flags, storage, ier, tx_reg0, rx_reg0, dma_req, dma, hist>>

Free ==
    /\ spc = "free"
    /\ state' = STA_CMD
    /\ spc' = IF op = CMD_WRITE THEN "ready" ELSE "rearm"
    /\ UNCHANGED <<master, start, command, temp_addr, temp_size, op, count,
                   flags, storage, hard, hist>>

\* The last statements of a command, and of the start.  After a reset the
\* handler may have announced READY before them and have begun a header.
Rearm ==
    /\ spc = "rearm"
    /\ ier' = ier \cup {"RXAVAIL"} /\ spc' = "ready"
    /\ crossed' = (crossed \/ state # STA_CMD)
    /\ UNCHANGED <<master, soft, count, flags, storage, tx_reg0, rx_reg0,
                   rxfifo, txfifo, dma_req, dma, recovering>>

Ready ==
    /\ spc = "ready"
    /\ tx_reg0' = "READY" /\ spc' = "loop" /\ op' = 0 /\ recovering' = FALSE
    /\ crossed' = (crossed \/ state # STA_CMD)
    /\ UNCHANGED <<master, start, state, command, temp_addr, temp_size, count, flags, storage, ier, rx_reg0,
                   rxfifo, txfifo, dma_req, dma>>

Main == Dispatch \/ SlaveStop \/ Clear \/ Enable("arm", "RXAVAIL", "wait")
        \/ Fill \/ Put \/ Enable("empty", "TXFIFO_EMPTY", "wait_empty")
        \/ StartDma \/ StopDma \/ Wait \/ Flush \/ Free
        \/ Rearm \/ Ready

-----------------------------------------------------------------------------
(* The interrupt handler, sq_spi_slave_protocol_isr: one section a call, in *)
(* this order.                                                              *)

\* sq_spi_slave_run_state: one byte of the header.
RunState ==
    LET b == Head(rxfifo).b
    IN  /\ rxfifo' = Tail(rxfifo)
        /\ command'   = IF state = STA_CMD THEN b ELSE command
        /\ start'     = IF state = STA_CMD /\ b = CMD_EXIT THEN 0 ELSE start
        /\ tx_reg0'   = IF state = STA_CMD /\ b \in Data THEN "BUSY" ELSE tx_reg0
        /\ temp_addr' = CASE state = STA_GET_ADDR_HI  -> 256 * b
                          [] state = STA_GET_ADDR_LOW -> temp_addr + b
                          [] OTHER                    -> temp_addr
        /\ temp_size' = CASE state = STA_GET_SIZE_HI  -> 256 * b
                          [] state = STA_GET_SIZE_LOW -> temp_size + b
                          [] OTHER                    -> temp_size
        /\ state' = CASE state = STA_CMD -> IF b \in Data THEN STA_GET_ADDR_HI
                                            ELSE STA_CMD
                      [] state = STA_GET_SIZE_LOW -> command
                      [] OTHER                    -> state + 1
        /\ ier' = IF state = STA_GET_SIZE_LOW THEN ier \ {"RXAVAIL"} ELSE ier

RxHeader ==
    /\ RxAvail /\ state \notin Data
    /\ RunState
    /\ UNCHANGED <<master, spc, count, op, flags, storage, rx_reg0,
                   txfifo, dma_req, dma, hist>>

\* The data of CMD_WRITE, until the FIFO is empty or the size is reached.
Taken == LET left == temp_size - count
         IN  IF left > 0 /\ left < Len(rxfifo) THEN left ELSE Len(rxfifo)

RxData_ends_early ==
    /\ RxAvail /\ state = CMD_WRITE
    /\ storage' = [k \in Storage |->
                     IF k >= temp_addr + count /\ k < temp_addr + count + Taken
                       THEN rxfifo[k - temp_addr - count + 1] ELSE storage[k]]
    /\ count' = count + Taken
    /\ rxfifo' = SubSeq(rxfifo, Taken + 1, Len(rxfifo))
    /\ rx_complete' = IF count' >= temp_size - 1 THEN 1 ELSE rx_complete
    /\ UNCHANGED <<master, spc, soft, tx_complete, tx_finish, ier, tx_reg0,
                   rx_reg0, txfifo, dma_req, dma, hist>>

RxData ==
    /\ RxAvail /\ state = CMD_WRITE
    /\ storage' = [k \in Storage |->
                     IF k >= temp_addr + count /\ k < temp_addr + count + Taken
                       THEN rxfifo[k - temp_addr - count + 1] ELSE storage[k]]
    /\ count' = count + Taken
    /\ rxfifo' = SubSeq(rxfifo, Taken + 1, Len(rxfifo))
    /\ rx_complete' = IF count' = temp_size THEN 1 ELSE rx_complete
    /\ UNCHANGED <<master, spc, soft, tx_complete, tx_finish, ier, tx_reg0,
                   rx_reg0, txfifo, dma_req, dma, hist>>

TxFinish ==
    /\ ~RxAvail /\ TxEmpty
    /\ ier' = ier \ {"TXFIFO_EMPTY"}
    /\ tx_finish' = 1
    /\ UNCHANGED <<master, spc, soft, count, rx_complete, tx_complete, storage,
                   tx_reg0, rx_reg0, rxfifo, txfifo, dma_req, dma, hist>>

Reg0 == spc # "off" /\ ~RxAvail /\ ~TxEmpty

ResetEn ==
    /\ Reg0 /\ rx_reg0 = "RESET_EN"
    /\ rx_reg0' = "none" /\ tx_reg0' = "RESET_EN"
    /\ UNCHANGED <<master, spc, soft, count, flags, storage, ier, rxfifo,
                   txfifo, dma_req, dma, hist>>

\* A reset that was not announced is refused.
ResetRefused ==
    /\ Reg0 /\ rx_reg0 = "RESET" /\ tx_reg0 # "RESET_EN"
    /\ rx_reg0' = "none"
    /\ UNCHANGED <<master, spc, soft, count, flags, storage, ier, tx_reg0,
                   rxfifo, txfifo, dma_req, dma, hist>>

\* In a header the handler itself makes the slave ready; in a data command
\* it only ends the main program's waits.  If the main program has not yet
\* cleared the flags of that command, their setting is lost.
Reset ==
    /\ Reg0 /\ rx_reg0 = "RESET" /\ tx_reg0 = "RESET_EN"
    /\ ProtocolReset
    /\ rx_reg0' = "none"
    /\ IF state \in Data
         THEN UNCHANGED <<state, tx_reg0>> /\ recovering' = TRUE
         ELSE state' = STA_CMD /\ tx_reg0' = "READY" /\ recovering' = FALSE
    /\ crossed' = (crossed \/ (state \in Data /\ spc \in {"loop", "clear"}))
    /\ UNCHANGED <<master, spc, start, command, temp_addr, temp_size, op,
                   storage, dma>>

Handler == RxHeader \/ RxData \/ TxFinish \/ ResetEn \/ ResetRefused
           \/ Reset

\* The DMA engine moves a byte; with the last one its page interrupt calls
\* the notifier, which sets the flag.
DmaMove ==
    /\ DmaRequest
    /\ \/ /\ dma.dir = "rx"
          /\ storage' = [storage EXCEPT ![temp_addr + dma.n] = Head(rxfifo)]
          /\ rxfifo' = Tail(rxfifo)
          /\ rx_complete' = IF dma.n + 1 = temp_size THEN 1 ELSE rx_complete
          /\ UNCHANGED <<txfifo, tx_complete>>
       \/ /\ dma.dir = "tx"
          /\ txfifo' = Append(txfifo, storage[temp_addr + dma.n])
          /\ tx_complete' = IF dma.n + 1 = temp_size THEN 1 ELSE tx_complete
          /\ UNCHANGED <<storage, rxfifo, rx_complete>>
    /\ dma' = [dma EXCEPT !.n = @ + 1]
    /\ UNCHANGED <<master, spc, soft, count, tx_finish, ier, tx_reg0, rx_reg0, dma_req, hist>>

-----------------------------------------------------------------------------
Operator == SlaveStart \/ \E t \in {"normal", "hdma", "reset"} : Begin(t)

\* The model ends where a reset or a new run has crossed the slave's main
\* program; see the comments at `crossed`.
Next == ~crossed /\ (Operator \/ Master \/ Abort \/ Main \/ Handler \/ DmaMove)

\* The processors of both boards run, interrupts are served, and the wire and
\* the DMA engine move bytes.  Nothing makes the operator start a run.
Fairness == /\ WF_vars(~crossed /\ Master) /\ WF_vars(~crossed /\ Main)
            /\ WF_vars(~crossed /\ Handler) /\ WF_vars(~crossed /\ DmaMove)

Spec == Init /\ [][Next]_vars /\ Fairness

-----------------------------------------------------------------------------
TypeOK ==
    /\ pc \in {"idle", "ready", "shift", "rdfs", "block", "reset_en", "reseten",
               "reset"}
    /\ type \in {"normal", "hdma", "reset"}
    /\ phase \in {"write", "read", "exit", "reset"}
    /\ i \in 0 .. PATTERN_BUF_SIZE + Half /\ stat \in {0, Half, FIFO_SIZE}
    /\ out \in Seq(Cells) /\ retry \in 0 .. MaxRetry + 1
    /\ cmpr \in [0 .. PATTERN_BUF_SIZE - 1 -> Cells]
    /\ ret \in {"none", "pass", "fail", "error", "reset"}
    /\ spc \in {"off", "loop", "clear", "arm", "fill", "put", "empty", "dma",
                "wait", "undma", "wait_empty", "flush", "free", "rearm", "ready"}
    /\ start \in 0 .. 1 /\ state \in States /\ command \in 0 .. 255
    /\ count \in 0 .. PATTERN_BUF_SIZE + Half /\ op \in Data \cup {0}
    /\ {rx_complete, tx_complete, tx_finish} \subseteq 0 .. 1
    /\ storage \in [Storage -> Cells]
    /\ ier \subseteq {"RX_REG0", "RXAVAIL", "TXFIFO_EMPTY"}
    /\ tx_reg0 \in {"BUSY", "READY", "RESET_EN"}
    /\ rx_reg0 \in {"none", "RESET_EN", "RESET"}
    /\ {dma_req, recovering, crossed} \subseteq BOOLEAN
    /\ rxfifo \in Seq(Cells) /\ txfifo \in Seq(Cells)
    /\ dma.dir \in {"off", "rx", "tx"} /\ dma.n \in 0 .. PATTERN_BUF_SIZE

\* A write and read-back that passes has compared bytes that this run wrote:
\* the slave keeps its storage, with the same pattern, across a run that was
\* cut short, so a write that was lost would otherwise go unnoticed.
PassIsReal ==
    pc = "idle" /\ ret = "pass" /\ ~crossed =>
        \A k \in DOMAIN cmpr : cmpr[k] = Byte(k)

\* The master never sends more than the receive FIFO has room for, whatever
\* the slave does between the status it read and the last byte of the block;
\* the handler has no section for the overrun interrupt it enables.
NoOverrun == ~crossed => Len(rxfifo) <= FIFO_SIZE

\* The handler is not called for bytes it leaves alone: in a data command
\* other than CMD_WRITE run_state does nothing, the bytes stay, and so would
\* the interrupt.
HandlerTakes == RxAvail /\ ~crossed => state \notin Data \ {CMD_WRITE}

\* What the slave executes is a header the master sent: bytes of the pattern,
\* and the half block it may send too much, are never taken for one.
HeaderIsExact ==
    state \in Data /\ ~crossed =>
        /\ temp_addr = 0 /\ temp_size = PATTERN_BUF_SIZE
        /\ Serving => state = Command

\* A run comes to its end: with the slave ready when the header was sent, the
\* loops over the FIFO status, which have no bound, get what they wait for.
RunReturns == pc # "idle" ~> (pc = "idle" \/ crossed)

\* A slave that is reset in the middle of a command becomes ready again, or
\* is reset once more, even in the loop of sq_spi_slave_read, which no
\* timeout ends.
ResetRecovers ==
    recovering ~> (~recovering \/ crossed \/ rx_reg0 = "RESET")

\* The flow control of the protocol holds on both sides of the FIFO.
FlowControl == TypeOK /\ NoOverrun /\ HandlerTakes

\* Neither side is left waiting for the other.
BothGoOn == RunReturns /\ ResetRecovers
=============================================================================
