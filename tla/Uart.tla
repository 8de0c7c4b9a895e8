-------------------------------- MODULE Uart --------------------------------
(***************************************************************************)
(* The interrupt-driven loop-back test of a UART, src/UART/uart-ctrl.c:    *)
(* sq_uart_normal with sq_uart_set_baudrate and sq_uart_init_environment   *)
(* before it, and the handler sq_uart_isr.  The bytes of the pattern go    *)
(* through the transmit FIFO, the shift register and the line into the     *)
(* receive FIFO.  The controller (a 16550) and the line are external.      *)
(*                                                                         *)
(* A run that times out returns with the interrupts on: what it had begun  *)
(* goes on, and may go on into the next run, or into free_irq.  `late'     *)
(* records that.                                                           *)
(***************************************************************************)
EXTENDS Session, SequencesExt

CONSTANTS
    PATTERN_BUF_SIZE,
    SQ_UART_FIFO_SIZE,
    TriggerLevel        \* SQ_UART_FCR_THRESH_8

ASSUME UartAssumption ==
    /\ PATTERN_BUF_SIZE \in Nat \ {0} /\ SQ_UART_FIFO_SIZE \in Nat \ {0}
    /\ PATTERN_BUF_SIZE % SQ_UART_FIFO_SIZE = 0
    /\ TriggerLevel \in 1 .. SQ_UART_FIFO_SIZE

N    == PATTERN_BUF_SIZE
None == -1
Bad  == -2              \* a byte that the line has changed
Bytes == 0 .. N - 1 \cup {Bad}

\* The line of this board, and whether a pattern takes less time than the
\* wait (it does not at 1200 baud and below).
Lines == {l \in [line : {"good", "noisy", "open"}, fast : BOOLEAN] :
            l.line = "good" \/ l.fast}

VARIABLES
    uopt,
    pidx, cidx,         \* sq_uart_pattern_buf_idx, sq_uart_cmpr_buf_idx
    pat,                \* the pattern has been made
    cmpr,               \* sq_uart_cmpr_buf
    ier, dlab,          \* the interrupts are on; the divisor is addressed
    tx, sh, rx,         \* FIFOs and shift register
    tbe, err, to,       \* causes: transmit buffer empty, line status, time-out
    late,               \* history: see above
    lost                \* history: "full", a byte written to a full FIFO;
                        \* "past", one from behind the buffer; "wild", an
                        \* access of the divisor, or behind the other buffer

buffers == <<pidx, cidx, pat, cmpr>>
causes  == <<tbe, err, to>>
uart    == <<ier, dlab, tx, sh, rx, causes>>
uvars   == <<uopt, buffers, uart, late, lost>>

UartTypeOK ==
    /\ uopt \in Lines
    /\ pidx \in 0 .. N + SQ_UART_FIFO_SIZE - 1 /\ cidx \in 0 .. N
    /\ pat \in BOOLEAN
    /\ cmpr \in [0 .. N - 1 -> Bytes]
    /\ ier \in BOOLEAN /\ dlab \in BOOLEAN
    /\ tx \in BoundedSeq(Bytes, SQ_UART_FIFO_SIZE)
    /\ rx \in BoundedSeq(Bytes, SQ_UART_FIFO_SIZE)
    /\ sh \in Bytes \cup {None}
    /\ tbe \in BOOLEAN /\ err \in BOOLEAN /\ to \in BOOLEAN
    /\ late \in BOOLEAN /\ lost \in SUBSET {"full", "past", "wild"}

Cleared == [i \in 0 .. N - 1 |-> 0]

UartInit ==
    /\ uopt \in Lines
    /\ pidx = 0 /\ cidx = 0 /\ pat = FALSE /\ cmpr = Cleared
    /\ ier = FALSE /\ dlab = FALSE /\ tx = <<>> /\ sh = None /\ rx = <<>>
    /\ tbe = FALSE /\ err = FALSE /\ to = FALSE
    /\ late = FALSE /\ lost = {}

Received == Len(rx) >= TriggerLevel
Line     == ier /\ (err \/ Received \/ to \/ tbe)
Quiet    == tx = <<>> /\ sh = None /\ rx = <<>> /\ ~tbe /\ ~err

UMain(from, to_) == Main("uart", Line, from, to_)
UKeep == UNCHANGED <<vec, iec>>

(***************************************************************************)
(* The main thread                                                         *)
(***************************************************************************)
\* sq_uart_0_test: interrupts off, IIR and LSR read, request_irq.
UartOpen ==
    /\ Request("uart", FALSE, "closed", "menu") /\ UNCHANGED flag
    /\ ier' = FALSE /\ tbe' = FALSE /\ err' = FALSE
    /\ UNCHANGED <<uopt, buffers, dlab, tx, sh, rx, to, late, lost>>

\* The end of sq_uart_0_test.
UartClose ==
    /\ Free("uart", Line, "menu", "closed")
    /\ UNCHANGED uvars

\* sq_uart_set_baudrate: while the divisor latch is addressed, the data
\* registers are not.
SetBaudrate ==
    /\ \/ UMain("menu", "latch") /\ dlab' = TRUE
          /\ late' = (late /\ ~Quiet)
          /\ lost' = IF Quiet THEN {} ELSE lost
       \/ UMain("latch", "reset") /\ dlab' = FALSE /\ UNCHANGED <<late, lost>>
    /\ UKeep
    /\ UNCHANGED <<flag, ret, uopt, buffers, ier, tx, sh, rx, causes>>

\* sq_uart_init_environment: the variables, ...
ResetVariables ==
    /\ UMain("reset", "clear") /\ UKeep
    /\ flag' = 0 /\ pidx' = 0 /\ cidx' = 0
    /\ UNCHANGED <<ret, uopt, pat, cmpr, uart, late, lost>>

\* ... the buffers and the interrupt that IIR shows, ...
ClearBuffers ==
    /\ UMain("clear", "fifo") /\ UKeep
    /\ pat' = FALSE /\ cmpr' = Cleared
    /\ tbe' = IF err \/ Received \/ to THEN tbe ELSE FALSE
    /\ UNCHANGED <<flag, ret, uopt, pidx, cidx, ier, dlab, tx, sh, rx, err,
                   to, late, lost>>

\* ... the FIFOs.  The byte in the shift register goes on.
ClearFifos ==
    /\ UMain("fifo", "pattern") /\ UKeep
    /\ tx' = <<>> /\ rx' = <<>> /\ to' = FALSE
    /\ UNCHANGED <<flag, ret, uopt, buffers, ier, dlab, sh, tbe, err, late,
                   lost>>

\* sq_uart_make_test_pattern.
MakePattern ==
    /\ UMain("pattern", "first") /\ UKeep
    /\ pat' = TRUE
    /\ UNCHANGED <<flag, ret, uopt, pidx, cidx, cmpr, uart, late, lost>>

\* The byte at an index of the pattern buffer, which the compare buffer
\* follows.
ByteAt(i) ==
    CASE i < N /\ pat         -> i
      [] i \in N .. 2 * N - 1 -> cmpr[i - N]
      [] OTHER                -> 0

\* A write of THR: of the bytes b, those the FIFO has no room for are lost.
Put(b) ==
    /\ tx' = SubSeq(tx \o b, 1, Min({Len(tx \o b), SQ_UART_FIFO_SIZE}))
    /\ lost' = lost \cup {x \in {"full"} : Len(tx \o b) > SQ_UART_FIFO_SIZE}
                     \cup {x \in {"past"} : pidx' > N}
    /\ tbe' = FALSE

\* The first byte: the index is stored before THR is written.
FirstByte ==
    /\ UKeep
    /\ \/ /\ UMain("first", "thr") /\ pidx' = pidx + 1
          /\ UNCHANGED <<tx, tbe, lost>>
       \/ /\ UMain("thr", "ier") /\ UNCHANGED pidx
          /\ Put(<<ByteAt(pidx - 1)>>)
    /\ UNCHANGED <<flag, ret, uopt, cidx, pat, cmpr, ier, dlab, sh, rx, err,
                   to, late>>

\* The write of IER.  TBE shows at once if the FIFO is empty.
EnableInts ==
    /\ UMain("ier", "wait") /\ UKeep
    /\ ier' = TRUE /\ tbe' = (tbe \/ (~ier /\ tx = <<>>))
    /\ UNCHANGED <<flag, ret, uopt, buffers, dlab, tx, sh, rx, err, to, late,
                   lost>>

\* The wait, and what follows it: the check of a flag that the wait has
\* just reset, and the comparison.
Timeout ==
    /\ GaveUp("uart", Line, "wait", "menu")
    /\ uopt.fast => Quiet
    /\ late' = (late \/ ~Quiet)
    /\ UNCHANGED <<uopt, buffers, uart, lost>>

Finish ==
    /\ \/ Waited("uart", Line, "wait", "compare") /\ UNCHANGED ret
       \/ /\ UMain("compare", "menu") /\ UKeep /\ UNCHANGED flag
          /\ ret' = IF flag # -1 /\ \A i \in 0 .. N - 1 : cmpr[i] = ByteAt(i)
                      THEN 0 ELSE -1
    /\ UNCHANGED uvars

UartMain ==
    \/ UartOpen \/ UartClose \/ SetBaudrate \/ ResetVariables \/ ClearBuffers
    \/ ClearFifos \/ MakePattern \/ FirstByte \/ EnableInts \/ Timeout
    \/ Finish

(***************************************************************************)
(* sq_uart_isr                                                             *)
(***************************************************************************)
UIsr(from, to_) ==
    /\ dev = "uart" /\ isr = from /\ isr' = to_
    /\ UNCHANGED <<dev, pc, vec, iec, ret, uopt, pat, ier, dlab, sh, late>>

UartEnter == Dispatch("uart", Line, "iir") /\ UNCHANGED uvars

\* A handler that answers an error without the read of LSR.
ReadIir_no_lsr ==
    /\ \/ err /\ UIsr("iir", "none") /\ flag' = -1 /\ UNCHANGED <<tbe, err>>
       \/ ~err /\ (Received \/ to) /\ UIsr("iir", "drain")
          /\ UNCHANGED <<flag, tbe, err>>
       \/ ~err /\ ~Received /\ ~to /\ tbe /\ UIsr("iir", "fill")
          /\ tbe' = FALSE /\ UNCHANGED <<flag, err>>
       \/ ~err /\ ~Received /\ ~to /\ ~tbe /\ UIsr("iir", "none")
          /\ UNCHANGED <<flag, tbe, err>>
    /\ UNCHANGED <<pidx, cidx, cmpr, tx, rx, to, lost>>

\* The top of the loop: IIR names the most urgent cause, and its read takes
\* TBE back if that is the one.  An error ends the handler.
ReadIir ==
    /\ \/ err /\ UIsr("iir", "none") /\ flag' = -1 /\ err' = FALSE
          /\ UNCHANGED tbe
       \/ ~err /\ (Received \/ to) /\ UIsr("iir", "drain")
          /\ UNCHANGED <<flag, tbe, err>>
       \/ ~err /\ ~Received /\ ~to /\ tbe /\ UIsr("iir", "fill")
          /\ tbe' = FALSE /\ UNCHANGED <<flag, err>>
       \/ ~err /\ ~Received /\ ~to /\ ~tbe /\ UIsr("iir", "none")
          /\ UNCHANGED <<flag, tbe, err>>
    /\ UNCHANGED <<pidx, cidx, cmpr, tx, rx, to, lost>>

\* One turn of the loop that reads RBR, and what follows it.  The read of LSR
\* takes back an error that has come up since IIR was read.  While the divisor
\* latch is addressed the FIFO is not emptied by it: no return.
Drain ==
    /\ \/ /\ rx # <<>> /\ ~dlab /\ cidx < N /\ UIsr("drain", "drain")
          /\ cmpr' = [cmpr EXCEPT ![cidx] = Head(rx)]
          /\ cidx' = cidx + 1 /\ rx' = Tail(rx) /\ to' = FALSE
          /\ UNCHANGED <<flag, lost>>
       \/ /\ rx # <<>> /\ (dlab \/ cidx = N) /\ UIsr("drain", "drain")
          /\ lost' = lost \cup {"wild"}
          /\ UNCHANGED <<flag, cidx, cmpr, rx, to>>
       \/ /\ rx = <<>>
          /\ \/ cidx = N /\ UIsr("drain", "none") /\ flag' = 1
             \/ cidx # N /\ UIsr("drain", "iir") /\ UNCHANGED flag
          /\ UNCHANGED <<cidx, cmpr, rx, to, lost>>
    /\ err' = FALSE
    /\ UNCHANGED <<pidx, tx, tbe>>

\* The transmit FIFO is empty: the first time one byte is out already.
Portion == IF pidx = 1 THEN SQ_UART_FIFO_SIZE - 1 ELSE SQ_UART_FIFO_SIZE

Fill ==
    /\ \/ pidx > N /\ UIsr("fill", "none") /\ flag' = -1
          /\ UNCHANGED <<pidx, tx, tbe, lost>>
       \/ pidx = N /\ UIsr("fill", "none")
          /\ UNCHANGED <<flag, pidx, tx, tbe, lost>>
       \/ /\ pidx < N /\ ~dlab /\ UIsr("fill", "iir")
          /\ pidx' = pidx + Portion /\ UNCHANGED flag
          /\ Put([i \in 1 .. Portion |-> ByteAt(pidx + i - 1)])
       \/ /\ pidx < N /\ dlab /\ UIsr("fill", "iir")
          /\ pidx' = pidx + Portion /\ lost' = lost \cup {"wild"}
          /\ UNCHANGED <<flag, tx, tbe>>
    /\ UNCHANGED <<cidx, cmpr, rx, err, to>>

UartHandler == UartEnter \/ ReadIir \/ Drain \/ Fill

(***************************************************************************)
(* The controller and the line (external)                                  *)
(***************************************************************************)
UDevice ==
    UNCHANGED <<session, uopt, buffers, ier, dlab, late, lost>>

Shift ==
    /\ tx # <<>> /\ sh = None /\ UDevice
    /\ sh' = Head(tx) /\ tx' = Tail(tx)
    /\ tbe' = (tbe \/ Len(tx) = 1)
    /\ UNCHANGED <<rx, err, to>>

\* The handler keeps up with the line; without it bytes overrun the FIFO.
Room == Len(rx) < SQ_UART_FIFO_SIZE

Deliver ==
    /\ sh # None /\ sh' = None /\ UDevice
    /\ \/ uopt.line # "open" /\ Room /\ rx' = Append(rx, sh) /\ UNCHANGED err
       \/ uopt.line # "open" /\ ~Room /\ ~(vec /\ iec /\ ier)
          /\ err' = TRUE /\ UNCHANGED rx
       \/ uopt.line = "open" /\ UNCHANGED <<rx, err>>
       \/ /\ uopt.line = "noisy" /\ Room /\ err' = TRUE
          /\ \E b \in {sh, Bad} : rx' = Append(rx, b)
    /\ UNCHANGED <<tx, tbe, to>>

\* Bytes below the trigger level show after a while.
CharTimeout ==
    /\ rx # <<>> /\ ~Received /\ sh = None /\ ~to /\ UDevice
    /\ to' = TRUE
    /\ UNCHANGED <<tx, sh, rx, tbe, err>>

UartDevice == Shift \/ Deliver \/ CharTimeout

(***************************************************************************)
(* Properties                                                              *)
(***************************************************************************)
\* A good line at a rate that fits the wait passes every run, whatever the
\* runs before it were: the two contexts and the FIFOs never lose a byte
\* or a wake-up, and no flag, index or byte of an earlier run is taken for
\* one of this run, unless that run was still going on.
GoodLinePasses ==
    uopt.line = "good" /\ uopt.fast /\ ~late => ret # -1

\* Every byte is written to a FIFO with room, between the ends of the
\* buffers and to the data register: never to the divisor latch, which has
\* the same address.
WritesInPlace == lost # {} => late

=============================================================================
