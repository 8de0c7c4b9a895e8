-------------------------------- MODULE Hdma --------------------------------
(***************************************************************************)
(* The DMA service (src/DMA/dma.c), its PANTHER7 driver                    *)
(* (src/DMA/panther7-hdma.c) and the tests that use them:                  *)
(*   - "self": the controller's own memory-to-memory test, on one channel  *)
(*     (src/PANTHER7-HDMA/panther7-hdma-ctrl.c);                           *)
(*   - "pair": the UART and SPI loop-back tests, which run a transmit and  *)
(*     a receive channel at once (uart-ctrl.c with Tx = 0 and Rx = 1,      *)
(*     spi-master-ctrl.c with Tx = 1 and Rx = 0);                          *)
(*   - "slave": the SPI slave test (spi-slave-ctrl.c), which receives on   *)
(*     channel 0, then sends on channel 1, and returns early when a wait   *)
(*     times out.                                                          *)
(*                                                                         *)
(* A test is a script of calls: line is the next one of the current part   *)
(* of it, and step the next store or register access of the function that  *)
(* has been called.  The interrupt handler preempts the main thread        *)
(* between any two of them.  The two                                       *)
(* channels share one interrupt line and one status register, whose flags  *)
(* are cleared by writing 0 and unaffected by writing 1, so each           *)
(* read-modify-write of it is a read and a write.                          *)
(***************************************************************************)
EXTENDS Integers, Sequences, FiniteSets

CONSTANTS
    Clients,    \* the tests the user may start
    Tx, Rx,     \* the channels of "pair"
    Threshold   \* polls of the flag before sq_wait_for_int gives up

Chans == {0, 1}
Tests == {"self", "pair", "slave"}

ASSUME HdmaAssumption ==
    /\ Clients \subseteq Tests /\ Clients # {}
    /\ Tx \in Chans /\ Rx \in Chans /\ Tx # Rx
    /\ Threshold \in Nat

NULL == "NULL"
Kinds == {"complete", "page"}
AllFlags == Chans \X Kinds
FlagsOf(c) == {c} \X Kinds

VARIABLES
    lock, active, notifier, mode,   \* socle_dma_channel[]
    cdma, cisr,   \* panther7_hdma_shared_irq_container[].dma, .isr are set
    vec, IECR,    \* the shared line has a handler; it is enabled
    con,          \* hardware: per channel "off", "run" or "done"
    flags,        \* PANTHER7_HDMA_ISR: active flags
    mask,         \* PANTHER7_HDMA_ISR: masked channels
    tmp,          \* main thread: flags read by a read-modify-write
    isr, ich,     \* where the handler is, and in the service of which channel
    istat, itmp,  \* its int_stat, and the flags it read for the write back
    part, line,   \* main thread: the next call of the test's script
    step,         \* the next step of the function called, or "none"
    flag,         \* per client and channel: the transfer complete flag
    cur, ch,      \* the client that is running, and its (last) channel
    t,            \* polls made by the current wait
    leaked,       \* history: channels a test returned with and did not free
    expired       \* history: a wait of the "pair" has given up since it
                  \* requested its channels

chan   == <<lock, active, notifier, mode>>
shared == <<cdma, cisr, vec, IECR>>
hw     == <<con, flags, mask>>
irqcx  == <<isr, ich, istat, itmp>>
place  == <<part, line, step>>
client == <<flag, cur, ch, t, leaked, expired>>
vars   == <<chan, shared, hw, tmp, irqcx, place, client>>

Parts == {"idle", "enter", "menu", "run", "leave"}

Steps == {"none", "cdma", "cisr", "vec", "irqen",
          "unlock", "uncdma", "uncisr", "unvec", "irqdis",
          "unmaskrd", "unmaskwr", "start",
          "stop", "clearrd", "clearwr", "maskrd", "maskwr"}

TypeOK ==
    /\ lock \in [Chans -> BOOLEAN] /\ active \in [Chans -> BOOLEAN]
    /\ notifier \in [Chans -> Clients \cup {NULL}]
    /\ mode \in [Chans -> {"sw", "slice"}]
    /\ cdma \in [Chans -> BOOLEAN] /\ cisr \in [Chans -> BOOLEAN]
    /\ vec \in BOOLEAN /\ IECR \in BOOLEAN
    /\ con \in [Chans -> {"off", "run", "done"}]
    /\ flags \subseteq AllFlags /\ mask \subseteq Chans
    /\ tmp \subseteq AllFlags
    /\ isr \in {"none", "read", "reread", "write", "notify"} /\ ich \in Chans
    /\ istat \subseteq AllFlags /\ itmp \subseteq AllFlags
    /\ part \in Parts /\ line \in 1 .. 13 /\ step \in Steps
    /\ flag \in [Clients -> [Chans -> {0, 1}]]
    /\ cur \in Clients \cup {NULL} /\ ch \in Chans /\ t \in 0 .. Threshold
    /\ leaked \subseteq Chans /\ expired \in BOOLEAN

Init ==
    /\ lock = [c \in Chans |-> FALSE] /\ active = [c \in Chans |-> FALSE]
    /\ notifier = [c \in Chans |-> NULL] /\ mode = [c \in Chans |-> "sw"]
    /\ cdma = [c \in Chans |-> FALSE] /\ cisr = [c \in Chans |-> FALSE]
    /\ vec = FALSE /\ IECR = FALSE
    /\ con = [c \in Chans |-> "off"] /\ flags = {} /\ mask = {}
    /\ tmp = {} /\ isr = "none" /\ ich = 0 /\ istat = {} /\ itmp = {}
    /\ part = "idle" /\ line = 1 /\ step = "none"
    /\ flag = [cl \in Clients |-> [c \in Chans |-> 0]]
    /\ cur = NULL /\ ch = 0 /\ t = 0 /\ leaked = {} /\ expired = FALSE

(***************************************************************************)
(* The tests: what they call, in three parts                               *)
(***************************************************************************)
\* panther7_hdma_channel_0_test and _1_test; sq_uart_hwdma_panther7_hdma_test
\* and sq_spi_internal_hdma_test; sq_spi_slave_pure_hdma_run, whose channels
\* are fixed.
Enter(cl, c) ==
    CASE cl = "self"  -> <<<<"request", c>>>>
      [] cl = "pair"  -> <<<<"request", Tx>>, <<"request", Rx>>>>
      [] cl = "slave" -> <<<<"request", 0>>, <<"request", 1>>>>

Leave(cl, c) ==
    CASE cl = "self"  -> <<<<"disable", c>>, <<"free", c>>>>
      [] cl = "pair"  -> <<<<"disable", Tx>>, <<"disable", Rx>>,
                           <<"free", Tx>>, <<"free", Rx>>>>
      [] cl = "slave" -> <<<<"free", 0>>, <<"free", 1>>>>

\* The self test with the reset, or the fill, in the wrong place.
RunSelf_reset_first(c) ==
    <<<<"reset", c>>, <<"disable", c>>, <<"setup", c>>, <<"fill", c>>,
      <<"enable", c>>, <<"wait", c>>>>

RunSelf_reset_late(c) ==
    <<<<"disable", c>>, <<"setup", c>>, <<"fill", c>>, <<"enable", c>>,
      <<"reset", c>>, <<"wait", c>>>>

RunSelf_fill_first(c) ==
    <<<<"fill", c>>, <<"disable", c>>, <<"setup", c>>, <<"reset", c>>,
      <<"enable", c>>, <<"wait", c>>>>

\* panther7_hdma_software_dma_tranfer; sq_uart_hwdma_panther7_hdma and
\* sq_spi_master_internal_hdma_run, which reset the flag and fill the
\* buffers before they disable the channels; the run of the slave.
RunSelf(c) ==
    <<<<"disable", c>>, <<"setup", c>>, <<"fill", c>>, <<"reset", c>>,
      <<"enable", c>>, <<"wait", c>>>>

RunPair ==
    <<<<"reset", Rx>>, <<"fill", Rx>>, <<"disable", Tx>>, <<"setup", Tx>>,
      <<"disable", Rx>>, <<"setup", Rx>>, <<"enable", Tx>>, <<"enable", Rx>>,
      <<"wait", Rx>>>>

RunSlave ==
    <<<<"disable", 0>>, <<"disable", 1>>, <<"reset", 0>>, <<"fill", 0>>,
      <<"setup", 0>>, <<"setup", 1>>, <<"enable", 0>>, <<"wait", 0>>,
      <<"disable", 0>>, <<"enable", 1>>, <<"wait", 1>>, <<"disable", 1>>,
      <<"sent", 1>>>>

Run(cl, c) ==
    CASE cl = "self"  -> RunSelf(c)
      [] cl = "pair"  -> RunPair
      [] cl = "slave" -> RunSlave

Script == CASE part = "enter" -> Enter(cur, ch)
            [] part = "run"   -> Run(cur, ch)
            [] part = "leave" -> Leave(cur, ch)

\* The user runs a test as often as he likes before he leaves it; the slave
\* test has no menu.
NextPart == IF part = "leave" THEN "idle"
            ELSE IF cur # "slave" THEN "menu"
            ELSE IF part = "enter" THEN "run" ELSE "leave"

(***************************************************************************)
(* Contexts                                                                *)
(***************************************************************************)
Pending == IECR /\ \E f \in flags : f[1] \notin mask

\* The main thread moves while no handler runs and none is due.
Main == isr = "none" /\ ~Pending /\ UNCHANGED irqcx

\* The main thread is at the call of op for channel c, or, within a call
\* for c, at step s.
At(op, c) ==
    /\ part \in {"enter", "run", "leave"} /\ step = "none"
    /\ Script[line] = <<op, c>>

In(s, c) ==
    /\ part \in {"enter", "run", "leave"} /\ step = s
    /\ Script[line][2] = c

\* It goes on with step s of the call, or with the next call.
Go(s) ==
    /\ step' = s
    /\ IF s # "none" THEN UNCHANGED <<part, line>>
       ELSE IF line < Len(Script) THEN line' = line + 1 /\ UNCHANGED part
       ELSE line' = 1 /\ part' = NextPart

Call(op, c, s)    == Main /\ At(op, c) /\ Go(s)
Do(s, c, s2) == Main /\ In(s, c) /\ Go(s2)

(***************************************************************************)
(* dma.c and panther7-hdma.c, main thread                                  *)
(***************************************************************************)
\* sq_request_dma: take the lock or return busy, then
\* panther7_hdma_request_irq fills the container and requests the line.
sq_request_dma(c) ==
    /\ Call("request", c, IF lock[c] THEN "none" ELSE "cdma")
    /\ lock' = [lock EXCEPT ![c] = TRUE]
    /\ active' = [active EXCEPT ![c] = lock[c] /\ active[c]]
    /\ notifier' = [notifier EXCEPT ![c] = IF lock[c] THEN @ ELSE cur]
    /\ UNCHANGED <<mode, shared, hw, tmp, client>>

panther7_hdma_request_irq(c) ==
    /\ \/ Do("cdma", c, "cisr") /\ cdma' = [cdma EXCEPT ![c] = TRUE]
          /\ UNCHANGED <<cisr, vec, IECR>>
       \/ Do("cisr", c, "vec") /\ cisr' = [cisr EXCEPT ![c] = TRUE]
          /\ UNCHANGED <<cdma, vec, IECR>>
       \/ Do("vec", c, "irqen") /\ vec' = TRUE
          /\ UNCHANGED <<cdma, cisr, IECR>>
       \/ Do("irqen", c, "none") /\ IECR' = TRUE
          /\ UNCHANGED <<cdma, cisr, vec>>
    /\ UNCHANGED <<chan, hw, tmp, client>>

\* sq_free_dma: an active channel is disabled first; then the lock and the
\* notifier, the container and the shared line are given up in this order.
sq_free_dma(c) ==
    /\ Call("free", c, IF active[c] THEN "stop"
                       ELSE IF lock[c] THEN "unlock" ELSE "none")
    /\ UNCHANGED <<chan, shared, hw, tmp, client>>

Unlock(c) ==
    /\ Do("unlock", c, "uncdma")
    /\ active' = [active EXCEPT ![c] = FALSE]
    /\ lock' = [lock EXCEPT ![c] = FALSE]
    /\ notifier' = [notifier EXCEPT ![c] = NULL]
    /\ leaked' = leaked \ {c}
    /\ UNCHANGED <<mode, shared, hw, tmp, flag, cur, ch, t, expired>>

panther7_hdma_free_irq(c) ==
    /\ \/ Do("uncdma", c, "uncisr") /\ cdma' = [cdma EXCEPT ![c] = FALSE]
          /\ UNCHANGED <<cisr, vec, IECR>>
       \/ Do("uncisr", c, "unvec") /\ cisr' = [cisr EXCEPT ![c] = FALSE]
          /\ UNCHANGED <<cdma, vec, IECR>>
       \/ Do("unvec", c, "irqdis") /\ vec' = FALSE
          /\ UNCHANGED <<cdma, cisr, IECR>>
       \/ Do("irqdis", c, "none") /\ IECR' = FALSE
          /\ UNCHANGED <<cdma, cisr, vec>>
    /\ UNCHANGED <<chan, hw, tmp, client>>

\* sq_enable_dma: nothing on a free or an active channel, else unmask and
\* start the channel.
sq_enable_dma(c) ==
    /\ Call("enable", c, IF lock[c] /\ ~active[c] THEN "unmaskrd" ELSE "none")
    /\ active' = [active EXCEPT ![c] = lock[c] \/ @]
    /\ UNCHANGED <<lock, notifier, mode, shared, hw, tmp, client>>

\* A disable that only looks at a channel that is running no more.
sq_disable_dma_skips(c) ==
    /\ Call("disable", c,
            IF lock[c] /\ active[c] /\ con[c] = "done" THEN "stop" ELSE "none")
    /\ active' = [active EXCEPT ![c] = ~lock[c] /\ @]
    /\ UNCHANGED <<lock, notifier, mode, shared, hw, tmp, client>>

\* sq_disable_dma: nothing on a free or an inactive channel.
sq_disable_dma(c) ==
    /\ Call("disable", c, IF lock[c] /\ active[c] THEN "stop" ELSE "none")
    /\ active' = [active EXCEPT ![c] = ~lock[c] /\ @]
    /\ UNCHANGED <<lock, notifier, mode, shared, hw, tmp, client>>

\* The read of the status register by a read-modify-write.
ReadStatus(c) ==
    /\ \/ Do("unmaskrd", c, "unmaskwr")
       \/ Do("clearrd", c, "clearwr")
       \/ Do("maskrd", c, "maskwr")
    /\ tmp' = flags
    /\ UNCHANGED <<chan, shared, hw, client>>

\* The write back: a flag written as 0 is cleared.
panther7_hdma_enable(c) ==
    /\ \/ /\ Do("unmaskwr", c, "start")
          /\ flags' = flags \cap tmp
          /\ mask' = mask \ {c}
          /\ UNCHANGED con
       \/ /\ Do("start", c, "none")
          /\ con' = [con EXCEPT ![c] = "run"]
          /\ UNCHANGED <<flags, mask>>
    /\ UNCHANGED <<chan, shared, tmp, client>>

\* Stop the channel, clear its flags, mask it; sq_free_dma goes on then.
panther7_hdma_disable(c) ==
    /\ \/ /\ Do("stop", c, "clearrd")
          /\ con' = [con EXCEPT ![c] = "off"]
          /\ UNCHANGED <<flags, mask>>
       \/ /\ Do("clearwr", c, "maskrd")
          /\ flags' = (flags \cap tmp) \ FlagsOf(c)
          /\ UNCHANGED <<con, mask>>
       \/ /\ Do("maskwr", c, IF Script[line][1] = "free" /\ lock[c]
                                THEN "unlock" ELSE "none")
          /\ flags' = flags \cap tmp
          /\ mask' = mask \cup {c}
          /\ UNCHANGED con
    /\ UNCHANGED <<chan, shared, tmp, client>>

(***************************************************************************)
(* The handler                                                             *)
(***************************************************************************)
\* irq_dispatch finds the handler; panther7_hdma_isr starts with channel 0.
irq_dispatch ==
    /\ isr = "none" /\ Pending /\ vec
    /\ isr' = "read" /\ ich' = 0
    /\ UNCHANGED <<chan, shared, hw, tmp, istat, itmp, place, client>>

\* After channel 0 comes channel 1; then the handler returns.
NextChannel ==
    /\ isr' = IF ich = 0 THEN "read" ELSE "none"
    /\ ich' = 1

\* panther7_hdma_isr: a channel without a container entry is passed over;
\* else its isr reads the channel's flags.
IsrRead ==
    /\ isr = "read"
    /\ \/ /\ ~cdma[ich]
          /\ NextChannel
          /\ UNCHANGED istat
       \/ /\ cdma[ich] /\ cisr[ich]
          /\ istat' = flags \cap FlagsOf(ich)
          /\ isr' = "reread" /\ UNCHANGED ich
    /\ UNCHANGED <<chan, shared, hw, tmp, itmp, place, client>>

IsrReread ==
    /\ isr = "reread" /\ isr' = "write"
    /\ itmp' = flags
    /\ UNCHANGED <<chan, shared, hw, tmp, ich, istat, place, client>>

\* A handler that writes the status back without clearing its flags.
IsrWrite_no_clear ==
    /\ isr = "write" /\ isr' = "notify"
    /\ flags' = flags \cap itmp
    /\ UNCHANGED <<chan, shared, con, mask, tmp, ich, istat, itmp, place,
                   client>>

IsrWrite ==
    /\ isr = "write" /\ isr' = "notify"
    /\ flags' = flags \cap (itmp \ istat)
    /\ UNCHANGED <<chan, shared, con, mask, tmp, ich, istat, itmp, place,
                   client>>

\* The callbacks: the self test registers complete, the loop-back tests
\* page_interrupt; each stores 1 in the flag of its channel.
Watched(cl) == IF cl = "self" THEN "complete" ELSE "page"

IsrNotify ==
    /\ isr = "notify"
    /\ IF istat = {} THEN UNCHANGED flag
       ELSE /\ notifier[ich] # NULL
            /\ flag' = IF <<ich, Watched(notifier[ich])>> \in istat
                         THEN [flag EXCEPT ![notifier[ich]][ich] = 1]
                         ELSE flag
    /\ NextChannel
    /\ UNCHANGED <<chan, shared, hw, tmp, istat, itmp, place, cur, ch,
                   t, leaked, expired>>

Handler == irq_dispatch \/ IsrRead \/ IsrReread \/ IsrWrite \/ IsrNotify

\* The hardware (external): a running channel finishes and raises complete,
\* in slice mode the page interrupt as well.
Finish(c) ==
    /\ con[c] = "run"
    /\ con' = [con EXCEPT ![c] = "done"]
    /\ flags' = flags \cup (IF mode[c] = "slice" THEN FlagsOf(c)
                            ELSE {<<c, "complete">>})
    /\ UNCHANGED <<chan, shared, mask, tmp, irqcx, place, client>>

(***************************************************************************)
(* The calls of the tests                                                  *)
(***************************************************************************)
Begin(cl, c) ==
    /\ Main /\ part = "idle"
    /\ part' = "enter" /\ line' = 1 /\ step' = "none"
    /\ cur' = cl /\ ch' = c /\ expired' = FALSE
    /\ UNCHANGED <<chan, shared, hw, tmp, flag, t, leaked>>

Menu ==
    /\ Main /\ part = "menu"
    /\ part' \in {"run", "leave"} /\ line' = 1 /\ step' = "none"
    /\ UNCHANGED <<chan, shared, hw, tmp, client>>

\* The sq_set_dma_* calls of the test.
Setup(c) ==
    /\ Call("setup", c, "none")
    /\ mode' = [mode EXCEPT ![c] = IF cur = "self" THEN "sw" ELSE "slice"]
    /\ UNCHANGED <<lock, active, notifier, shared, hw, tmp, client>>

\* memset of both buffers and the new test pattern.
Fill(c) ==
    /\ Call("fill", c, "none")
    /\ UNCHANGED <<chan, shared, hw, tmp, client>>

Reset(c) ==
    /\ Call("reset", c, "none")
    /\ flag' = [flag EXCEPT ![cur] = [d \in Chans |-> 0]]
    /\ UNCHANGED <<chan, shared, hw, tmp, cur, ch, t, leaked, expired>>

\* The slave test returns -1 and leaves the channels it holds as they are.
Return ==
    /\ part' = "idle" /\ line' = 1 /\ step' = "none"
    /\ leaked' = {d \in Chans : notifier[d] = cur}

\* sq_wait_for_int on the flag of channel c, and what the test does then:
\* the slave gives up when its wait for channel 0 times out.
sq_wait_for_int(c) ==
    /\ Main /\ At("wait", c)
    /\ \/ /\ flag[cur][c] = 1
          /\ flag' = [flag EXCEPT ![cur][c] = 0] /\ t' = 0
          /\ Go("none") /\ UNCHANGED <<leaked, expired>>
       \/ /\ flag[cur][c] # 1 /\ t >= Threshold
          /\ t' = 0 /\ expired' = (expired \/ cur = "pair")
          /\ UNCHANGED flag
          /\ IF cur = "slave" /\ c = 0 THEN Return
             ELSE Go("none") /\ UNCHANGED leaked
       \/ /\ flag[cur][c] # 1 /\ t < Threshold
          /\ t' = t + 1 /\ UNCHANGED <<flag, leaked, expired, place>>
    /\ UNCHANGED <<chan, shared, hw, tmp, cur, ch>>

\* The slave's wait for its FIFO to run empty, which the SPI interrupt
\* reports, or does not.
WaitSent(c) ==
    /\ Main /\ At("sent", c)
    /\ Return \/ (Go("none") /\ UNCHANGED leaked)
    /\ UNCHANGED <<chan, shared, hw, tmp, flag, cur, ch, t, expired>>

Driver(c) ==
    \/ sq_request_dma(c) \/ panther7_hdma_request_irq(c)
    \/ sq_free_dma(c) \/ Unlock(c) \/ panther7_hdma_free_irq(c)
    \/ sq_enable_dma(c) \/ sq_disable_dma(c) \/ ReadStatus(c)
    \/ panther7_hdma_enable(c) \/ panther7_hdma_disable(c)

Test(c) == Setup(c) \/ Fill(c) \/ Reset(c) \/ sq_wait_for_int(c)
           \/ WaitSent(c)

User ==
    \/ \E cl \in Clients, c \in Chans :
         (cl = "pair" => c = Rx) /\ (cl = "slave" => c = 1) /\ Begin(cl, c)
    \/ Menu

Next ==
    \/ User
    \/ \E c \in Chans : Driver(c) \/ Test(c) \/ Finish(c)
    \/ Handler

\* The processor runs; the user and the transfers are free to do nothing.
Spec ==
    /\ Init /\ [][Next]_vars
    /\ WF_vars(\E c \in Chans : Driver(c) \/ Test(c))
    /\ WF_vars(Handler)

(***************************************************************************)
(* Properties                                                              *)
(***************************************************************************)
Waiting(c) == At("wait", c)

\* A set flag ends the wait of test cl only when the transfer that was
\* started last has finished.
Current(cl) ==
    \A c \in Chans :
        cur = cl /\ Waiting(c) /\ flag[cl][c] = 1 => con[c] = "done"

\* In the tests that disable their channels before they reset the flags, a
\* completion left over from a transfer that timed out is never taken for
\* that of the next one, whatever tests and time-outs came before.
CompletionIsCurrent == Current("self") /\ Current("slave")

\* The same of the loop-back tests, which reset the flags first.
PairCompletionIsCurrent == Current("pair")

\* The end of a transfer is never lost, where one channel runs at a time
\* and none has been left behind running: while the test waits for channel
\* c and it is done, the flag is set or the interrupt that sets it is due.
NoLostCompletion ==
    cur # "pair" /\ leaked = {} =>
      \A c \in Chans : Waiting(c) /\ con[c] = "done" =>
        \/ flag[cur][c] = 1
        \/ <<c, Watched(cur)>> \in flags
        \/ isr # "none" /\ ich = c /\ <<c, Watched(cur)>> \in istat

\* The channels whose buffers are filled, and written by a transfer, before
\* one of them is waited for.
Filled(c) == IF cur = "slave" THEN Chans ELSE {c}

\* No test fills its buffers while a transfer is still running on them, but
\* the loop-back tests, which fill before they disable: their receive channel
\* may still be writing, although only if a wait of the same visit has given
\* up, or if the slave test has left it behind.  (Their transmit channel, for
\* which they never wait, is not looked at.)
FillsQuietBuffers ==
    \A c \in Chans : At("fill", c) =>
      \A d \in Filled(c) : con[d] = "run" =>
        cur = "pair" /\ (expired \/ d \in leaked)

\* The handler never calls through a NULL isr or notifier: the container
\* entry, the notifier and the line are set up and given up in an order
\* that no interrupt can fall into, even around channels a test has left
\* behind.
NoNullCall ==
    /\ isr = "read" /\ cdma[ich] => cisr[ich]
    /\ isr = "notify" /\ istat # {} => notifier[ich] # NULL

\* An interrupt is never left without a handler, which would stop the main
\* thread for good.
LineIsHandled == Pending => vec

\* Freeing one channel gives up the line of both, and yet no interrupt is
\* left without a handler as long as no test has left channels behind.
NoStorm == leaked = {} => LineIsHandled

\* While a test waits for a channel, the channel is its own, although it
\* ignores the result of sq_request_dma: the notifier is the test's, and
\* the container and the line deliver to it.
OwnsChannel ==
    \A c \in Chans : leaked = {} /\ Waiting(c) =>
        notifier[c] = cur /\ cdma[c] /\ cisr[c] /\ vec /\ IECR

\* Every run ends: the user gets the menu back, unless the machine stopped
\* for the channels a test had left behind.
MenuReturns == []<>(part \in {"menu", "idle"} \/ leaked # {})

\* Two channels, and tests that know nothing of each other, share one line,
\* one container and one pair of locks: the handler finds what it calls,
\* no interrupt is left without it, and a test has the channel it waits
\* for, in every sequence of tests.
SharingIsSafe == TypeOK /\ NoNullCall /\ NoStorm /\ OwnsChannel
=============================================================================
