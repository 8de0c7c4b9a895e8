-------------------------------- MODULE Sdhc --------------------------------
(***************************************************************************)
(* The SD/MMC host driver, src/SDHC_HOST/socle-sdhc.c: the main thread     *)
(* issues one command at a time (socle_sdhc_send_command) and waits, with  *)
(* no bound, for cmd_done and, if the command has data, for tc; the        *)
(* handler (socle_sdhc_isr) reads the status register once and works       *)
(* through its bits in a fixed order, while the controller (external) may  *)
(* set more of them.  The main thread runs when no bit is pending.         *)
(*                                                                         *)
(* Of the error bits, DCRC stands for the data errors that are only        *)
(* printed, CCRC for the command errors that are only printed.             *)
(***************************************************************************)
EXTENDS Integers, Sequences, FiniteSets, SequencesExt

CONSTANTS
    MaxBlocks,     \* blocks of the longest transfer
    MaxPolls       \* COMMANDS_TIMEOUT

ASSUME SdhcAssumption == MaxBlocks \in Nat \ {0} /\ MaxPolls \in Nat

DmaModes == {"none", "sdma", "adma1", "adma2"}

\* What the caller puts into struct mmc_command: "busy" is MMC_RSP_R1B.
Commands ==
    [data : {"none"}, blocks : {0}, rsp : {"plain", "busy"}]
    \cup [data : {"read", "write"}, blocks : 1 .. MaxBlocks, rsp : {"plain"}]

\* The error bits, in the order in which socle_sdhc_check_err looks at them.
ErrorOrder == <<"DCRC", "DTO", "CCRC", "CTO">>
Errors     == Range(ErrorOrder)
Status     == Errors \cup {"CC", "BRR", "BWR", "TC", "DMA", "REM", "INS"}

\* The controllers and the transfers considered: does it report the end of
\* a transfer that fails, and does the buffer cross an SDMA boundary?
Options == [tcOnError : BOOLEAN, crosses : BOOLEAN]

VARIABLES
    opt,
    cmd, cmd_done, tc, err_flag, blk_idx, dma_mode, alive_flag,
    pc, polls, ret,     \* main thread
    irq,                \* the handler is registered
    isr, stat,          \* section the handler is in, its copy of the status
    status,             \* SRS12
    hw, left, rdy,      \* controller: phase, blocks to go, buffer enabled
    present,            \* a card is in the slot
    hwres,              \* history: how the card answered the last command
    lost                \* history: why a completion will never come

host   == <<cmd_done, tc, err_flag, blk_idx, alive_flag>>
main   == <<cmd, dma_mode, pc, polls, ret, irq>>
device == <<hw, left, rdy, present, hwres, lost>>
vars   == <<opt, host, main, isr, stat, status, device>>

TypeOK ==
    /\ opt \in Options
    /\ cmd \in Commands /\ cmd_done \in BOOLEAN /\ tc \in {0, 1}
    /\ err_flag \in BOOLEAN /\ blk_idx \in 0 .. MaxBlocks
    /\ dma_mode \in DmaModes /\ alive_flag \in BOOLEAN
    /\ pc \in {"idle", "busy", "prepare", "issue", "cmdwait", "tcwait"}
    /\ polls \in 0 .. MaxPolls /\ ret \in {0, -1} /\ irq \in BOOLEAN
    /\ isr \in {"none", "err", "cc", "brr", "read", "bwr", "write", "tc",
                "dma", "card"}
    /\ stat \subseteq Status /\ status \subseteq Status
    /\ hw \in {"idle", "cmd", "data", "busy"} /\ left \in 0 .. MaxBlocks
    /\ rdy \in BOOLEAN /\ present \in BOOLEAN
    /\ hwres \in {"pending", "ok", "bad", "timeout"}
    /\ lost \subseteq {"reset", "error", "boundary"}

Init ==
    /\ opt \in Options
    /\ cmd \in {c \in Commands : c.data = "none" /\ c.rsp = "plain"}
    /\ cmd_done = FALSE /\ tc = 0 /\ err_flag = FALSE /\ blk_idx = 0
    /\ dma_mode = "none" /\ alive_flag = FALSE
    /\ pc = "idle" /\ polls = 0 /\ ret = -1 /\ irq = FALSE
    /\ isr = "none" /\ stat = {} /\ status = {}
    /\ hw = "idle" /\ left = 0 /\ rdy = FALSE /\ present \in BOOLEAN
    /\ hwres = "ok" /\ lost = {}

(***************************************************************************)
(* The main thread                                                         *)
(***************************************************************************)
Pending == irq /\ status # {}

Main(from, to) ==
    /\ pc = from /\ pc' = to
    /\ isr = "none" /\ ~Pending
    /\ UNCHANGED <<opt, isr, stat>>

\* sdhc_sub_host_test: card_detect, socle_sdhc_host_initialize, which resets
\* the controller, and request_irq.
Begin ==
    /\ Main("idle", "idle")
    /\ alive_flag' = present
    /\ irq' = (irq \/ present)
    /\ IF present
         THEN status' = {} /\ hw' = "idle" /\ left' = 0 /\ rdy' = FALSE
         ELSE UNCHANGED <<status, hw, left, rdy>>
    /\ UNCHANGED <<cmd, dma_mode, polls, ret, cmd_done, tc, err_flag, blk_idx,
                   present, hwres, lost>>

\* The end of sdhc_sub_host_test, after its last command.
End ==
    /\ Main("idle", "idle")
    /\ irq /\ irq' = FALSE
    /\ UNCHANGED <<cmd, dma_mode, polls, ret, host, status, device>>

\* socle_sdhc_send_command, up to the loop that waits for the lines.
Send(c, d) ==
    /\ irq /\ alive_flag
    /\ Main("idle", "busy")
    /\ cmd' = c /\ dma_mode' = d
    /\ cmd_done' = FALSE /\ tc' = 0 /\ err_flag' = FALSE /\ polls' = 0
    /\ UNCHANGED <<ret, irq, blk_idx, alive_flag, status, device>>

\* The lines are in use and the card holds DAT0 low.
Inhibited == hw = "busy"

BusyWait ==
    /\ \/ ~Inhibited /\ Main("busy", "prepare") /\ polls' = 0
          /\ UNCHANGED ret
       \/ /\ Inhibited /\ polls < MaxPolls /\ Main("busy", "busy")
          /\ polls' = polls + 1 /\ UNCHANGED ret
       \/ /\ Inhibited /\ polls = MaxPolls /\ Main("busy", "idle")
          /\ ret' = -1 /\ polls' = 0
    /\ UNCHANGED <<cmd, dma_mode, irq, host, status, device>>

\* socle_sdhc_dma_prepare, of which socle_sdhc_adma_descriptor refuses every
\* block size of the tests in ADMA1 mode, and the transfer counters.
Prepare_forgets_blk_idx ==
    /\ \/ cmd.data = "none" /\ Main("prepare", "issue")
          /\ UNCHANGED <<tc, ret>>
       \/ /\ cmd.data # "none" /\ dma_mode # "adma1"
          /\ Main("prepare", "issue")
          /\ tc' = 1 /\ UNCHANGED ret
       \/ /\ cmd.data # "none" /\ dma_mode = "adma1"
          /\ Main("prepare", "idle")
          /\ tc' = 1 /\ ret' = -1
    /\ UNCHANGED <<cmd, dma_mode, polls, irq, cmd_done, err_flag, blk_idx,
                   alive_flag, status, device>>

Prepare ==
    /\ \/ cmd.data = "none" /\ Main("prepare", "issue")
          /\ UNCHANGED <<tc, blk_idx, ret>>
       \/ /\ cmd.data # "none" /\ dma_mode # "adma1"
          /\ Main("prepare", "issue")
          /\ tc' = 1 /\ blk_idx' = 0 /\ UNCHANGED ret
       \/ /\ cmd.data # "none" /\ dma_mode = "adma1"
          /\ Main("prepare", "idle")
          /\ tc' = 1 /\ ret' = -1 /\ UNCHANGED blk_idx
    /\ UNCHANGED <<cmd, dma_mode, polls, irq, cmd_done, err_flag, alive_flag,
                   status, device>>

\* The write of SRS3 starts the command.
Issue ==
    /\ Main("issue", "cmdwait")
    /\ hw' = "cmd" /\ left' = cmd.blocks /\ rdy' = FALSE /\ hwres' = "pending"
    /\ UNCHANGED <<cmd, dma_mode, polls, ret, irq, host, status, present, lost>>

\* The two loops without a bound, and the result.
Wait ==
    /\ \/ /\ cmd_done /\ cmd.data # "none" /\ Main("cmdwait", "tcwait")
          /\ UNCHANGED ret
       \/ /\ \/ cmd_done /\ cmd.data = "none" /\ Main("cmdwait", "idle")
             \/ tc = 0 /\ Main("tcwait", "idle")
          /\ ret' = IF err_flag THEN -1 ELSE 0
    /\ UNCHANGED <<cmd, dma_mode, polls, irq, host, status, device>>

Driver == BusyWait \/ Prepare \/ Issue \/ Wait

(***************************************************************************)
(* socle_sdhc_isr                                                          *)
(***************************************************************************)
Isr(from, to) ==
    /\ isr = from /\ isr' = to
    /\ stat' = IF to = "none" THEN {} ELSE stat
    /\ UNCHANGED <<opt, main>>

Enter ==
    /\ Pending
    /\ isr = "none" /\ isr' = "err"
    /\ stat' = status
    /\ UNCHANGED <<opt, main, host, status, device>>

\* socle_sdhc_dma_handle clears the DMA interrupt in the ADMA modes only.
DmaHandled(s) ==
    IF "DMA" \in s /\ cmd.data # "none" /\ dma_mode \in {"adma1", "adma2"}
      THEN {"DMA"} ELSE {}

\* A check that takes every error for a CRC error.
CheckErr_no_flag ==
    /\ Isr("err", "cc")
    /\ stat \cap Errors # {}
    /\ LET last == SelectLastInSeq(ErrorOrder, LAMBDA e : e \in status)
       IN  status' = (status \ {ErrorOrder[last]}) \ DmaHandled(stat)
    /\ UNCHANGED <<host, device>>

\* socle_sdhc_check_err reads the status again and clears the last of the
\* errors it finds; the time-outs alone set err_flag.
CheckErr ==
    /\ Isr("err", "cc")
    /\ stat \cap Errors # {}
    /\ err_flag' = (err_flag \/ status \cap {"DTO", "CTO"} # {})
    /\ LET last == SelectLastInSeq(ErrorOrder, LAMBDA e : e \in status)
       IN  status' = (status \ {ErrorOrder[last]}) \ DmaHandled(stat)
    /\ UNCHANGED <<cmd_done, tc, blk_idx, alive_flag, device>>

NoErr ==
    /\ Isr("err", "cc")
    /\ stat \cap Errors = {}
    /\ UNCHANGED <<host, status, device>>

\* A command that failed is not counted as done.
CommandComplete_unless_error ==
    /\ Isr("cc", "brr")
    /\ status' = status \ (stat \cap {"CC"})
    /\ cmd_done' = (cmd_done \/ ("CC" \in stat /\ ~err_flag))
    /\ UNCHANGED <<tc, err_flag, blk_idx, alive_flag, device>>

CommandComplete ==
    /\ Isr("cc", "brr")
    /\ status' = status \ (stat \cap {"CC"})
    /\ cmd_done' = (cmd_done \/ "CC" \in stat)
    /\ UNCHANGED <<tc, err_flag, blk_idx, alive_flag, device>>

\* There is nothing to move by the processor.
NoBuffer == cmd.data = "none" \/ blk_idx = cmd.blocks \/ dma_mode # "none"

\* BUFFER_READ_READY is cleared before the block is read.
ReadReady ==
    /\ \/ "BRR" \notin stat /\ Isr("brr", "bwr")
       \/ "BRR" \in stat /\ NoBuffer /\ Isr("brr", "none")
       \/ "BRR" \in stat /\ ~NoBuffer
          /\ Isr("brr", IF cmd.data = "read" THEN "read" ELSE "bwr")
    /\ status' = status \ (stat \cap {"BRR"})
    /\ UNCHANGED <<host, device>>

\* BUFFER_WRITE_READY likewise, unless there is nothing to write.
WriteReady ==
    /\ \/ "BWR" \notin stat /\ Isr("bwr", "tc") /\ UNCHANGED status
       \/ "BWR" \in stat /\ NoBuffer /\ Isr("bwr", "none")
          /\ UNCHANGED status
       \/ /\ "BWR" \in stat /\ ~NoBuffer
          /\ Isr("bwr", IF cmd.data = "write" THEN "write" ELSE "tc")
          /\ status' = status \ {"BWR"}
    /\ UNCHANGED <<host, device>>

\* socle_sdhc_host_trans_datablock: wait for the buffer, move a block.  The
\* loops after each word apply their mask to the address, not to the value:
\* on slots 0 to 2, which are meant here, they read HRS0 and fall through.
TransDatablock ==
    /\ Isr("read", "bwr") \/ Isr("write", "tc")
    /\ rdy /\ rdy' = FALSE
    /\ left' = left - 1
    /\ blk_idx' = blk_idx + 1
    /\ UNCHANGED <<cmd_done, tc, err_flag, alive_flag, status, hw,
                   present, hwres, lost>>

TransferComplete ==
    /\ \/ "TC" \notin stat /\ Isr("tc", "dma") /\ UNCHANGED <<tc, status>>
       \/ /\ "TC" \in stat /\ cmd.data = "none" /\ Isr("tc", "none")
          /\ status' = status \ {"TC"} /\ UNCHANGED tc
       \/ /\ "TC" \in stat /\ cmd.data # "none" /\ Isr("tc", "dma")
          /\ status' = (status \ {"TC"}) \ DmaHandled(stat)
          /\ tc' = 0
    /\ UNCHANGED <<cmd_done, err_flag, blk_idx, alive_flag, device>>

DmaInterrupt ==
    /\ Isr("dma", "card")
    /\ status' = status \ DmaHandled(stat)
    /\ UNCHANGED <<host, device>>

\* CARD_REMOVAL resets the command and data lines (device_deattach), which
\* ends what was going on there without an interrupt; CARD_INSERTION
\* switches the bus on (device_attach).
LineBits == {"CC", "BRR", "BWR", "TC", "DMA"}

CardDetect ==
    /\ Isr("card", "none")
    /\ alive_flag' = ((alive_flag /\ "REM" \notin stat) \/ "INS" \in stat)
    /\ IF "REM" \in stat
         THEN /\ status' = status \ (LineBits \cup {"REM"})
              /\ lost' = lost \cup
                   (IF hw \in {"cmd", "data"} \/ status \cap {"CC", "TC"} # {}
                      THEN {"reset"} ELSE {})
              /\ hw' = "idle" /\ left' = 0 /\ rdy' = FALSE
         ELSE status' = status \ (stat \cap {"INS"})
              /\ UNCHANGED <<hw, left, rdy, lost>>
    /\ UNCHANGED <<cmd_done, tc, err_flag, blk_idx, present, hwres>>

Handler ==
    \/ Enter \/ CheckErr \/ NoErr \/ CommandComplete \/ ReadReady
    \/ WriteReady \/ TransDatablock \/ TransferComplete \/ DmaInterrupt
    \/ CardDetect

(***************************************************************************)
(* The controller and the card (external)                                  *)
(***************************************************************************)
Device ==
    UNCHANGED <<opt, host, main, isr, stat>>

\* The card answers, or it does not; the controller raises CC either way,
\* as the time-outs that card identification relies on show.
Respond ==
    /\ hw = "cmd" /\ Device
    /\ \/ /\ present
          /\ status' = status \cup {"CC"}
          /\ hw' = CASE cmd.data # "none"  -> "data"
                     [] cmd.rsp  = "busy"  -> "busy"
                     [] OTHER              -> "idle"
          /\ hwres' = IF cmd.data = "none" THEN "ok" ELSE "pending"
          /\ UNCHANGED lost
       \/ \E e \in {{"CTO"}, {"CCRC"}, {"CTO", "CCRC"}} :
            /\ ~present => e = {"CTO"}
            /\ status' = status \cup e \cup {"CC"}
                 \cup (IF cmd.data # "none" /\ opt.tcOnError THEN {"TC"}
                       ELSE {})
            /\ lost' = IF cmd.data # "none" /\ ~opt.tcOnError
                         THEN lost \cup {"error"} ELSE lost
            /\ hwres' = IF "CTO" \in e THEN "timeout" ELSE "bad"
            /\ hw' = "idle"
    /\ UNCHANGED <<left, rdy, present>>

\* Data by the processor: the buffer is ready for the next block; by DMA:
\* the blocks are moved.  At a boundary SDMA waits for a new address.
MoveData ==
    /\ hw = "data" /\ left > 0 /\ present /\ Device
    /\ \/ /\ dma_mode = "none" /\ ~rdy /\ rdy' = TRUE
          /\ status' = status \cup {IF cmd.data = "read" THEN "BRR" ELSE "BWR"}
          /\ UNCHANGED <<left, lost>>
       \/ /\ dma_mode # "none" /\ left' = left - 1
          /\ ~(dma_mode = "sdma" /\ opt.crosses)
          /\ UNCHANGED <<rdy, status, lost>>
       \/ /\ dma_mode = "sdma" /\ opt.crosses /\ "DMA" \notin status
          /\ status' = status \cup {"DMA"} /\ lost' = lost \cup {"boundary"}
          /\ UNCHANGED <<left, rdy>>
    /\ UNCHANGED <<hw, present, hwres>>

DataEnd ==
    /\ hw = "data" /\ Device
    /\ \/ /\ left = 0 /\ status' = status \cup {"TC"} /\ hwres' = "ok"
          /\ UNCHANGED lost
       \/ \E e \in {"DTO", "DCRC"} :
            /\ ~present => e = "DTO"
            /\ status' = status \cup {e}
                                \cup (IF opt.tcOnError THEN {"TC"} ELSE {})
            /\ lost' = IF opt.tcOnError THEN lost ELSE lost \cup {"error"}
            /\ hwres' = IF e = "DTO" THEN "timeout" ELSE "bad"
    /\ hw' = "idle"
    /\ UNCHANGED <<left, rdy, present>>

BusyEnd ==
    /\ hw = "busy" /\ Device
    /\ hw' = "idle" /\ status' = status \cup {"TC"}
    /\ UNCHANGED <<left, rdy, present, hwres, lost>>

\* The detect switch is debounced: one event is served before the next.
Switch ==
    /\ status \cap {"REM", "INS"} = {} /\ Device
    /\ present' = ~present
    /\ status' = status \cup {IF present THEN "REM" ELSE "INS"}
    /\ UNCHANGED <<hw, left, rdy, hwres, lost>>

Answer == Respond \/ MoveData \/ DataEnd \/ BusyEnd

Next ==
    \/ Begin \/ End \/ \E c \in Commands, d \in DmaModes : Send(c, d)
    \/ Driver \/ Handler \/ Answer \/ Switch

\* The processor runs, and the controller answers every command.  The main
\* thread gets on between two events of the debounced switch, however many
\* there are.
Spec ==
    /\ Init /\ [][Next]_vars
    /\ SF_vars(Driver) /\ WF_vars(Handler) /\ WF_vars(Answer)

(***************************************************************************)
(* Properties                                                              *)
(***************************************************************************)
\* A command that is reported as done is done: the card has answered it in
\* time and, if it has data, the transfer has ended, all of its blocks
\* moved.  In particular the transfer complete interrupt of a busy command
\* before it never ends the wait for the data.  (A CRC error is printed
\* and reported as success.)
SuccessIsReal ==
    pc = "idle" /\ ret = 0 =>
        /\ hwres \in {"ok", "bad"}
        /\ hwres = "ok" /\ cmd.data # "none" => left = 0

\* In a transfer by the processor, blocks counted by the handler and blocks
\* the controller has seen never come apart.
BlocksAgree ==
    hw = "data" /\ dma_mode = "none" => blk_idx + left = cmd.blocks

\* The handler never waits for a buffer the controller will not enable,
\* with every interrupt held up behind it.
HandlerNotStuck == isr \in {"read", "write"} => rdy

\* send_command returns: no completion is lost between the controller, the
\* handler and the two waits, unless the handler itself has reset the lines
\* under the command, the controller does not end a failed transfer, or a
\* transfer crosses an SDMA boundary.
SendReturns == pc # "idle" ~> pc = "idle" \/ lost # {}

\* Handler and controller keep in step through a transfer, after whatever
\* error the transfer before it ended with.
TransferSound == TypeOK /\ BlocksAgree /\ HandlerNotStuck
=============================================================================
