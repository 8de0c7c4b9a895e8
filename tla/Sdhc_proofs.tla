---------------------------- MODULE Sdhc_proofs ----------------------------
(***************************************************************************)
(* Proofs about the SD/MMC host driver, for transfers of any length and    *)
(* every bound of the busy wait.                                           *)
(***************************************************************************)
EXTENDS Sdhc, TLAPS

(***************************************************************************)
(* The inductive invariant                                                 *)
(***************************************************************************)
\* Outside a command the controller is idle or waits for the card to be
\* ready, and nothing but the end of that wait and the switch interrupts.
Quiet == pc \in {"idle", "busy", "prepare", "issue"}

QuietBits == {"TC", "REM", "INS"}

QuietInv ==
    /\ isr = "none" => stat = {}
    /\ pc # "idle" => irq
    /\ Quiet => /\ hw \in {"idle", "busy"}
                /\ status \subseteq QuietBits /\ stat \subseteq QuietBits
    /\ pc \in {"prepare", "issue"} =>
         hw = "idle" /\ "TC" \notin status \cup stat

\* What send_command has set up for the command it is about to issue.
FreshInv ==
    /\ pc \in {"busy", "prepare", "issue"} => ~cmd_done /\ ~err_flag
    /\ pc = "issue" /\ cmd.data # "none" => tc = 1 /\ blk_idx = 0

\* The command has been issued and the controller works on it.
IssuedInv ==
    /\ hw = "cmd" =>
         /\ hwres = "pending" /\ pc = "cmdwait" /\ ~cmd_done /\ ~rdy
         /\ status \cup stat \subseteq {"REM", "INS"}
         /\ left = cmd.blocks /\ (cmd.data # "none" => tc = 1 /\ blk_idx = 0)
    /\ hw = "data" =>
         /\ hwres = "pending" /\ cmd.data # "none" /\ tc = 1
         /\ "TC" \notin status \cup stat
    /\ hw = "busy" /\ ~Quiet => cmd.data = "none"

\* The completion the main thread waits for comes from the controller.
DoneInv ==
    ~Quiet =>
      /\ cmd.data = "none" /\ (cmd_done \/ "CC" \in status \cup stat) =>
           hwres # "pending" /\ hw \in {"idle", "busy"}
      /\ cmd.data # "none" /\ (tc = 0 \/ "TC" \in status \cup stat) =>
           hwres # "pending" /\ hw = "idle"
      /\ cmd.data # "none" /\ hwres = "ok" => left = 0
      /\ pc = "tcwait" => cmd.data # "none"

\* A time-out is seen before the completion that comes with it.
TimeoutInv ==
    ~Quiet /\ hwres = "timeout" /\ ~err_flag =>
      /\ status \cap {"DTO", "CTO"} # {}
      /\ IF cmd.data = "none"
           THEN /\ ~cmd_done
                /\ "CC" \in stat => isr = "err" /\ stat \cap Errors # {}
           ELSE /\ tc = 1
                /\ "TC" \in stat => isr = "err" /\ stat \cap Errors # {}

\* The buffer of the controller, the interrupts for it and the handler.
BufferInv ==
    /\ ~Quiet /\ rdy =>
         left > 0 /\ dma_mode = "none" /\ blk_idx + left = cmd.blocks
    /\ "BRR" \in status => rdy /\ cmd.data = "read" /\ isr # "read"
    /\ "BWR" \in status => rdy /\ cmd.data = "write" /\ isr # "write"
    /\ "BRR" \in stat /\ isr \in {"err", "cc", "brr"} =>
         rdy /\ cmd.data = "read"
    /\ "BWR" \in stat /\ isr \in {"err", "cc", "brr", "read", "bwr"} =>
         rdy /\ cmd.data = "write"
    /\ isr = "read" => rdy /\ cmd.data = "read" /\ ~Quiet
    /\ isr = "write" => rdy /\ cmd.data = "write" /\ ~Quiet

IInv ==
    /\ TypeOK /\ QuietInv /\ FreshInv /\ IssuedInv /\ DoneInv /\ TimeoutInv
    /\ BufferInv /\ BlocksAgree /\ SuccessIsReal

(***************************************************************************)
(* The invariant is inductive                                              *)
(***************************************************************************)
\* The members of a command and the bits of the status register.
LEMMA CmdFacts ==
    ASSUME SdhcAssumption, NEW c \in Commands
    PROVE  /\ c.data \in {"none", "read", "write"}
           /\ c.rsp \in {"plain", "busy"} /\ c.blocks \in 0 .. MaxBlocks
           /\ c.data # "none" => c.rsp = "plain"
BY DEF Commands, SdhcAssumption

LEMMA StatusBits ==
    /\ Errors = {"DCRC", "DTO", "CCRC", "CTO"}
    /\ Status = {"DCRC", "DTO", "CCRC", "CTO", "CC", "BRR", "BWR", "TC",
                 "DMA", "REM", "INS"}
<1>1. Errors = {"DCRC", "DTO", "CCRC", "CTO"}
    BY DEF Errors, ErrorOrder, Range
<1>2. QED
    BY <1>1 DEF Status

LEMMA InitInv ==
    Init => IInv
<1> SUFFICES ASSUME Init PROVE IInv
    OBVIOUS
<1>1. cmd \in Commands /\ opt \in Options /\ present \in BOOLEAN
      /\ 0 \in 0 .. MaxBlocks /\ 0 \in 0 .. MaxPolls
    BY SdhcAssumption DEF Init, SdhcAssumption
<1>2. TypeOK
    BY <1>1 DEF Init, TypeOK, DmaModes
<1>3. QED
    BY <1>2 DEF Init, IInv, QuietInv, Quiet, FreshInv, IssuedInv, DoneInv,
                TimeoutInv, BufferInv, BlocksAgree, SuccessIsReal

\* socle_sdhc_send_command is called: there is no command under way.
LEMMA SendStep ==
    ASSUME IInv, NEW c \in Commands, NEW d \in DmaModes, Send(c, d)
    PROVE  IInv'
<1>1. /\ pc = "idle" /\ pc' = "busy" /\ irq /\ isr = "none" /\ status = {}
      /\ cmd' = c /\ dma_mode' = d /\ tc' = 0 /\ polls' = 0
      /\ UNCHANGED <<opt, isr, stat, ret, irq, blk_idx, alive_flag, status,
                     device>>
    BY DEF Send, Main, Pending
<1>2. cmd_done' = FALSE /\ err_flag' = FALSE
    BY DEF Send
<1>3. TypeOK'
  <2>1. cmd_done' \in BOOLEAN /\ err_flag' \in BOOLEAN
    BY <1>2
  <2>2. polls' \in 0 .. MaxPolls
    BY <1>1, SdhcAssumption DEF SdhcAssumption
  <2>3. QED
    BY <1>1, <2>1, <2>2 DEF IInv, TypeOK, device
<1>4. QuietInv' /\ FreshInv'
    BY <1>1, <1>2 DEF IInv, QuietInv, Quiet, FreshInv, device
<1>5. IssuedInv' /\ DoneInv' /\ TimeoutInv' /\ SuccessIsReal'
    BY <1>1 DEF IInv, QuietInv, Quiet, IssuedInv, DoneInv, TimeoutInv,
                SuccessIsReal, device
<1>6. BufferInv' /\ BlocksAgree'
    BY <1>1 DEF IInv, QuietInv, Quiet, BufferInv, BlocksAgree, device
<1>7. QED
    BY <1>3, <1>4, <1>5, <1>6 DEF IInv

\* A card test begins: the controller is reset.
LEMMA BeginStep ==
    ASSUME IInv, Begin PROVE IInv'
<1>0. cmd.data \in {"none", "read", "write"} /\ cmd.blocks \in 0 .. MaxBlocks
      /\ MaxBlocks \in Nat /\ MaxPolls \in Nat
    BY CmdFacts, SdhcAssumption DEF IInv, TypeOK, SdhcAssumption
<1>1. TypeOK'
  <2>1. alive_flag' \in BOOLEAN /\ irq' \in BOOLEAN
    BY DEF Begin, Main, Pending, IInv, TypeOK
  <2>2. rdy' \in BOOLEAN
    BY DEF Begin, Main, Pending, IInv, TypeOK
  <2>3. status' \subseteq status /\ left' \in {0, left} /\ hw' \in {"idle", hw}
    BY DEF Begin, Main, Pending
  <2>4. /\ isr' = isr /\ pc' = "idle"
        /\ UNCHANGED <<opt, stat, cmd, dma_mode, polls, ret, cmd_done, tc,
                       err_flag, blk_idx, present, hwres, lost>>
    BY DEF Begin, Main, Pending
  <2>5. QED
    BY <1>0, <2>1, <2>2, <2>3, <2>4 DEF IInv, TypeOK
<1>2. QuietInv'
    BY DEF Begin, Main, Pending, IInv, QuietInv, Quiet, QuietBits
<1>3. FreshInv'
    BY DEF Begin, Main, Pending, IInv, FreshInv
<1>4. IssuedInv'
    BY DEF Begin, Main, Pending, IInv, IssuedInv, Quiet
<1>5. DoneInv'
    BY DEF Begin, Main, Pending, IInv, DoneInv, Quiet
<1>6. TimeoutInv'
    BY DEF Begin, Main, Pending, IInv, TimeoutInv, Quiet
<1>7. BufferInv'
    BY DEF Begin, Main, Pending, IInv, BufferInv, Quiet
<1>8. BlocksAgree'
    BY DEF Begin, Main, Pending, IInv, BlocksAgree
<1>9. SuccessIsReal'
    BY DEF Begin, Main, Pending, IInv, SuccessIsReal
<1>10. QED
    BY <1>1, <1>2, <1>3, <1>4, <1>5, <1>6, <1>7, <1>8, <1>9 DEF IInv

\* A card test ends.
LEMMA EndStep ==
    ASSUME IInv, End PROVE IInv'
<1>1. TypeOK'
    BY DEF End, Main, Pending, host, device, IInv, TypeOK
<1>2. QuietInv'
    BY DEF End, Main, Pending, host, device, IInv, QuietInv, Quiet, QuietBits
<1>3. FreshInv'
    BY DEF End, Main, Pending, host, device, IInv, FreshInv
<1>4. IssuedInv'
    BY DEF End, Main, Pending, host, device, IInv, IssuedInv, Quiet
<1>5. DoneInv'
    BY DEF End, Main, Pending, host, device, IInv, DoneInv, Quiet
<1>6. TimeoutInv'
    BY DEF End, Main, Pending, host, device, IInv, TimeoutInv, Quiet
<1>7. BufferInv'
    BY DEF End, Main, Pending, host, device, IInv, BufferInv, Quiet
<1>8. BlocksAgree'
    BY DEF End, Main, Pending, host, device, IInv, BlocksAgree
<1>9. SuccessIsReal'
    BY DEF End, Main, Pending, host, device, IInv, SuccessIsReal
<1>10. QED
    BY <1>1, <1>2, <1>3, <1>4, <1>5, <1>6, <1>7, <1>8, <1>9 DEF IInv

\* The wait for the lines, or its time-out.
LEMMA BusyWaitStep ==
    ASSUME IInv, BusyWait PROVE IInv'
<1>0. cmd.data \in {"none", "read", "write"} /\ cmd.blocks \in 0 .. MaxBlocks
      /\ MaxBlocks \in Nat /\ MaxPolls \in Nat
    BY CmdFacts, SdhcAssumption DEF IInv, TypeOK, SdhcAssumption
<1>1. TypeOK'
    BY <1>0 DEF BusyWait, Main, Pending, Inhibited, host, device, IInv, TypeOK
<1>2. QuietInv'
    BY DEF BusyWait, Main, Pending, Inhibited, host, device, IInv, QuietInv,
           Quiet, QuietBits
<1>3. FreshInv'
    BY DEF BusyWait, Main, Pending, Inhibited, host, device, IInv, FreshInv
<1>4. IssuedInv'
    BY DEF BusyWait, Main, Pending, Inhibited, host, device, IInv, IssuedInv,
           Quiet
<1>5. DoneInv'
    BY DEF BusyWait, Main, Pending, Inhibited, host, device, IInv, DoneInv,
           Quiet
<1>6. TimeoutInv'
    BY DEF BusyWait, Main, Pending, Inhibited, host, device, IInv, TimeoutInv,
           Quiet
<1>7. BufferInv'
    BY DEF BusyWait, Main, Pending, Inhibited, host, device, IInv, BufferInv,
           Quiet
<1>8. BlocksAgree'
    BY DEF BusyWait, Main, Pending, Inhibited, host, device, IInv, BlocksAgree
<1>9. SuccessIsReal'
    BY DEF BusyWait, Main, Pending, Inhibited, host, device, IInv,
           SuccessIsReal
<1>10. QED
    BY <1>1, <1>2, <1>3, <1>4, <1>5, <1>6, <1>7, <1>8, <1>9 DEF IInv

\* The transfer is set up, or refused.
LEMMA PrepareStep ==
    ASSUME IInv, Prepare PROVE IInv'
<1>0. cmd.data \in {"none", "read", "write"} /\ cmd.blocks \in 0 .. MaxBlocks
      /\ MaxBlocks \in Nat /\ MaxPolls \in Nat
    BY CmdFacts, SdhcAssumption DEF IInv, TypeOK, SdhcAssumption
<1>1. TypeOK'
    BY <1>0 DEF Prepare, Main, Pending, device, IInv, TypeOK
<1>2. QuietInv'
    BY DEF Prepare, Main, Pending, device, IInv, QuietInv, Quiet, QuietBits
<1>3. FreshInv'
    BY DEF Prepare, Main, Pending, device, IInv, FreshInv
<1>4. IssuedInv'
    BY DEF Prepare, Main, Pending, device, IInv, IssuedInv, Quiet
<1>5. DoneInv'
    BY DEF Prepare, Main, Pending, device, IInv, DoneInv, Quiet
<1>6. TimeoutInv'
    BY DEF Prepare, Main, Pending, device, IInv, TimeoutInv, Quiet
<1>7. BufferInv'
    BY DEF Prepare, Main, Pending, device, IInv, BufferInv, Quiet
<1>8. BlocksAgree'
    BY DEF Prepare, Main, Pending, device, IInv, TypeOK, BlocksAgree,
           IssuedInv, BufferInv, QuietInv, Quiet, QuietBits
<1>9. SuccessIsReal'
    BY DEF Prepare, Main, Pending, device, IInv, SuccessIsReal
<1>10. QED
    BY <1>1, <1>2, <1>3, <1>4, <1>5, <1>6, <1>7, <1>8, <1>9 DEF IInv

\* The command register is written.
LEMMA IssueStep ==
    ASSUME IInv, Issue PROVE IInv'
<1>0. cmd.data \in {"none", "read", "write"} /\ cmd.blocks \in 0 .. MaxBlocks
      /\ MaxBlocks \in Nat /\ MaxPolls \in Nat
    BY CmdFacts, SdhcAssumption DEF IInv, TypeOK, SdhcAssumption
<1>1. TypeOK'
    BY <1>0 DEF Issue, Main, Pending, host, IInv, TypeOK
<1>2. QuietInv'
    BY DEF Issue, Main, Pending, host, IInv, QuietInv, Quiet, QuietBits
<1>3. FreshInv'
    BY DEF Issue, Main, Pending, host, IInv, FreshInv
<1>4. IssuedInv'
    BY DEF Issue, Main, Pending, host, IInv, TypeOK, IssuedInv, FreshInv,
           QuietInv, Quiet, QuietBits
<1>5. DoneInv'
    BY DEF Issue, Main, Pending, host, IInv, QuietInv, FreshInv, DoneInv, Quiet
<1>6. TimeoutInv'
    BY DEF Issue, Main, Pending, host, IInv, TimeoutInv, Quiet
<1>7. BufferInv'
    BY DEF Issue, Main, Pending, host, IInv, TypeOK, BufferInv, IssuedInv,
           QuietInv, Quiet, QuietBits
<1>8. BlocksAgree'
    BY DEF Issue, Main, Pending, host, IInv, BlocksAgree
<1>9. SuccessIsReal'
    BY DEF Issue, Main, Pending, host, IInv, SuccessIsReal
<1>10. QED
    BY <1>1, <1>2, <1>3, <1>4, <1>5, <1>6, <1>7, <1>8, <1>9 DEF IInv

\* The waits for cmd_done and tc end; the result is returned.
LEMMA WaitStep ==
    ASSUME IInv, Wait PROVE IInv'
<1>1. TypeOK'
    BY DEF Wait, Main, Pending, host, device, IInv, TypeOK
<1>2. QuietInv'
    BY DEF Wait, Main, Pending, host, device, IInv, TypeOK, QuietInv, Quiet,
           QuietBits, IssuedInv, DoneInv
<1>3. FreshInv'
    BY DEF Wait, Main, Pending, host, device, IInv, FreshInv
<1>4. IssuedInv'
    BY DEF Wait, Main, Pending, host, device, IInv, IssuedInv, Quiet
<1>5. DoneInv'
    BY DEF Wait, Main, Pending, host, device, IInv, DoneInv, Quiet
<1>6. TimeoutInv'
    BY DEF Wait, Main, Pending, host, device, IInv, TimeoutInv, Quiet
<1>7. BufferInv'
    BY DEF Wait, Main, Pending, host, device, IInv, BufferInv, Quiet
<1>8. BlocksAgree'
    BY DEF Wait, Main, Pending, host, device, IInv, BlocksAgree
<1>9. SuccessIsReal'
    BY DEF Wait, Main, Pending, host, device, IInv, TypeOK, SuccessIsReal,
           DoneInv, TimeoutInv, QuietInv, Quiet, QuietBits
<1>10. QED
    BY <1>1, <1>2, <1>3, <1>4, <1>5, <1>6, <1>7, <1>8, <1>9 DEF IInv

\* The handler reads the status register.
LEMMA EnterStep ==
    ASSUME IInv, Enter PROVE IInv'
<1>1. TypeOK'
    BY DEF Enter, Pending, main, host, device, IInv, TypeOK
<1>2. QuietInv'
    BY DEF Enter, Pending, main, host, device, IInv, QuietInv, Quiet, QuietBits
<1>3. FreshInv'
    BY DEF Enter, Pending, main, host, device, IInv, FreshInv
<1>4. IssuedInv'
    BY DEF Enter, Pending, main, host, device, IInv, IssuedInv, Quiet
<1>5. DoneInv'
    BY DEF Enter, Pending, main, host, device, IInv, DoneInv, Quiet
<1>6. TimeoutInv'
    BY StatusBits
       DEF Enter, Pending, main, host, device, IInv, TimeoutInv, Quiet
<1>7. BufferInv'
    BY DEF Enter, Pending, main, host, device, IInv, BufferInv, Quiet
<1>8. BlocksAgree'
    BY DEF Enter, Pending, main, host, device, IInv, BlocksAgree
<1>9. SuccessIsReal'
    BY DEF Enter, Pending, main, host, device, IInv, SuccessIsReal
<1>10. QED
    BY <1>1, <1>2, <1>3, <1>4, <1>5, <1>6, <1>7, <1>8, <1>9 DEF IInv

\* An error: a time-out leaves its mark before any completion is seen.
LEMMA CheckErrStep ==
    ASSUME IInv, CheckErr PROVE IInv'
<1>1. TypeOK'
  <2>1. status' \subseteq status
    BY DEF CheckErr, Isr, main, device
  <2>2. err_flag' \in BOOLEAN
    BY DEF CheckErr, Isr, main, device, IInv, TypeOK
  <2>3. /\ isr' = "cc" /\ stat' = stat
        /\ UNCHANGED <<opt, main, cmd_done, tc, blk_idx, alive_flag, device>>
    BY DEF CheckErr, Isr, main, device
  <2>4. QED
    BY <2>1, <2>2, <2>3 DEF IInv, TypeOK, main, device
<1>2. QuietInv'
    BY DEF CheckErr, Isr, main, device, IInv, QuietInv, Quiet, QuietBits
<1>3. FreshInv'
    BY DEF CheckErr, Isr, main, device, IInv, TypeOK, FreshInv, QuietInv,
           Quiet, QuietBits
<1>4. IssuedInv'
    BY DEF CheckErr, Isr, main, device, IInv, IssuedInv, Quiet
<1>5. DoneInv'
    BY DEF CheckErr, Isr, main, device, IInv, DoneInv, Quiet
<1>6. TimeoutInv'
    BY DEF CheckErr, Isr, main, device, IInv, TimeoutInv, Quiet
<1>7. BufferInv'
    BY DEF CheckErr, Isr, main, device, IInv, BufferInv, Quiet
<1>8. BlocksAgree'
    BY DEF CheckErr, Isr, main, device, IInv, BlocksAgree
<1>9. SuccessIsReal'
    BY DEF CheckErr, Isr, main, device, IInv, SuccessIsReal
<1>10. QED
    BY <1>1, <1>2, <1>3, <1>4, <1>5, <1>6, <1>7, <1>8, <1>9 DEF IInv

\* No error in the status that was read.
LEMMA NoErrStep ==
    ASSUME IInv, NoErr PROVE IInv'
<1>1. TypeOK'
    BY DEF NoErr, Isr, main, host, device, IInv, TypeOK
<1>2. QuietInv'
    BY DEF NoErr, Isr, main, host, device, IInv, QuietInv, Quiet, QuietBits
<1>3. FreshInv'
    BY DEF NoErr, Isr, main, host, device, IInv, FreshInv
<1>4. IssuedInv'
    BY DEF NoErr, Isr, main, host, device, IInv, IssuedInv, Quiet
<1>5. DoneInv'
    BY DEF NoErr, Isr, main, host, device, IInv, DoneInv, Quiet
<1>6. TimeoutInv'
    BY DEF NoErr, Isr, main, host, device, IInv, TimeoutInv, Quiet
<1>7. BufferInv'
    BY DEF NoErr, Isr, main, host, device, IInv, BufferInv, Quiet
<1>8. BlocksAgree'
    BY DEF NoErr, Isr, main, host, device, IInv, BlocksAgree
<1>9. SuccessIsReal'
    BY DEF NoErr, Isr, main, host, device, IInv, SuccessIsReal
<1>10. QED
    BY <1>1, <1>2, <1>3, <1>4, <1>5, <1>6, <1>7, <1>8, <1>9 DEF IInv

\* COMMAND_COMPLETE: cmd_done is set.
LEMMA CommandCompleteStep ==
    ASSUME IInv, CommandComplete PROVE IInv'
<1>1. TypeOK'
    BY DEF CommandComplete, Isr, main, device, IInv, TypeOK
<1>2. QuietInv'
    BY DEF CommandComplete, Isr, main, device, IInv, QuietInv, Quiet, QuietBits
<1>3. FreshInv'
    BY DEF CommandComplete, Isr, main, device, IInv, TypeOK, FreshInv,
           QuietInv, Quiet, QuietBits
<1>4. IssuedInv'
    BY DEF CommandComplete, Isr, main, device, IInv, IssuedInv, Quiet
<1>5. DoneInv'
    BY DEF CommandComplete, Isr, main, device, IInv, DoneInv, Quiet
<1>6. TimeoutInv'
    BY DEF CommandComplete, Isr, main, device, IInv, TimeoutInv, Quiet
<1>7. BufferInv'
    BY DEF CommandComplete, Isr, main, device, IInv, BufferInv, Quiet
<1>8. BlocksAgree'
    BY DEF CommandComplete, Isr, main, device, IInv, BlocksAgree
<1>9. SuccessIsReal'
    BY DEF CommandComplete, Isr, main, device, IInv, SuccessIsReal
<1>10. QED
    BY <1>1, <1>2, <1>3, <1>4, <1>5, <1>6, <1>7, <1>8, <1>9 DEF IInv

\* BUFFER_READ_READY: the buffer is enabled as long as it is pending.
LEMMA ReadReadyStep ==
    ASSUME IInv, ReadReady PROVE IInv'
<1>1. TypeOK'
    BY DEF ReadReady, NoBuffer, Isr, main, host, device, IInv, TypeOK
<1>2. QuietInv'
    BY DEF ReadReady, NoBuffer, Isr, main, host, device, IInv, QuietInv, Quiet,
           QuietBits
<1>3. FreshInv'
    BY DEF ReadReady, NoBuffer, Isr, main, host, device, IInv, FreshInv
<1>4. IssuedInv'
    BY DEF ReadReady, NoBuffer, Isr, main, host, device, IInv, IssuedInv, Quiet
<1>5. DoneInv'
    BY DEF ReadReady, NoBuffer, Isr, main, host, device, IInv, DoneInv, Quiet
<1>6. TimeoutInv'
    BY DEF ReadReady, NoBuffer, Isr, main, host, device, IInv, TimeoutInv,
           Quiet
<1>7. BufferInv'
    BY DEF ReadReady, NoBuffer, Isr, main, host, device, IInv, TypeOK,
           BufferInv, IssuedInv, QuietInv, Quiet, QuietBits
<1>8. BlocksAgree'
    BY DEF ReadReady, NoBuffer, Isr, main, host, device, IInv, BlocksAgree
<1>9. SuccessIsReal'
    BY DEF ReadReady, NoBuffer, Isr, main, host, device, IInv, SuccessIsReal
<1>10. QED
    BY <1>1, <1>2, <1>3, <1>4, <1>5, <1>6, <1>7, <1>8, <1>9 DEF IInv

\* BUFFER_WRITE_READY likewise.
LEMMA WriteReadyStep ==
    ASSUME IInv, WriteReady PROVE IInv'
<1>1. TypeOK'
    BY DEF WriteReady, NoBuffer, Isr, main, host, device, IInv, TypeOK
<1>2. QuietInv'
    BY DEF WriteReady, NoBuffer, Isr, main, host, device, IInv, QuietInv,
           Quiet, QuietBits
<1>3. FreshInv'
    BY DEF WriteReady, NoBuffer, Isr, main, host, device, IInv, FreshInv
<1>4. IssuedInv'
    BY DEF WriteReady, NoBuffer, Isr, main, host, device, IInv, IssuedInv,
           Quiet
<1>5. DoneInv'
    BY DEF WriteReady, NoBuffer, Isr, main, host, device, IInv, DoneInv, Quiet
<1>6. TimeoutInv'
    BY DEF WriteReady, NoBuffer, Isr, main, host, device, IInv, TimeoutInv,
           Quiet
<1>7. BufferInv'
    BY DEF WriteReady, NoBuffer, Isr, main, host, device, IInv, TypeOK,
           BufferInv, IssuedInv, QuietInv, Quiet, QuietBits
<1>8. BlocksAgree'
    BY DEF WriteReady, NoBuffer, Isr, main, host, device, IInv, BlocksAgree
<1>9. SuccessIsReal'
    BY DEF WriteReady, NoBuffer, Isr, main, host, device, IInv, SuccessIsReal
<1>10. QED
    BY <1>1, <1>2, <1>3, <1>4, <1>5, <1>6, <1>7, <1>8, <1>9 DEF IInv

\* A block is moved: both sides count it.
LEMMA TransDatablockStep ==
    ASSUME IInv, TransDatablock PROVE IInv'
<1>0. cmd.data \in {"none", "read", "write"} /\ cmd.blocks \in 0 .. MaxBlocks
      /\ MaxBlocks \in Nat /\ MaxPolls \in Nat
    BY CmdFacts, SdhcAssumption DEF IInv, TypeOK, SdhcAssumption
<1>a. /\ left \in Nat /\ blk_idx \in Nat /\ left > 0
      /\ blk_idx + left = cmd.blocks
      /\ left' = left - 1 /\ blk_idx' = blk_idx + 1
    BY <1>0 DEF TransDatablock, Isr, main, IInv, TypeOK, BufferInv
<1>1. TypeOK'
  <2>1. left' \in 0 .. MaxBlocks /\ blk_idx' \in 0 .. MaxBlocks
    BY <1>0, <1>a DEF TransDatablock, Isr, main
  <2>2. rdy' \in BOOLEAN
    BY DEF TransDatablock, Isr, main
  <2>3. /\ isr' \in {"bwr", "tc"} /\ stat' = stat
        /\ UNCHANGED <<opt, main, cmd_done, tc, err_flag, alive_flag, status,
                       hw, present, hwres, lost>>
    BY DEF TransDatablock, Isr, main
  <2>4. QED
    BY <2>1, <2>2, <2>3 DEF main, IInv, TypeOK
<1>2. QuietInv'
    BY DEF TransDatablock, Isr, main, IInv, QuietInv, Quiet, QuietBits
<1>3. FreshInv'
    BY DEF TransDatablock, Isr, main, IInv, FreshInv, BufferInv, Quiet
<1>4. IssuedInv'
    BY DEF TransDatablock, Isr, main, IInv, IssuedInv, Quiet
<1>5. DoneInv'
    BY DEF TransDatablock, Isr, main, IInv, TypeOK, DoneInv, IssuedInv,
           QuietInv, Quiet, QuietBits, BufferInv
<1>6. TimeoutInv'
    BY DEF TransDatablock, Isr, main, IInv, TimeoutInv, Quiet
<1>7. BufferInv'
  <2>1. isr' \in {"bwr", "tc"} /\ stat' = stat /\ rdy' = FALSE
    BY DEF TransDatablock, Isr, main
  <2>2. UNCHANGED <<cmd, status>>
    BY DEF TransDatablock, Isr, main
  <2>3. "BRR" \notin status /\ "BWR" \notin status
    BY DEF TransDatablock, Isr, main, IInv, BufferInv
  <2>4. "BWR" \in stat => isr' # "bwr"
    BY DEF TransDatablock, Isr, main, IInv, BufferInv
  <2>5. QED
    BY <2>1, <2>2, <2>3, <2>4 DEF BufferInv
<1>8. BlocksAgree'
    BY DEF TransDatablock, Isr, main, IInv, TypeOK, BlocksAgree
<1>9. SuccessIsReal'
    BY DEF TransDatablock, Isr, main, IInv, TypeOK, SuccessIsReal, DoneInv,
           TimeoutInv, QuietInv, Quiet, QuietBits, BufferInv, IssuedInv
<1>10. QED
    BY <1>1, <1>2, <1>3, <1>4, <1>5, <1>6, <1>7, <1>8, <1>9 DEF IInv

\* TRANSFER_COMPLETE: tc is cleared.
LEMMA TransferCompleteStep ==
    ASSUME IInv, TransferComplete PROVE IInv'
<1>1. TypeOK'
    BY DEF TransferComplete, Isr, main, device, IInv, TypeOK
<1>2. QuietInv'
    BY DEF TransferComplete, Isr, main, device, IInv, QuietInv, Quiet,
           QuietBits
<1>3. FreshInv'
    BY DEF TransferComplete, Isr, main, device, IInv, TypeOK, FreshInv,
           QuietInv, Quiet, QuietBits
<1>4. IssuedInv'
    BY DEF TransferComplete, Isr, main, device, IInv, IssuedInv, Quiet
<1>5. DoneInv'
    BY DEF TransferComplete, Isr, main, device, IInv, DoneInv, Quiet
<1>6. TimeoutInv'
    BY DEF TransferComplete, Isr, main, device, IInv, TimeoutInv, Quiet
<1>7. BufferInv'
    BY DEF TransferComplete, Isr, main, device, IInv, BufferInv, Quiet
<1>8. BlocksAgree'
    BY DEF TransferComplete, Isr, main, device, IInv, BlocksAgree
<1>9. SuccessIsReal'
    BY DEF TransferComplete, Isr, main, device, IInv, SuccessIsReal
<1>10. QED
    BY <1>1, <1>2, <1>3, <1>4, <1>5, <1>6, <1>7, <1>8, <1>9 DEF IInv

\* The DMA interrupt.
LEMMA DmaInterruptStep ==
    ASSUME IInv, DmaInterrupt PROVE IInv'
<1>1. TypeOK'
    BY DEF DmaInterrupt, Isr, main, host, device, IInv, TypeOK
<1>2. QuietInv'
    BY DEF DmaInterrupt, Isr, main, host, device, IInv, QuietInv, Quiet,
           QuietBits
<1>3. FreshInv'
    BY DEF DmaInterrupt, Isr, main, host, device, IInv, FreshInv
<1>4. IssuedInv'
    BY DEF DmaInterrupt, Isr, main, host, device, IInv, IssuedInv, Quiet
<1>5. DoneInv'
    BY DEF DmaInterrupt, Isr, main, host, device, IInv, DoneInv, Quiet
<1>6. TimeoutInv'
    BY DEF DmaInterrupt, Isr, main, host, device, DmaHandled, IInv, TimeoutInv,
           Quiet
<1>7. BufferInv'
    BY DEF DmaInterrupt, Isr, main, host, device, IInv, BufferInv, Quiet
<1>8. BlocksAgree'
    BY DEF DmaInterrupt, Isr, main, host, device, IInv, BlocksAgree
<1>9. SuccessIsReal'
    BY DEF DmaInterrupt, Isr, main, host, device, IInv, SuccessIsReal
<1>10. QED
    BY <1>1, <1>2, <1>3, <1>4, <1>5, <1>6, <1>7, <1>8, <1>9 DEF IInv

\* Card removal and insertion: the lines are reset.
LEMMA CardDetectStep ==
    ASSUME IInv, CardDetect PROVE IInv'
<1>0. cmd.data \in {"none", "read", "write"} /\ cmd.blocks \in 0 .. MaxBlocks
      /\ MaxBlocks \in Nat /\ MaxPolls \in Nat
    BY CmdFacts, SdhcAssumption DEF IInv, TypeOK, SdhcAssumption
<1>1. TypeOK'
  <2>1. alive_flag' \in BOOLEAN
    BY DEF CardDetect, LineBits, Isr, main
  <2>2. rdy' \in BOOLEAN
    BY DEF CardDetect, LineBits, Isr, main, IInv, TypeOK
  <2>3. /\ status' \subseteq status
        /\ left' \in {0, left} /\ hw' \in {"idle", hw}
        /\ lost' \subseteq lost \cup {"reset"} /\ isr' = "none" /\ stat' = {}
    BY DEF CardDetect, LineBits, Isr, main
  <2>4. UNCHANGED <<opt, main, cmd_done, tc, err_flag, blk_idx, present,
                    hwres>>
    BY DEF CardDetect, LineBits, Isr, main
  <2>5. QED
    BY <1>0, <2>1, <2>2, <2>3, <2>4 DEF main, IInv, TypeOK
<1>2. QuietInv'
    BY DEF CardDetect, LineBits, Isr, main, IInv, QuietInv, Quiet, QuietBits
<1>3. FreshInv'
    BY DEF CardDetect, LineBits, Isr, main, IInv, FreshInv
<1>4. IssuedInv'
    BY DEF CardDetect, LineBits, Isr, main, IInv, IssuedInv, Quiet
<1>5. DoneInv'
    BY DEF CardDetect, LineBits, Isr, main, IInv, DoneInv, Quiet
<1>6. TimeoutInv'
    BY DEF CardDetect, LineBits, Isr, main, IInv, TimeoutInv, Quiet
<1>7. BufferInv'
    BY DEF CardDetect, LineBits, Isr, main, IInv, BufferInv, Quiet
<1>8. BlocksAgree'
    BY DEF CardDetect, LineBits, Isr, main, IInv, BlocksAgree
<1>9. SuccessIsReal'
    BY DEF CardDetect, LineBits, Isr, main, IInv, SuccessIsReal
<1>10. QED
    BY <1>1, <1>2, <1>3, <1>4, <1>5, <1>6, <1>7, <1>8, <1>9 DEF IInv

\* The card answers, or the controller reports that it does not.
LEMMA RespondStep ==
    ASSUME IInv, Respond PROVE IInv'
<1>0. cmd.data \in {"none", "read", "write"} /\ cmd.blocks \in 0 .. MaxBlocks
      /\ MaxBlocks \in Nat /\ MaxPolls \in Nat
    BY CmdFacts, SdhcAssumption DEF IInv, TypeOK, SdhcAssumption
<1>1. TypeOK'
  <2>1. status' \subseteq Status
    BY StatusBits DEF Respond, Device, host, main, IInv, TypeOK
  <2>2. QED
    BY <1>0, <2>1 DEF Respond, Device, host, main, IInv, TypeOK
<1>2. QuietInv'
    BY DEF Respond, Device, host, main, IInv, QuietInv, Quiet, QuietBits
<1>3. FreshInv'
    BY DEF Respond, Device, host, main, IInv, FreshInv
<1>4. IssuedInv'
  <2>1. UNCHANGED <<cmd, pc, tc, stat>> /\ hw = "cmd"
    BY DEF Respond, Device, host, main
  <2>2. CASE hw' = "idle"
    BY <2>2 DEF IssuedInv
  <2>3. CASE hw' # "idle"
    <3>1. /\ status' = status \cup {"CC"}
          /\ hw' = CASE cmd.data # "none" -> "data"
                     [] cmd.rsp = "busy" -> "busy"
                     [] OTHER -> "idle"
          /\ hwres' = IF cmd.data = "none" THEN "ok" ELSE "pending"
      BY <2>3 DEF Respond, Device, host, main
    <3>2. CASE cmd.data # "none"
      <4>1. cmd.rsp = "plain"
        BY <3>2, CmdFacts, SdhcAssumption DEF IInv, TypeOK
      <4>2. hw' = "data" /\ hwres' = "pending"
        BY <3>1, <3>2, <4>1
      <4>3. QED
        BY <2>1, <3>1, <3>2, <4>2 DEF IInv, IssuedInv, Quiet
    <3>3. CASE cmd.data = "none"
      <4>1. hw' = "busy"
        BY <2>3, <3>1, <3>3
      <4>2. QED
        BY <2>1, <3>1, <3>3, <4>1 DEF IInv, IssuedInv, Quiet
    <3>4. QED
      BY <3>2, <3>3
  <2>4. QED
    BY <2>2, <2>3
<1>5. DoneInv'
    BY DEF Respond, Device, host, main, IInv, DoneInv, Quiet
<1>6. TimeoutInv'
    BY DEF Respond, Device, host, main, IInv, TypeOK, TimeoutInv, IssuedInv,
           QuietInv, Quiet, QuietBits
<1>7. BufferInv'
    BY DEF Respond, Device, host, main, IInv, BufferInv, Quiet
<1>8. BlocksAgree'
    BY DEF Respond, Device, host, main, IInv, TypeOK, BlocksAgree, IssuedInv,
           BufferInv, QuietInv, Quiet, QuietBits
<1>9. SuccessIsReal'
    BY DEF Respond, Device, host, main, IInv, TypeOK, SuccessIsReal, DoneInv,
           TimeoutInv, QuietInv, Quiet, QuietBits
<1>10. QED
    BY <1>1, <1>2, <1>3, <1>4, <1>5, <1>6, <1>7, <1>8, <1>9 DEF IInv

\* The controller gets on with the data.
LEMMA MoveDataStep ==
    ASSUME IInv, MoveData PROVE IInv'
<1>0. cmd.data \in {"none", "read", "write"} /\ cmd.blocks \in 0 .. MaxBlocks
      /\ MaxBlocks \in Nat /\ MaxPolls \in Nat
    BY CmdFacts, SdhcAssumption DEF IInv, TypeOK, SdhcAssumption
<1>1. TypeOK'
  <2>1. /\ status' \subseteq Status
        /\ lost' \subseteq {"reset", "error", "boundary"}
    BY StatusBits DEF MoveData, Device, host, main, IInv, TypeOK
  <2>2. left' \in 0 .. MaxBlocks
    BY <1>0 DEF MoveData, Device, host, main, IInv, TypeOK
  <2>3. rdy' \in BOOLEAN
    BY DEF MoveData, Device, host, main, IInv, TypeOK
  <2>4. UNCHANGED <<opt, host, main, isr, stat, hw, present, hwres>>
    BY DEF MoveData, Device, host, main
  <2>5. QED
    BY <2>1, <2>2, <2>3, <2>4 DEF host, main, IInv, TypeOK
<1>2. QuietInv'
    BY DEF MoveData, Device, host, main, IInv, QuietInv, Quiet, QuietBits
<1>3. FreshInv'
    BY DEF MoveData, Device, host, main, IInv, FreshInv
<1>4. IssuedInv'
    BY DEF MoveData, Device, host, main, IInv, IssuedInv, Quiet
<1>5. DoneInv'
    BY DEF MoveData, Device, host, main, IInv, DoneInv, Quiet
<1>6. TimeoutInv'
    BY DEF MoveData, Device, host, main, IInv, TimeoutInv, Quiet
<1>7. BufferInv'
    BY <1>0
       DEF MoveData, Device, host, main, IInv, TypeOK, QuietInv, IssuedInv,
           BufferInv, BlocksAgree, Quiet
<1>8. BlocksAgree'
    BY DEF MoveData, Device, host, main, IInv, BlocksAgree
<1>9. SuccessIsReal'
    BY DEF MoveData, Device, host, main, IInv, SuccessIsReal
<1>10. QED
    BY <1>1, <1>2, <1>3, <1>4, <1>5, <1>6, <1>7, <1>8, <1>9 DEF IInv

\* The transfer ends, in success or with an error.
LEMMA DataEndStep ==
    ASSUME IInv, DataEnd PROVE IInv'
<1>1. TypeOK'
  <2>1. /\ status' \subseteq Status
        /\ lost' \subseteq {"reset", "error", "boundary"}
    BY StatusBits DEF DataEnd, Device, host, main, IInv, TypeOK
  <2>2. hw' = "idle" /\ hwres' \in {"ok", "bad", "timeout"}
    BY DEF DataEnd, Device, host, main
  <2>3. UNCHANGED <<opt, host, main, isr, stat, left, rdy, present>>
    BY DEF DataEnd, Device, host, main
  <2>4. QED
    BY <2>1, <2>2, <2>3 DEF host, main, IInv, TypeOK
<1>2. QuietInv'
    BY DEF DataEnd, Device, host, main, IInv, QuietInv, Quiet, QuietBits
<1>3. FreshInv'
    BY DEF DataEnd, Device, host, main, IInv, FreshInv
<1>4. IssuedInv'
    BY DEF DataEnd, Device, host, main, IInv, IssuedInv, Quiet
<1>5. DoneInv'
    BY DEF DataEnd, Device, host, main, IInv, DoneInv, Quiet
<1>6. TimeoutInv'
    BY DEF DataEnd, Device, host, main, IInv, TypeOK, TimeoutInv, IssuedInv,
           QuietInv, Quiet, QuietBits
<1>7. BufferInv'
    BY DEF DataEnd, Device, host, main, IInv, BufferInv, Quiet
<1>8. BlocksAgree'
    BY DEF DataEnd, Device, host, main, IInv, BlocksAgree
<1>9. SuccessIsReal'
    BY DEF DataEnd, Device, host, main, IInv, TypeOK, SuccessIsReal, DoneInv,
           TimeoutInv, QuietInv, Quiet, QuietBits
<1>10. QED
    BY <1>1, <1>2, <1>3, <1>4, <1>5, <1>6, <1>7, <1>8, <1>9 DEF IInv

\* The card is ready again.
LEMMA BusyEndStep ==
    ASSUME IInv, BusyEnd PROVE IInv'
<1>0. cmd.data \in {"none", "read", "write"} /\ cmd.blocks \in 0 .. MaxBlocks
      /\ MaxBlocks \in Nat /\ MaxPolls \in Nat
    BY CmdFacts, SdhcAssumption DEF IInv, TypeOK, SdhcAssumption
<1>1. TypeOK'
    BY <1>0, StatusBits DEF BusyEnd, Device, host, main, IInv, TypeOK
<1>2. QuietInv'
    BY DEF BusyEnd, Device, host, main, IInv, QuietInv, Quiet, QuietBits
<1>3. FreshInv'
    BY DEF BusyEnd, Device, host, main, IInv, FreshInv
<1>4. IssuedInv'
    BY DEF BusyEnd, Device, host, main, IInv, IssuedInv, Quiet
<1>5. DoneInv'
    BY DEF BusyEnd, Device, host, main, IInv, TypeOK, DoneInv, IssuedInv,
           QuietInv, Quiet, QuietBits
<1>6. TimeoutInv'
    BY DEF BusyEnd, Device, host, main, IInv, TimeoutInv, Quiet
<1>7. BufferInv'
    BY DEF BusyEnd, Device, host, main, IInv, BufferInv, Quiet
<1>8. BlocksAgree'
    BY DEF BusyEnd, Device, host, main, IInv, BlocksAgree
<1>9. SuccessIsReal'
    BY DEF BusyEnd, Device, host, main, IInv, SuccessIsReal
<1>10. QED
    BY <1>1, <1>2, <1>3, <1>4, <1>5, <1>6, <1>7, <1>8, <1>9 DEF IInv

\* The card is pulled out or put in.
LEMMA SwitchStep ==
    ASSUME IInv, Switch PROVE IInv'
<1>1. TypeOK'
  <2>1. status' \subseteq Status
    BY StatusBits DEF Switch, Device, host, main, IInv, TypeOK
  <2>2. present' \in BOOLEAN
    BY DEF Switch, Device, host, main, IInv, TypeOK
  <2>3. QED
    BY <2>1, <2>2 DEF Switch, Device, host, main, IInv, TypeOK
<1>2. QuietInv'
    BY DEF Switch, Device, host, main, IInv, QuietInv, Quiet, QuietBits
<1>3. FreshInv'
    BY DEF Switch, Device, host, main, IInv, FreshInv
<1>4. IssuedInv'
    BY DEF Switch, Device, host, main, IInv, IssuedInv, Quiet
<1>5. DoneInv'
    BY DEF Switch, Device, host, main, IInv, DoneInv, Quiet
<1>6. TimeoutInv'
    BY DEF Switch, Device, host, main, IInv, TimeoutInv, Quiet
<1>7. BufferInv'
    BY DEF Switch, Device, host, main, IInv, BufferInv, Quiet
<1>8. BlocksAgree'
    BY DEF Switch, Device, host, main, IInv, BlocksAgree
<1>9. SuccessIsReal'
    BY DEF Switch, Device, host, main, IInv, SuccessIsReal
<1>10. QED
    BY <1>1, <1>2, <1>3, <1>4, <1>5, <1>6, <1>7, <1>8, <1>9 DEF IInv

LEMMA NextInv ==
    IInv /\ [Next]_vars => IInv'
<1> SUFFICES ASSUME IInv, [Next]_vars PROVE IInv'
    OBVIOUS
<1>1. CASE \E c \in Commands, d \in DmaModes : Send(c, d)
    BY <1>1, SendStep
<1>2. CASE Begin \/ End \/ Driver
    BY <1>2, BeginStep, EndStep, BusyWaitStep, PrepareStep, IssueStep, WaitStep
       DEF Driver
<1>3. CASE Handler
    BY <1>3, EnterStep, CheckErrStep, NoErrStep, CommandCompleteStep,
       ReadReadyStep, WriteReadyStep, TransDatablockStep,
       TransferCompleteStep, DmaInterruptStep, CardDetectStep DEF Handler
<1>4. CASE Answer \/ Switch
    BY <1>4, RespondStep, MoveDataStep, DataEndStep, BusyEndStep, SwitchStep
       DEF Answer
<1>5. CASE UNCHANGED vars
    BY <1>5 DEF vars, host, main, device, IInv, TypeOK, QuietInv, Quiet,
                FreshInv, IssuedInv, DoneInv, TimeoutInv, BufferInv,
                BlocksAgree, SuccessIsReal
<1>6. QED
    BY <1>1, <1>2, <1>3, <1>4, <1>5 DEF Next

(***************************************************************************)
(* Theorems                                                                *)
(***************************************************************************)
\* The invariant holds throughout: driver, handler and controller agree on
\* the phase of the command, on its completion and on the buffer.
THEOREM Invariance ==
    Spec => []IInv
BY InitInv, NextInv, PTL DEF Spec

\* socle_sdhc_send_command returns 0 only for a command the card has
\* answered in time and whose blocks have all been moved, whatever the order
\* in which the handler meets the error, the completion and the card switch.
THEOREM SuccessHolds ==
    Spec => []SuccessIsReal
<1>1. IInv => SuccessIsReal
    BY DEF IInv
<1>2. QED
    BY <1>1, Invariance, PTL

\* The blocks counted by the handler are those the controller has seen, and
\* the handler, which waits for the buffer without a bound, never waits for
\* one that is not enabled.
THEOREM TransferHolds ==
    Spec => []TransferSound
<1>1. IInv => TransferSound
    BY DEF IInv, BufferInv, HandlerNotStuck, TransferSound
<1>2. QED
    BY <1>1, Invariance, PTL
=============================================================================
