------------------------------ MODULE Sessions ------------------------------
(***************************************************************************)
(* The user in the menu of one of the small devices.  The devices have     *)
(* lines of their own and share no state but the main thread, so that a    *)
(* behaviour is about one of them.                                         *)
(***************************************************************************)
EXTENDS Uart, Rtc, MacTest, Gpio, Nor, SpiMaster

vars == <<session, uvars, rvars, mvars, gvars, nvars, svars>>

Init ==
    /\ SessionInit({"uart", "rtc", "mac", "gpio", "nor", "spi"})
    /\ UartInit /\ RtcInit /\ MacInit /\ GpioInit /\ NorInit
    /\ SpiInit
    /\ dev # "rtc"  => speed = "dead"
    /\ dev # "uart" => uopt = [line |-> "open", fast |-> TRUE]
    /\ dev # "mac"  => board = "nophy"
    /\ dev # "gpio" => loop = "good"
    /\ dev # "nor"  => word /\ ~slow /\ bad = {}
    /\ dev # "spi"  => sopt = Good

\* Behaviours end where a late interrupt of the UART or a write to the
\* flash has made an access that the code does not mean: what follows is
\* not defined by it.
UartGoes(A) ==
    /\ dev = "uart" /\ lost = {} /\ A
    /\ UNCHANGED <<rvars, mvars, gvars, nvars, svars>>
RtcGoes(A) ==
    dev = "rtc" /\ A /\ UNCHANGED <<uvars, mvars, gvars, nvars, svars>>
MacGoes(A) ==
    dev = "mac" /\ A /\ UNCHANGED <<uvars, rvars, gvars, nvars, svars>>
GpioGoes(A) ==
    dev = "gpio" /\ A /\ UNCHANGED <<uvars, rvars, mvars, nvars, svars>>
NorGoes(A) ==
    /\ dev = "nor" /\ past = "no" /\ A
    /\ UNCHANGED <<uvars, rvars, mvars, gvars, svars>>
SpiGoes(A) ==
    dev = "spi" /\ A /\ UNCHANGED <<uvars, rvars, mvars, gvars, nvars>>

Next ==
    \/ UartGoes(UartMain)
    \/ UartGoes(UartHandler)
    \/ UartGoes(UartDevice)
    \/ RtcGoes(RtcMain)
    \/ RtcGoes(RtcHandler)
    \/ RtcGoes(RtcDevice)
    \/ MacGoes(MacMain)
    \/ MacGoes(MacLoopBack)
    \/ GpioGoes(GpioMain)
    \/ GpioGoes(GpioHandler)
    \/ NorGoes(NorMain)
    \/ NorGoes(ChipFinish)
    \/ SpiGoes(SpiMain)
    \/ SpiGoes(SpiHandler)
    \/ SpiGoes(SpiDevice)
    \/ SpiGoes(EepromReady)

\* The processor, the controllers and the clock go on.  The user need not,
\* nor need a flash that is too slow.
Busy == pc \notin {"closed", "menu"}

Spec ==
    /\ Init /\ [][Next]_vars
    /\ WF_vars(UartGoes(Busy /\ UartMain)) /\ WF_vars(UartGoes(UartHandler))
    /\ WF_vars(UartGoes(UartDevice))
    /\ WF_vars(RtcGoes(Busy /\ RtcMain)) /\ WF_vars(RtcGoes(RtcHandler))
    /\ WF_vars(RtcGoes(RtcDevice))
    /\ WF_vars(MacGoes(Busy /\ MacMain)) /\ WF_vars(MacGoes(MacLoopBack))
    /\ WF_vars(GpioGoes(Busy /\ GpioMain)) /\ WF_vars(GpioGoes(GpioHandler))
    /\ WF_vars(NorGoes(Busy /\ NorMain))
    /\ WF_vars(SpiGoes(Busy /\ SpiMain)) /\ WF_vars(SpiGoes(SpiHandler))
    /\ WF_vars(SpiGoes(SpiDevice)) /\ WF_vars(SpiGoes(EepromReady))

TypeOK ==
    /\ SessionTypeOK
    /\ CASE dev = "uart" -> UartTypeOK [] dev = "rtc" -> RtcTypeOK
         [] dev = "mac" -> MacTypeOK [] dev = "gpio" -> GpioTypeOK
         [] dev = "nor" -> NorTypeOK [] dev = "spi" -> SpiTypeOK

\* An interrupt never finds its handler gone: free_irq takes the handler
\* out of the table before it disables the line, and an interrupt between
\* the two would be served for ever.  The exceptions are a UART whose last
\* run was given up, a clock that is slower than the wait, and the wait for
\* an alarm of the user, which an earlier alarm may end.
Handled ==
    iec /\ ~vec => /\ dev = "uart" /\ Line => late
                   /\ dev = "rtc" /\ alrm => speed = "slow" \/ test = "user"
                   /\ dev = "gpio" => ~Raised
                   /\ dev = "spi" => ~SpiLine

\* The two contexts get on with one another whatever runs were given up:
\* handlers are there when interrupts come, a handler works on the buffers
\* and the registers of the run it belongs to, and an alarm is taken by the
\* test that has set it.
ContextsSafe == TypeOK /\ Handled /\ WritesInPlace /\ AlarmIsOwn /\ SpiInPlace

\* A device without a fault passes every test, in any order of the tests,
\* whatever the ones before it left behind.
GoodDevicePasses ==
    /\ GoodLinePasses /\ GoodClockPasses /\ GoodMacPasses /\ GoodPortsPass
    /\ GoodFlashPasses /\ GoodSpiPasses

\* A test that passes has seen the device do what it tests: no frame, pin,
\* cell or byte of an earlier test, and none that was changed, makes it pass.
PassIsReal ==
    MacPassIsReal /\ PortPassIsReal /\ FlashPassIsReal /\ SpiPassIsReal

\* A test leaves alone what is not its own: the settings that other tests
\* start from, and the data in the flash.
LeavesAlone == SettingsKept /\ WriteKeepsSector /\ AutoKeepsUsed

\* Every test comes to an end, with a dead, slow, open or noisy device too,
\* and the user gets the menu back: the two contexts never wait for one
\* another, and no interrupt is served for ever.  What a given-up run or an
\* alarm later than the wait may do is excepted, and so is the wait for the
\* user's own alarm, which has no bound.  A MAC test without a PHY is an
\* exception: most tests do not look at the result of sMacInit, and then
\* wait for a setup frame that the controller never takes.  So is a level
\* test of a GPIO pin that is stuck at its level: the handler cannot end
\* the interrupt.  So is a transfer of the SPI master to a controller that
\* stands still, if it only sends: the last loop of sq_spi_transfer has no
\* bound.  Behaviours that an access outside temp or the flash ends are no
\* claim.
TestsEnd ==
    Busy ~> \/ ~Busy
            \/ late \/ speed = "slow" \/ test = "user"
            \/ dev = "mac" /\ pc = "filter" /\ ~chip.on
            \/ dev = "gpio" /\ genv.level /\ loop # "good"
                 /\ GetValue = genv.event
            \/ dev = "spi" /\ pc = "drain" /\ sopt.clock = "dead"
            \/ past # "no"
=============================================================================
