# Socle PDK diagnostics: a TLA+ verification project

The repository is the diagnostic program of the Socle PDK boards: a bare-metal
C program without an operating system. It has one main thread, which shows
menus and runs tests of the board's devices, and one interrupt context, which
preempts it. The devices (interrupt controller, DMA controller, Ethernet MAC,
serial controllers, SD host, clock, flash) run beside both. What is hard in this program is therefore
not an algorithm. It is the order in which the main thread, a handler and a
device touch the same few words.

Paths are given from the root of the project, `src/...` being the repository.

## 1. Inventory

| component | source | state | operations | talks to |
|---|---|---|---|---|
| interrupt driver | `src/platform/PDK_PC9223/irq.c` | vector table (handler, argument), controller registers | `request_irq`, `free_irq`, `irq_dispatch`, `init_irq_controller` | every driver registers here |
| interrupt self test | `src/src/Interrupt/interrupt.c` | flag set by `testISR` | `irq_test_mode_test` | interrupt driver, busy wait |
| busy waits | `src/lib/socle_lib/board.c` | none of its own | `sq_wait_for_int`, `socle_wait_by_poll` | flags set by handlers |
| DMA service | `src/src/DMA/dma.c` | per channel: lock, active, notifier, settings | `sq_request_dma`, `sq_free_dma`, `sq_enable_dma`, `sq_disable_dma`, setters | HDMA driver |
| HDMA driver | `src/src/DMA/panther7-hdma.c` | container of the shared line, one status register for both channels | request, free, enable, disable, two handlers | notifiers of the clients |
| HDMA clients | `src/src/PANTHER7-HDMA/panther7-hdma-ctrl.c`, `src/src/UART/uart-ctrl.c`, `src/src/SPI/spi-master-ctrl.c`, `src/src/SPI/spi-slave-ctrl.c` | completion flags, buffers | one test run | DMA service, busy wait |
| MAC driver, transmit | `src/src/MAC/if_socle.c` | ring, fill and reclaim index, `txScheduled`, CSR7 | `sMacFltrFrmXmit`, `sMacPacketSend`, `sMacTxRingClean`, `sMacTxSchedule`, `sMacInt` | device, test program |
| MAC driver, receive | `src/src/MAC/if_socle.c` | ring, pool of frames, `rxScheduled`, `rx_dead` | `sMacRxSchedule`, `sMacGetFullRMD`, `sMacRecv`, `sMacInt` | device, test program |
| MAC test program | `src/src/MAC/macctrl.c` | the `Test_...` settings, counters | one test per key | driver, PHY, filter |
| menu interpreter | `src/lib/socle_lib/test_item.c` | nested activations, `shell_layer`, `test_item_name` | `test_item_ctrl` | every test |
| I2C | `src/src/I2C/i2c.c`, `i2c-ctrl.c` | flags set by the handler, the slave's buffer | master and slave transfer, retries | interrupt driver |
| SD/MMC host | `src/src/SDHC_HOST/socle-sdhc.c` | current command, `cmd_done`, `tc`, block index | `send_command`, handler, card switch | interrupt driver |
| SD/MMC tests | `src/src/SDHC_HOST/sdhc-ctrl.c` | card type, address, bus settings | identification, transfers, erase | host driver |
| SPI master | `src/src/SPI/spi-master.c`, `spi-master-ctrl.c`, `eeprom-test.c` | buffer pointers, indices, two flags | `sq_spi_transfer`, handler, tests | interrupt driver |
| SPI slave and its master | `src/src/SPI/spi-slave-ctrl.c`, `sq-spi-slave-test.c` | `state`, three flags, storage, status byte | protocol between two boards | SPI controller, DMA |
| UART | `src/src/UART/uart-ctrl.c` | pattern and compare index, flag | loop-back runs, handler | interrupt driver |
| real-time clock | `src/src/RTC/rtc-ctrl.c` | flag, the clock's own registers | ten alarm tests, user settings | interrupt driver |
| GPIO | `src/src/GPIO/gpio-ctrl.c`, `gpio.c` | test environment, count of hits | loop-back tests, handler | interrupt driver |
| NOR flash | `src/src/NOR-MXIC/nor-mxic-ctrl.c` | `temp`, mode | sector test, write, erase | the chip |
| the rest | PWM, timers, watchdog, OTG, NAND, LCD, I2S, ADC, VIP/VOP, memory, SCU, libraries | registers | see section 7 | |

The properties that make a component correct:

* interrupt driver and its test: the verdict is true, no interrupt is left
  without a handler, the table keeps no pointer to a dead variable, the test
  returns whatever the board does;
* DMA: a completion that ends a wait is that of the current transfer and none
  is lost; buffers are written while no transfer uses them; the handler never
  calls through a NULL pointer; the line that the channels share is not given
  up under the other channel;
* MAC: the rings are queues (no descriptor refilled while the device owns it,
  frames whole, once, in order), the unbounded waits end, nothing that has
  arrived or been sent is forgotten;
* menu: the prompt shows where the user is, the verdict of an auto-test is that
  of all the tests it ran;
* serial buses and the SD host: what a call reports as done has been done,
  after however many retries and errors before it; handler and main thread
  agree on which byte or block an interrupt is about; waits end;
* tests: a good device passes in every order of the tests, a pass is real, a
  test leaves alone what is not its own, and it ends.

The behaviours that are hard here are interrupts between two stores of the main
thread, a late answer after a timeout, read-modify-write of a register that the
hardware changes, rings at their limits, a flag reset after the last look at
what it stands for, a retry of what has half happened, and what one test leaves
behind for the next. `PROJECT.json` lists each at its line under "hazards".

## 2. Modules

### Irq

Main thread: one step per store or register access of `irq_test_mode_test`,
`request_irq` and `free_irq`; `pc` names the next one. Handler: `irq_dispatch`
runs `testISR`, `irq_dispatch_clear` acknowledges. `Main` lets the main thread
move only while no handler runs and nothing is deliverable: the processor
samples its interrupt input before every instruction. In the timeout path the
code stores `result = -1` after `free_irq`; the model does so at the timeout,
which nothing can tell apart, since `result` is a local variable.

Three instances of "unknown" are nondeterministic: `wire` (where a software
trigger of each line ends up: the right line, another one, or nowhere), `Latch`
(when, or whether, the trigger gets there) and the reset value of IMR, which
`init_irq_controller` does not write. Devices may raise their lines outside test
mode, with one exception: between the store that clears the latches
(`interrupt.c:44`) and the one that enters test mode (`:47`) they are assumed
quiet. Without that assumption `NoFalsePass` does not hold: the latched line is
taken for a triggered one. The trigger is a one-shot; a trigger withdrawn
(`ISCR = 0`) before it is latched is gone.

### Hdma

A test is a script of calls in three parts, `Enter`, `Run` and `Leave`, with the
menu between them; `part` and `line` say which call is next. Within a call `step`
names the next store or register access of the function called, so that the
functions of the service and the driver are written once: `At(op, c)` is the
guard of the first action of a function, `In(s, c)` of the later ones, and `Go`
takes the next step or the next call. The
two-step read-modify-writes of the status register are
`ReadStatus` and the write in `panther7_hdma_enable` / `_disable` (main thread),
and `IsrReread`, `IsrWrite` (handler). The register clears a flag by writing 0
and ignores 1 (`panther7-hdma-regs.h:141`). `Clients` selects the tests a user
may start: `"self"` (one channel), `"pair"` (UART with Tx = 0, Rx = 1, or SPI
with Tx = 1, Rx = 0) and `"slave"`, the SPI slave test, which returns after a
timeout without disabling or freeing its channels (`leaked`). The shared line is level sensitive, so its acknowledge in
the interrupt controller is not modelled again. Data is left out: whether a
buffer is quiet is what matters. `expired`, a history variable, says that a wait
of the present visit to a two-channel test has given up.

### TxFifo, MacTx

`TxFifo` is what the transmit path promises: fragments are put and got in
order, and a packet's fragments follow one another. `MacTx` is the driver and
the device: the setup frame that every test sends after `sMacInit`, the fill
loop with its wait for a free descriptor, one step per OWN bit, the poll demand
with merging, the reclaim loop, the schedule routine and the handler. The
refinement mapping reads the queue off the OWN bits, from the device's index
on. The device may raise TI at the end of a packet or not: no descriptor asks
for it (TDESC1_IC is not set). `opt` holds what a build and a test set once:
the debug counters, automatic polling, and merging, which only the test of
interrupt mitigation uses, with automatic polling off and packets of one
descriptor (`macctrl.c:1647-1673`). `Tx_Underflow_Test`, which withholds the last OWN
bit on purpose, is left out, and so are the statistics.

### RxFifo, MacRx

`RxFifo` promises that good frames are read once, whole and in order. `MacRx`
has the device that fills descriptors segment by segment and cuts a frame off
when it runs out of them, the handler with `rx_dead`, the drain loop
with the second look at the ring, `sMacRecv` with its three ways out and the
poll demand, and the test that reads the pool. A frame is a tag, which
alternates, and a number of segments: enough to notice a lost, repeated or mixed
frame, since two frames next to each other differ. The refinement mapping is the
frames in the pool followed by the complete good frames in the ring: the n-th of
the latter ends at the descriptor of `Ends` that has `n - 1` others before it
(`Rank`), which says the same as filtering the ring and can be reasoned about.

`sMacInt` reads CSR5 and clears what it found; with `SMAC_INTCOUNTER_DEBUG`, which
`src/src/MAC/gMAC.h:22` defines, it does not mask the interrupts. `debug` is TRUE
for this, the configured build, and FALSE for the alternative the code keeps (in
`MacTx`: `opt.debug`). A run covers both. Each has a weakness the other one has
not (section 5).

CSR7, which enables interrupts, is one register for both directions, and
`sMAC_INT_ENABLE` reads it and writes it back (`if_socle.c:271-283`). Each module
has both steps (`ReadCSR7`, `WriteCSR7`), so that `sMacInt` may run in between, and
has the other direction's enable as well (`RxEnable` in `MacTx`, `TxEnable` in
`MacRx`): between its read and its write the handler may mask this direction's
interrupts, and the write then undoes the mask. `undone` records that, and
`forgot` that the handler has cleared an interrupt after the last look at the
ring; both are history variables. An enable for the other direction is possible
whenever the main thread is between calls in a build that masks; it is left out
while this direction is scheduled, or in the debug build, where no handler
changes CSR7. (`MacTestPolling` calls `sMacRxSchedule` first, so that the
transmit side may also be scheduled at the receive side's enable: its interrupts
are then masked already, or have been unmasked by an earlier write, and the
handler, which finds `txScheduled` set, changes nothing.) The test of interrupt
mitigation writes CSR7 itself: `ReturnToMask` in `MacTx`; `MacRx` leaves its
writes out. A descriptor that has been sent (`Transmit`) and a slot that has been
read (`Read`) are cleared in the models, not in the code: nobody looks at them
before they are filled again, and it keeps the state space small.

### TestItem, MCTestItem

Activations of `test_item_ctrl` form a stack; `shell_layer` and
`test_item_name` are shared. `start` is a history variable of an
activation. A test returns 0 or -1. The keys `?` and `i` change no state and
have no action. `MCTestItem` gives three nested menus. A key that is no digit
runs the item of an earlier key, or the first one (`test_item.c:91`), although
the code has an answer, "Invalid Option!", for keys that are none.

### Sdhc

`socle_sdhc_send_command` step by step (inhibit bits, set-up for one of three
DMA modes or the processor, the two unbounded waits for `cmd_done` and `tc`) and
`socle_sdhc_isr`, which reads the status once and works through its bits in
their order while the controller may set more. Errors, a switch that reports
removal and insertion at any moment, and SDMA boundaries come from the
controller. `lost` records the three ways in which the answer to a command is
gone: the handler has reset the lines because the card was removed, the
controller does not end a transfer that failed, a transfer crosses an SDMA
boundary. A CRC error is printed and reported as success; ADMA1 is refused.

### SdCard, MCSdCard

A session on a slot, command by command: `socle_sdhci_card_ident` with one action
per command, then a straight line of steps (`Script`) for the single and multiple
block tests, erase and the miscellaneous commands. Any command may not come
through, which is what `Sdhc` says a command may do; the card may be exchanged
between tests. The card is the state machine of the SD specification as far as
the code relies on it. `MCSdCard` gives the modes that are tried.

### I2c

`i2c_transfer` with its retries as the master, `socle_i2c_isr` section by section
as the slave, both on the registers of one controller. A byte stops on its way
for each of the two until it is told to go on. Noise makes the master or the
slave hear the opposite acknowledge, or takes the arbitration away.

### SpiSlave

Two boards. The master's side of `sq-spi-slave-test.c`, over `sq_spi_transfer` as
its callers see it, and `sq_spi_slave_protocol_run` with its handler and its DMA.
A run of the master may be given up at each of its waits (`Abort`), after which
the next run, or a reset, meets the slave where it is. `crossed` ends a behaviour
in which the handler of the slave has announced READY while its main program was
between its own change of state and its READY: the late store then shows READY
for a slave in the middle of a header. `SpiAssumption` allows the sizes of the code
(2048 bytes, FIFOs of 8) and every other multiple of the FIFO whose length fits the
two bytes of a header; a byte of the pattern is its place modulo 256, as in the code.
`Backlog`, at most 4 and no more than a FIFO, says how far an enabled handler may be
behind the wire. The limit is needed: with 5 bytes waiting, TLC finds
`HeaderIsExact` violated (pattern and FIFOs of 8). A byte takes 8192 bus clocks.

### Session, Sessions

`Session` is what the tests of the small devices share: the main thread in a
device's menu, the entry in the vector table, the flag of the handler, the wait
for it. The modules below extend it, and `Sessions` composes them: the user opens
the menu of one device and runs its tests in any order, any number of times. The
devices have lines of their own, so that a behaviour concerns one of them. A
line that is deliverable without a handler is served for ever, as `irq_dispatch`
does.

* `Uart`: the interrupt-driven loop-back with its handler, FIFOs and line (good,
  noisy or open; fast, or slower than the 10 s wait). A run that times out
  returns with the interrupts enabled. `late` records it; `lost` records bytes
  that then go over a full FIFO, behind the buffer, or into the divisor latch,
  and ends the behaviour.
* `Rtc`: the ten alarm tests with their data, the user's own settings, and the
  wait for the user's alarm, against a clock with a calendar that is good, slow
  or dead. `ALRM` is taken to stay until `RTC_ALRM_DIS` takes it back.
* `MacTest`: nineteen tests of the MAC menu (keys 3-7, 9, A-F, H, I, L, M, O, P,
  Y), and the PHY keys. A test is data: its settings, rounds of frames and what
  it looks at; the rings are those of `TxFifo` and `RxFifo`. Frames are lost,
  changed or leak through the filter; the filter may not take a type of
  address; the board may have no plug or no PHY.
* `Gpio`: the loop-back tests of a group of ports, with and without interrupts,
  level and edges, on a good loop back or one stuck at 0 or 1. The eight pins of
  a port count as one. An edge is taken to be latched only while its pin is not
  masked.
* `Nor`: the sector test, by hand and automatic, the write and the erase, by words
  and by bytes, on a chip that is good, slow, or has a cell that cannot be
  programmed. `past` ends a behaviour at an access outside `temp` or the chip.
* `SpiMaster`: `sq_spi_transfer` with its handler, the internal loop-back and the
  EEPROM test, on a board with at most one fault (slow or dead clock, a loop back
  that changes bytes, an EEPROM that is missing, protected or never ready). FIFO
  interrupts last while their level is reached, that of the end of reception
  until ISR is read, and the soft reset stops the controller.

## 3. Runs

A property of a run is often the conjunction of several smaller ones, each with
its own comment in the module: `SharingIsSafe` is `TypeOK`, `NoNullCall`,
`NoStorm` and `OwnsChannel`, and so on.

| run | bounds | states | properties |
|---|---|---|---|
| `irq` | 3 lines, Threshold 2 | 40,337 | `TypeOK`, `NoFalsePass`, `NoUnhandledInterrupt`, `NoDanglingParam`, `TestReturns` |
| `hdma` | three clients, Threshold 1 | 220,911 | `CompletionIsCurrent`, `NoLostCompletion`, `FillsQuietBuffers`, `SharingIsSafe`, `MenuReturns` |
| `tx` | 4 descriptors, packets of up to 3, merging of 0 or 1, both builds, with and without automatic polling | 409,039 | `RingSound`, `FifoSpec` (refinement of `TxFifo`), `SendReturns`, `Reclaimed` |
| `rx` | 3 descriptors, 2 segments, 3 slots, 3 unread, 1 bad, both builds | 726,143 | `RxSound`, `FifoSpec` (refinement of `RxFifo`), `RxGoesOn` |
| `menu` | 3 menus, 2 failures | 2,091 | `PromptSound`, `VerdictIsTrue`, `AutoTestEnds` |
| `sdhc` | 2 blocks, 1 poll | 943,624 | `SuccessIsReal`, `TransferSound`, `SendReturns` |
| `sdcard` | 4 kinds of cards, 2 sectors, 1 fault in a test | 7,565,152 | `PassIsReal`, `IdentIsTrue`, `NoStaleData`, `BusLegal` |
| `i2c` | 2 bytes, 2 attempts, three kinds of noise | 578,855 | `RetryIsExact`, `StoresInBounds`, `Handshake`, `TransferEnds` |
| `spi` | pattern of 8, FIFOs of 4, 2 bytes waiting for the handler | 478,640 | `PassIsReal`, `HeaderIsExact`, `FlowControl`, `BothGoOn` |
| `sessions` | see below | 812,949 | `ContextsSafe`, `GoodDevicePasses`, `PassIsReal`, `LeavesAlone`, `TestsEnd` |
| `hdma_stale`, `sdcard_speed` | as small as the case allows | | violations, section 5 |

What the runs show beyond the names:

* `hdma`: in any sequence of the three clients, with timeouts, late completions
  and leaked channels, a completion ends the wait it belongs to (one channel),
  the handler finds its notifier, the shared line keeps its handler as long as
  a channel can raise it and none has been left behind, and every menu comes back.
* `tx`, `rx`: what `FifoSpec` says holds in every interleaving of driver, handler and
  device; what depends on interrupts holds but for those that are forgotten,
  and `ForgetsOnlyUnmasked` says when that can be.
* `sdhc`: a command that is reported as done has been answered and has moved all
  of its blocks, whatever error ended the one before.
* `sdcard`: a card is taken for what it is although it was exchanged and answers
  were lost; a test that passes has moved the data to and from that card, at
  the right unit of address; commands meet the card in a state that allows them.
* `i2c`: a retried transfer moves exactly the message.
* `spi`: the flow control by the status byte holds, no data byte is taken for a
  header, and a slave that is reset becomes ready again.
* `sessions`: the conjuncts are listed in `Sessions.tla`. `SpiInPlace`, for one,
  says that `sq_spi_transfer` starts on a controller in which nothing of a
  given-up transfer is left, and that the handler never leaves the buffers.

Why the bounds are enough:

* Three lines are a first, a middle and a last one, and allow every way of
  crossing two and killing one. `Threshold` counts polls; two make a wait that is
  answered at once, late, and too late.
* Two channels is what the DMA controller has.
* A packet of three descriptors in a ring of four is needed: with
  packets of two, the reclaim in the middle of a packet gives up at most one of
  its descriptors, and the index test alone would still protect the ring. With
  three the OWN test of `sMacPacketSend` is what keeps `FifoSpec` true.
* Three receive descriptors and frames of two segments make a frame wrap around
  the ring, be cut off, and leave a descriptor over while one is being taken. A pool of three slots holds two frames,
  and three unread ones overfill it. `MaxUnread` and `MaxBad` bound the network,
  not the driver.
* Two failures put one into a nested menu and one after it.
* Two blocks have a first and a last one; an error can come before, between and
  after them. One fault in a test of a card is one at each of its commands, and
  the next test may have its own.
* Two bytes on the I2C bus are one that is acknowledged and one that is not; two
  attempts are a failure and a retry, or giving up.
* A pattern of two FIFOs, in blocks of a FIFO or half of one, makes the SPI slave
  test meet an empty, a half full and a full FIFO, and the misaligned last block.
* `sessions`: a UART pattern of two FIFOs of two bytes needs the handler to refill;
  a clock that moves by 0 or 1 between two steps lets it tick anywhere; the user
  enters the data of a test of the time and one of the date; two sectors of two
  words (four bytes) are one to use and one to keep; the SPI pattern of 6 and the
  page of 3 with its two bytes of header exceed the FIFO of 4, so that the
  transmit interrupt is needed, and two pages make the address go round.

Deadlock is checked except where the program may really stop: after the user's
exit, where a forgotten or stranded receiver (section 5) and a network at its
bound leave nothing to do, and where a behaviour ends at an access the code
does not mean.

## 4. Fairness

* Weak fairness of the main thread and of the handlers: the processor runs
  whichever context may run. The user is not obliged to call anything.
* `Irq`, `Hdma`: no fairness of the board or the transfers. A wait must end by
  its own count.
* `MacTx`: weak fairness of the device, because `sMacPacketSend` and
  `sMacFltrFrmXmit` wait for it without a bound ("DeadLock until Tx Buffer
  available", `if_socle.c:1618`). `SendReturns` is what the code gets from it.
* `MacRx`: a frame that has begun comes to its end; the network may be silent
  and the test need not read.
* The tests call `MacTestPolling` again and again (`macctrl.c:3655` and others):
  weak fairness of `Poll`.
* `TestItem`: tests return; the user need not press a key.
* `Sdhc`: the controller answers every command, and the handler runs. Strong
  fairness of the main thread: the switch of the slot, which is debounced, may
  raise interrupts again and again, but leaves it time in between.
* `I2c`, `SpiSlave`: the processors, the bus and the DMA engine go on. Neither
  an operator nor noise is obliged to do anything.
* `Sessions`: the processor and the devices go on, for every device by itself. A
  dead clock, an open line and a slow flash have no fair action: a test must end
  by its own count.

In `Irq`, `Hdma`, `MacRx`, `Sdhc` and `Sessions` an enabled interrupt is taken
before the next step of the main thread. In `MacTx` it may also be taken later,
which allows more.

## 5. What the code does otherwise than it says

Two disagreements with a comment are runs that TLC violates, with the quotation
under "findings".

* `hdma_stale`: UART and SPI reset the flag before they disable the channel. The
  late end of a transfer that timed out, taken in between, ends the next wait at
  once. The controller's own test has the right order.
* `sdcard_speed`: the card test looks at the answer to the CMD6 that only checks,
  since the one that switches wrote its answer elsewhere. A card that did not
  switch is then clocked at high speed.

Properties of passing runs have exceptions where the code does not keep what
they say. Each is written into the property and named in its comment:

* `NoLostCompletion` is about tests with one channel. With two, clearing
  one channel's flags with a read-modify-write also clears a flag the other
  channel raises between the read and the write.
* `FillsQuietBuffers` excepts the tests with two channels. They fill their buffers
  (`uart-ctrl.c:699-700` and `747`, `spi-master-ctrl.c:517-518`) before they disable
  the channels (`uart-ctrl.c:750` and `765`, `spi-master-ctrl.c:555` and `569`). After a
  wait that has given up, the receive channel may then still be writing what the
  next run clears. The property names when: only after a wait of the same visit
  has given up (`expired`), or if the slave test has left the channel behind. The
  transmit channel, for which these tests never wait, is not looked at.
* `NoStorm` and `OwnsChannel` (in `SharingIsSafe`), `NoLostCompletion` and `MenuReturns`
  speak of states in which the slave test has left no channel behind; `NoNullCall`
  and `CompletionIsCurrent` hold with one left behind as well.
* `Reclaimed` and `Taken` except interrupts that `sMacInt` forgets (`forgot`): it
  clears one between the last look at the ring and the reset of `txScheduled` or
  `rxScheduled`. With `SMAC_INTCOUNTER_DEBUG`, the configured build, this may happen at
  any time. With interrupts masked it may happen only after the mask has been
  undone (`undone`): `sMacInt` runs between the read and the write of CSR7 in the
  other direction's `sMAC_INT_ENABLE`, which then writes back what it has read.
  `ForgetsOnlyUnmasked` (in `RingSound` and `RxSound`) says that there is no third way.
* `NotStranded` is about the debug build without merging. In the build that masks,
  RU may be noticed when no descriptor is left to give back, so that no poll
  demand is issued and the receiver stays suspended: TLC finds this as soon as
  `debug` is taken out of the property. `DeathIsKnown` holds in both builds.
* `RxGoesOn` is about a pool with room. With a full pool the drain loop cannot
  end; its caller is the only one that could empty the pool.
* `UnderflowOnlyWhileGiving`: the OWN bits are given first to last; a device still
  running from the packet before can meet the first fragment without the second.
* A stronger form of the ring invariant, "every owned descriptor lies between the
  reclaim index and the fill index", does not hold: the reclaim in the middle of
  a packet passes the packet's own descriptors. `FifoSpec` and `TxFinishIsTrue`
  show that no packet is harmed.
* `TransferEnds` (I2C) excepts a lost arbitration, after which the master waits
  for an acknowledge interrupt that never comes. `RetryIsExact` excepts tests
  after a transfer that gave up, which may leave `gen_call_addr_str` set, so that
  the slave swallows the first byte of the next write.
* `CommandLegal` (in `BusLegal`) is about tests in which no command is lost.
* `IdentIsTrue`: the SDIO bit of a card's type is kept for the next card, which is
  then "unknown" (`sdhc-ctrl.c:1404`); identification returns 0 without a card
  when CMD1 times out (`:1428`).
* `BothGoOn` excepts a reset of the SPI slave between its change of state and the
  clearing of its flags. Without a reset, a slave whose master has gone fills its
  FIFO for ever.
* `GoodDevicePasses` and `ContextsSafe` except a UART whose last run was given up
  (at 1200 baud and below a pattern takes longer than the wait), and an alarm that
  comes between `RTC_ALRM_DIS` and the reset of the clock.
* `TestsEnd` excepts what waits without a bound: `rtc_wait_for_alarm_test`, the
  setup frame of a MAC that has no PHY (all tests but 3, 4 and Y ignore the result
  of `sMacInit`), a level test on a GPIO pin stuck at its level, and a transfer of
  the SPI master that only sends, on a controller that stands still: its flag is
  set when the FIFO has been filled, so that the 30 s wait does not guard it, and
  the last loop of `sq_spi_transfer` (`spi-master.c:125`) has no bound.
* `LeavesAlone` is about writes to the flash that succeed and begin on a chip that
  shows its memory. A program that fails leaves it showing its status, because the
  reset is commented out (`nor-mxic-ctrl.c:462`); the next automatic test then
  finds every sector used, and passes, and the next write copies the status.

Seen on the way, and outside of every property: a line latched between
`interrupt.c:44` and `:47` is taken for a triggered one. By bytes a flash sector
has twice as many cells as `temp`; the size of the flash passes as an
address. A word `0x00ff` passes for erased. The GPIO test without interrupts
passes on a loop back stuck at 1. The pattern of the EEPROM test never changes,
so that one which has become write-protected after a pass still passes. After a
timeout the handler of the SPI master keeps pointers to the dead variables of
its caller until the next test resets the controller. The I2C test of the 24C16
writes behind `buf[9]` and reads 4096 bytes into 2048 (`i2c-ctrl.c`). Two keys
of the keypad at once make its test write in front of `kpd_array`.

## 6. Proofs

Eight modules hold theorems, each about the module it extends. All hold for every
value of the constants that the module's assumption allows, and none has another
hypothesis unless it is stated below. In each, `Invariance` proves
`Spec => []IInv` for an inductive invariant `IInv` (and for the further ones named below), from one lemma per action (or
per group of actions that change the same few variables), which `NextInv`
combines; the other theorems follow from it. TLC has checked every `IInv` as an
invariant of a run before it was proved.

| Module | Theorem | States |
|---|---|---|
| `Irq_proofs` | `TypeCorrect` | `TypeOK` |
| | `PassIsTrue` | `NoFalsePass` |
| | `AlwaysHandled` | `NoUnhandledInterrupt` |
| | `NothingDangles` | `NoDanglingParam` |
| `Hdma_proofs` | `SharingHolds` | `SharingIsSafe` |
| | `FillsQuiet` | `FillsQuietBuffers` |
| | `CompletionCurrent` | `CompletionIsCurrent` |
| | `NothingLost` | `NoLostCompletion` |
| `MacTx_proofs` | `RingIsSound` | `RingSound` |
| | `RingIsFifo` | `FifoSpec`: `MacTx` implements `TxFifo` |
| `MacRx_proofs` | `RxIsSound` | `RxSound` |
| | `RingAndPoolAreFifo` | `FifoSpec`: `MacRx` implements `RxFifo` |
| `TestItem_proofs` | `PromptIsSound` | `PromptSound` |
| | `VerdictHolds` | `VerdictIsTrue` |
| `Sdhc_proofs` | `SuccessHolds` | `SuccessIsReal` |
| | `TransferHolds` | `TransferSound` |
| `I2c_proofs` | `RetriesAreExact` | `RetryIsExact` |
| | `StoresStayInBounds` | `StoresInBounds` |
| | `HandshakeHolds` | `Handshake` |
| `SpiSlave_proofs` | `PassesAreReal` | `PassIsReal` |
| | `HeadersAreExact` | `HeaderIsExact` |
| | `FlowControlHolds` | `FlowControl` |

### Irq: any number of lines, any threshold

None of the safety properties is inductive: they speak of the end of a call, or
of what is deliverable, and say nothing of how the test got there. All follow
from `IInv` (in `Irq`):

* `TableInv`: handler, argument and enable bit are set for the line under test
  exactly between the stores that set and reset them, and for no other line.
* `TriggerInv`: where the one trigger of the current line can be: not latched
  yet, latched on the line it is wired to, or served. This is the heart: a
  latched wrong line cannot be served, since only the line under test is
  enabled, and after a timeout a trigger that was served late has been
  acknowledged before `free_irq` withdraws the handler.
* `ResultInv`: while the result is 0, every line tested so far is wired to
  itself.

### Hdma: any set of tests, any number of polls

The four theorems hold for every subset of the tests and both orders of the
channels of `"pair"`. That a wait
must end by polls and not by time makes no difference to them: transfers and
interrupts may come at any moment. `IInv` has eight parts besides the types:

* `PlaceInv`, with the lemma `WhereIs`: where in its script the main thread is,
  and in which function; the proofs of the actions use only this and never the
  scripts;
* `OwnerInv`: `Phase` says what a channel is to the running test (not requested,
  being requested, its own, being freed), and lock, notifier and container entry
  go with the phase; what is locked and not the test's was left behind by the
  slave test (`leaked`);
* `ActiveInv`: a channel runs, or has flags, only while it is active or being
  disabled, and a test knows which of its channels are not (`Stopped`);
* `LineInv`: the line is enabled with its handler, except in the middle of a
  request or a free, when nothing is live. Between tests it is enabled
  exactly if both channels have been left behind. This is the part one does not
  see in the code: a free gives up the line of *both* channels, and a request of
  a locked channel sets nothing up; a test finds the line enabled all the same,
  unless the only channel it uses was left behind and the other one has been freed
  since;
* `HandlerInv`: the handler runs on behalf of a live channel;
* `ReportInv`, `ModeInv`, `WaitInv`: from the reset of the flags to the end of the
  wait, every flag, raised, read by the handler or stored, is of the transfer
  started last, and the handler's write back clears none that it does not report.
  `WaitInv` assumes `leaked = {}`, as the property does: a flag raised between
  the read and the write of a register shared with a second live channel is lost.

For the two-channel tests `FillsQuiet` needs two more. `MaskInv`: an active channel's
interrupt is enabled. `PairInv`: until a wait of the visit gives up, the receive
channel runs only from its enable to the end of the wait, since whatever reports
its end (`Told`) comes from the transfer started last.

### MacTx: any ring, any packets of up to `MaxFrag` fragments

`RingSound` speaks of the counters and of single descriptors; what makes it true
is the shape of the ring, which no variable holds:

* `OwnInv`: the OWN bits are one stretch from the device's position on;
* `IndexInv`: that stretch and the fragments filled and not yet given end at
  `txIndex`, and `txCount` is the distance of the driver's two indices;
* `PacketInv`: the fragments filled follow the owned ones, in order, and only the
  last one of a complete packet carries the last-segment bit;
* `FrameInv`: the owned descriptors end with a packet, except while the OWN bits
  of one are being set;
* `PhaseInv`: what is left to fill or to give at each place of the main thread.

A second invariant, `MaskInv`, is about the interrupts. Its `ScheduleInv` says that
from the setting of `txScheduled` to the write that enables them both interrupts
are disabled, so that `sMacInt` cannot find one to forget, in the build that masks
and as long as no write of CSR7 has undone the mask (`opt.debug \/ undone \/
ScheduleInv`); `ForgetsOnlyUnmasked` follows.

`PhaseInv` shows something the code does not say: `sMacTxRingClean`, called for
room in the middle of a packet, takes the packet's own descriptors, which the
device does not own yet, for sent ones, and may count them as reclaimed. It does
no harm, since the fill loop looks at the OWN bit of `txIndex` itself and a
packet is shorter than the ring (`MaxFrag <= NumTds - 1`): the theorem needs that
assumption. `RingIsFifo` maps the descriptors from the device's index on to the queue;
giving an OWN bit maps to a put, the device's end of a descriptor to a get, and
every other step leaves the queue alone.

### MacRx: any ring, any pool

* `OwnInv`, `IndexInv`: the device owns one stretch from its position on; what it
  does not own and the driver has not taken starts at `rxIndex`;
* `ChainInv`: each segment in the ring is the next one of the frame before it, or
  the first of another one, up to the segment the device receives next;
* `HeadInv`: the frame being assembled in `rx_PooliWrite` is whole up to here and
  goes on with the next segment of the ring;
* `PoolInv`: the slots between the pool's two indices hold whole frames;
* `StrandInv`: in the debug build without merging, a suspended device has told so
  in an interrupt that is still to come while a descriptor is still to be given
  back, or `rx_dead` remembers it.

`MaskInv` is that of `MacTx`, with `DeathIsKnown` added, in every build. `RxIsSound` has
no hypothesis; its conjuncts have their own: `NotStranded` speaks of the debug
build without merging only, and the theorem does not deny that the other one can
be stranded. `RingAndPoolAreFifo` holds with merging
or without, with frames in error kept or dropped. Its mapping numbers the good
frames in the ring by their last descriptors. That every number up to their count is
that of exactly one of them is a pigeonhole argument (`FS_Injection`), which
takes the place of an induction over the ring.

### TestItem: any menus that `NestingAssumption` allows

* `StackInv`: menus down the stack are nested, indices are in range;
* `CallInv`: each activation waits in the place that calls the next one, and the
  `err_flag` of an auto-test tells what had failed when it made the call;
* `TopInv`: the same of the activation on top, before and after a result;
* `NameInv`, `PromptIsPath`: the shared name table is the path of the stack.

`VerdictIsTrue` speaks of the auto-test on top only; `CallInv` is needed because
the answer of a nested one is added to what its caller already knew. The number
of levels, items and auto-test rounds is arbitrary; 20 levels are the limit of
the table (`NestingAssumption`).

### Sdhc: any number of blocks

* `QuietInv`, `FreshInv`: no interrupt but that of the switch, and the end of a
  busy wait, reaches the handler between two commands, so what `send_command`
  resets before it issues one stays reset;
* `IssuedInv`, `DoneInv`: a completion the main thread waits for is the one of
  this command;
* `TimeoutInv`: a time-out is in the status no later than the completion that
  comes with it, and the handler meets it first. This is what
  `SuccessIsReal` rests on: it depends on the order in which the handler works
  through one reading of the status, errors first;
* `BufferInv`: the handler is at a block only while the controller has its
  buffer ready for it.

### I2c: any length of the pattern, any noise, any number of tries

* `HandlerInv`, `FlagInv`: one interrupt at a time, the one the bus waits for, and a
  flag is set only for the wait the master is in;
* `PhaseInv`, `MessageInv`: where bus and message are while the master is at each
  of its places;
* `AddressInv`, `CallInv`: what the slave takes the next byte for;
* `IndexInv`: how far the slave's index may be behind, or before, the master's
  count, with noise and retries. It gives `StoresInBounds`;
* `WriteInv`, `ReadInv`: the prefix of the pattern that has arrived, which gives
  `RetryIsExact` for an attempt that follows any number of failed ones.

`socle_i2c_isr` ignores what it has stored of an attempt that failed because
the next address resets its index; the invariant needs exactly this.

### SpiSlave: any pattern, any FIFO, any number of polls

The three theorems cover every interleaving of the two boards, the handler and the
DMA engine, runs given up at any wait, resets, and the slave's program stopped and
started, up to the step that sets `crossed`; `IInv` is `TypeOK /\ (~crossed => Inv)`.
What makes the proof possible is that `Bytes` and `Wire` take the slave's FIFO and
what the master has still to shift as one sequence: a byte that goes over the wire
changes neither, so no part but `RoomInv` has to know how far the wire has got.

* `MasterInv`, `SlaveInv`, `DmaInv`, `RegInv`: the control of both programs, and what
  `ier`, TX_REG0 and RX_REG0 say of it. From READY to the end of a phase (`Mid`) no
  reset can be in progress, since the master that asks for one is at another place;
* `IdleInv`, `HeaderInv`, `DataInv`: what a slave that waits for a command has before
  it on the wire (zeros, and then a whole header, or the exit command as the last
  byte of all), what it has inside a header (exactly the rest of it), and in a command.
  They give `HeaderIsExact`. That only zeros are left over is not obvious: the
  last block of a write may be half a FIFO too long, and what the master reads
  behind its pattern is the compare buffer, which it has cleared, and 0 is no
  command;
* `RoomInv`: the FIFO has room for the block that is on its way, which gives
  `NoOverrun`;
* `FlagInv`: a completion flag is set only if its transfer is over, except while a
  reset is being recovered from (`recovering`), when all are set and the command
  has to be given up; that excuse is harmless because no run is `Mid` then;
* `WriteInv`: the wire carries the bytes for the storage from `Base` on, in order,
  and what lies below is of this run; at the end of the command everything is;
* `ReadInv`: what a reading command has put is what the master has already
  compared or the transmit FIFO still holds, `i + Len(txfifo) = Cnt`.

`PassIsReal` follows from `WriteInv` and `ReadInv` together: the storage is of this run
when the write is over, although the slave keeps an older copy of the same pattern,
and the compare buffer is filled from it.

### How far the proofs can be trusted, and what is not proved

* The proof system's translation of `Len` for its SMT solver assumes
  `DOMAIN s = 1 .. n <=> Len(s) = n` with a natural `Len(s)` for every value `s`,
  which no function with another domain satisfies. All eight modules have therefore
  also been proved with that axiom cut down to the direction that holds.
* Overlapping alternatives of a `CASE` give the prover a choice TLC does not make;
  `FirstByte` and `Stages` of `I2c` and `Lands` of `SdCard` are written without
  overlap.
* In `I2c` the byte codes of addresses are negative: the real
  `PATTERN_BUF_SIZE` is 2048 (`i2c-ctrl.c:255`), and a code that is a byte of the
  pattern for a long enough pattern would make the theorems false, or true only
  of short ones.
* Only model-checked: `SdCard` and `Sessions`, the action properties
  that compare two commands or two runs, and all liveness, which together with
  fairness and `ENABLED` is beyond the proof system.

## 7. Not modelled

`PROJECT.json` gives the reason for each component. In short:

* Most of the repository's lines are tables, register layouts, data (compressed
  patterns, fonts, images), vendor stacks (zlib, the USB device stack), and
  drivers for boards other than the configured one: OTG beyond its menu, NAND,
  the generic HDMA and A2A controllers, LCD, I2S, VIP/VOP. They have no state
  machine to model, or are not part of the configured build.
* Timers and PWM: one flag set by a handler and polled, the pattern of `Rtc`; the
  verdicts depend on how the counters chain and reload, which the code does not
  tell.
* Watchdog and power-off: they end the program.
* `Sdhc` is about slots 0 to 2. The loops after each word of a block
  (`socle-sdhc.c:531` and `541`) apply their mask to the address instead of the value
  and read HRS0 there, which is not 0, so that they fall through; on slot 3 they
  read another register (SRS0, when the processor writes), and could wait for ever.
* I2C: the section for an abnormal stop (`i2c.c:342-347`), which reports and clears:
  the one master is assumed to stop between bytes only.
* The user's settings of the clock are one step in `Rtc`, although time and date are
  two stores: no handler is registered at that time.
* MAC: the tests of interrupt mitigation, missed frames and withheld descriptors
  (8, G, J, K, N, R, T, U, V, W, Z), which depend on the controller's FIFO and
  timers; the real Ethernet tests, which need a second board; bit-banged MII
  and SROM accesses; the hash function.
* SD: the manual tests, which repeat the automatic ones with the user's numbers;
  decoding CSD, CID and SCR.
* SPI: the touch panel, converter and WiFi tests. `dependency.h` disables these,
  the EEPROM test and the slave test in this configuration; the last two are
  compiled and modelled.
* GPIO: keypad and LED tests, which `GDR_GPIO` takes out of the menus.
* UART: the GPS and module tests, which print what a peripheral sends.

## 8. Plan

1. Done: `Irq`, `Hdma`, `TxFifo`/`MacTx`, `RxFifo`/`MacRx`, `TestItem`, `Sdhc`,
   `SdCard`, `I2c`, `SpiSlave`, and `Sessions` with its six devices; proofs for
   `Irq`, `Hdma`, `MacTx`, `MacRx`, `TestItem`, `Sdhc`, `I2c` and `SpiSlave`.
2. Left to prove: `NoStaleData` and `BusLegal` of
   `SdCard`, then `ContextsSafe` of `Sessions`, of which the interrupt contexts
   of the six devices need an invariant each.
