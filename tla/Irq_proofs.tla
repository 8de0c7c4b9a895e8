----------------------------- MODULE Irq_proofs -----------------------------
(***************************************************************************)
(* Proofs about the interrupt driver and its test, for every number of     *)
(* lines, every threshold and every wiring of the board.                   *)
(***************************************************************************)
EXTENDS Irq, TLAPS

USE IrqAssumption DEF IrqAssumption, Irqs, NULL, testISR, isrdata, Dead

\* init_irq_controller establishes the invariant.
LEMMA InitInv == Init => IInv
<1> SUFFICES ASSUME Init PROVE IInv
    OBVIOUS
<1> USE DEF Init, init_irq_controller
<1>1. TypeOK
  <2>1. /\ wire \in [Irqs -> Irqs \cup {Dead}]
        /\ vec \in [Irqs -> {NULL, testISR}]
        /\ pparam \in [Irqs -> {NULL, isrdata}]
    OBVIOUS
  <2>2. line \in Irqs /\ num \in 0 .. INTC_MAX_IRQ /\ t \in 0 .. Threshold
    OBVIOUS
  <2>3. /\ event \in {0, 1} /\ result \in {1, 0, -1}
        /\ pc \in PCs /\ isr \in {"none", "clear"}
    BY DEF PCs
  <2>4. /\ IECR \in SUBSET Irqs /\ IMR \in SUBSET Irqs
        /\ IPR \in SUBSET Irqs /\ ISCR \in SUBSET Irqs /\ TEST \in BOOLEAN
    OBVIOUS
  <2>5. QED
    BY <2>1, <2>2, <2>3, <2>4 DEF TypeOK
<1>2. TableInv
    BY DEF TableInv, VecSet, PparamSet, EnableSet, InBody, Freeing, Preparing
<1>3. TriggerInv
    BY DEF TriggerInv, InBody, Freeing, Preparing
<1>4. ResultInv
    BY DEF ResultInv, Freeing, Preparing, InBody, Epilogue
<1>5. QED
    BY <1>1, <1>2, <1>3, <1>4 DEF IInv

\* request_irq stores the handler and its argument before it opens the line.
LEMMA RequestStep == IInv /\ request_irq => IInv'
<1> SUFFICES ASSUME IInv, request_irq PROVE IInv'
    OBVIOUS
<1> USE DEF IInv, Main, regs, table, test, irqcx, Deliverable
<1> USE DEF TypeOK, PCs, TableInv, TriggerInv, ResultInv
<1> USE DEF VecSet, PparamSet, EnableSet, Freeing, Preparing, InBody, Epilogue
<1> USE DEF InFlight, Latched, Served
<1>1. CASE RequestVec
  <2>1. TypeOK'
    BY <1>1 DEF RequestVec
  <2>2. TableInv'
    BY <1>1 DEF RequestVec
  <2>3. TriggerInv'
    BY <1>1 DEF RequestVec
  <2>4. ResultInv'
    BY <1>1 DEF RequestVec
  <2>5. QED
    BY <2>1, <2>2, <2>3, <2>4
<1>2. CASE RequestPparam
  <2>1. TypeOK'
    BY <1>2 DEF RequestPparam
  <2>2. TableInv'
    BY <1>2 DEF RequestPparam
  <2>3. TriggerInv'
    BY <1>2 DEF RequestPparam
  <2>4. ResultInv'
    BY <1>2 DEF RequestPparam
  <2>5. QED
    BY <2>1, <2>2, <2>3, <2>4
<1>3. CASE RequestEnable
  <2>1. TypeOK'
    BY <1>3 DEF RequestEnable
  <2>2. TableInv'
    BY <1>3 DEF RequestEnable
  <2>3. TriggerInv'
    BY <1>3 DEF RequestEnable
  <2>4. ResultInv'
    BY <1>3 DEF RequestEnable
  <2>5. QED
    BY <2>1, <2>2, <2>3, <2>4
<1>4. CASE RequestUnmask
  <2>1. TypeOK'
    BY <1>4 DEF RequestUnmask
  <2>2. TableInv'
    BY <1>4 DEF RequestUnmask
  <2>3. TriggerInv'
    BY <1>4 DEF RequestUnmask
  <2>4. ResultInv'
    BY <1>4 DEF RequestUnmask
  <2>5. QED
    BY <2>1, <2>2, <2>3, <2>4
<1>5. QED
    BY <1>1, <1>2, <1>3, <1>4 DEF request_irq

\* free_irq withdraws the handler of a line that has nothing pending.
LEMMA FreeStep == IInv /\ free_irq => IInv'
<1> SUFFICES ASSUME IInv, free_irq PROVE IInv'
    OBVIOUS
<1> USE DEF IInv, Main, regs, table, test, irqcx, Deliverable
<1> USE DEF TypeOK, PCs, TableInv, TriggerInv, ResultInv
<1> USE DEF VecSet, PparamSet, EnableSet, Freeing, Preparing, InBody, Epilogue
<1> USE DEF InFlight, Latched, Served
<1>1. CASE FreeVec
  <2>1. TypeOK'
    BY <1>1 DEF FreeVec
  <2>2. TableInv'
    BY <1>1 DEF FreeVec
  <2>3. TriggerInv'
    BY <1>1 DEF FreeVec
  <2>4. ResultInv'
    BY <1>1 DEF FreeVec
  <2>5. QED
    BY <2>1, <2>2, <2>3, <2>4
<1>2. CASE FreePparam
  <2>1. TypeOK'
    BY <1>2 DEF FreePparam
  <2>2. TableInv'
    BY <1>2 DEF FreePparam
  <2>3. TriggerInv'
    BY <1>2 DEF FreePparam
  <2>4. ResultInv'
    BY <1>2 DEF FreePparam
  <2>5. QED
    BY <2>1, <2>2, <2>3, <2>4
<1>3. CASE FreeEnable
  <2>1. TypeOK'
    BY <1>3 DEF FreeEnable
  <2>2. TableInv'
    BY <1>3 DEF FreeEnable
  <2>3. TriggerInv'
    BY <1>3 DEF FreeEnable
  <2>4. ResultInv'
    BY <1>3 DEF FreeEnable
  <2>5. QED
    BY <2>1, <2>2, <2>3, <2>4
<1>4. CASE FreeMask
  <2>1. TypeOK'
    BY <1>4 DEF FreeMask, AfterFree
  <2>2. TableInv'
    BY <1>4 DEF FreeMask, AfterFree
  <2>3. TriggerInv'
    BY <1>4 DEF FreeMask, AfterFree
  <2>4. ResultInv'
    BY <1>4 DEF FreeMask, AfterFree
  <2>5. QED
    BY <2>1, <2>2, <2>3, <2>4
<1>5. QED
    BY <1>1, <1>2, <1>3, <1>4 DEF free_irq

\* The wait succeeds only on the flag set by the trigger of this line.
LEMMA WaitStep == IInv /\ sq_wait_for_int => IInv'
<1> SUFFICES ASSUME IInv, sq_wait_for_int PROVE IInv'
    OBVIOUS
<1> USE DEF IInv, Main, regs, table, test, irqcx, Deliverable
<1> USE DEF TypeOK, PCs, TableInv, TriggerInv, ResultInv
<1> USE DEF VecSet, PparamSet, EnableSet, Freeing, Preparing, InBody, Epilogue
<1> USE DEF InFlight, Latched, Served
<1>1. CASE WaitDone
  <2>1. TypeOK'
    BY <1>1 DEF WaitDone
  <2>2. TableInv'
    BY <1>1 DEF WaitDone
  <2>3. TriggerInv'
    BY <1>1 DEF WaitDone
  <2>4. ResultInv'
    BY <1>1 DEF WaitDone
  <2>5. QED
    BY <2>1, <2>2, <2>3, <2>4
<1>2. CASE WaitTimeout
  <2>1. TypeOK'
    BY <1>2 DEF WaitTimeout
  <2>2. TableInv'
    BY <1>2 DEF WaitTimeout
  <2>3. TriggerInv'
    BY <1>2 DEF WaitTimeout
  <2>4. ResultInv'
    BY <1>2 DEF WaitTimeout
  <2>5. QED
    BY <2>1, <2>2, <2>3, <2>4
<1>3. CASE WaitPoll
  <2>1. TypeOK'
    BY <1>3 DEF WaitPoll
  <2>2. TableInv'
    BY <1>3 DEF WaitPoll
  <2>3. TriggerInv'
    BY <1>3 DEF WaitPoll
  <2>4. ResultInv'
    BY <1>3 DEF WaitPoll
  <2>5. QED
    BY <2>1, <2>2, <2>3, <2>4
<1>4. QED
    BY <1>1, <1>2, <1>3 DEF sq_wait_for_int

\* Entering the body and leaving the loop.
LEMMA LoopStep == IInv /\ LoopHead => IInv'
<1> SUFFICES ASSUME IInv, LoopHead PROVE IInv'
    OBVIOUS
<1> USE DEF IInv, Main, regs, table, test, irqcx, Deliverable
<1> USE DEF TypeOK, PCs, TableInv, TriggerInv, ResultInv
<1> USE DEF VecSet, PparamSet, EnableSet, Freeing, Preparing, InBody, Epilogue
<1> USE DEF InFlight, Latched, Served
<1>1. CASE LoopNext
  <2>1. TypeOK'
    BY <1>1 DEF LoopNext
  <2>2. TableInv'
    BY <1>1 DEF LoopNext
  <2>3. TriggerInv'
    BY <1>1 DEF LoopNext
  <2>4. ResultInv'
    BY <1>1 DEF LoopNext
  <2>5. QED
    BY <2>1, <2>2, <2>3, <2>4
<1>2. CASE LoopEnd
  <2>1. TypeOK'
    BY <1>2 DEF LoopEnd
  <2>2. TableInv'
    BY <1>2 DEF LoopEnd
  <2>3. TriggerInv'
    BY <1>2 DEF LoopEnd
  <2>4. ResultInv'
    BY <1>2 DEF LoopEnd
  <2>5. QED
    BY <2>1, <2>2, <2>3, <2>4
<1>3. QED
    BY <1>1, <1>2 DEF LoopHead

TestSteps ==
    \/ Call \/ TestOn \/ Trigger \/ Untrigger \/ TestOff
    \/ DisableAll("disable", "clear") \/ DisableAll("off", "clearend")
    \/ ClearAll("clear", "teston") \/ ClearAll("clearend", "idle")

\* The other steps of irq_test_mode_test.
LEMMA TestStep == IInv /\ TestSteps => IInv'
<1> SUFFICES ASSUME IInv, TestSteps PROVE IInv'
    OBVIOUS
<1> USE DEF IInv, Main, regs, table, test, irqcx, Deliverable
<1> USE DEF TypeOK, PCs, TableInv, TriggerInv, ResultInv
<1> USE DEF VecSet, PparamSet, EnableSet, Freeing, Preparing, InBody, Epilogue
<1> USE DEF InFlight, Latched, Served
<1>1. CASE Call
  <2>1. TypeOK'
    BY <1>1 DEF Call
  <2>2. TableInv'
    BY <1>1 DEF Call
  <2>3. TriggerInv'
    BY <1>1 DEF Call
  <2>4. ResultInv'
    BY <1>1 DEF Call
  <2>5. QED
    BY <2>1, <2>2, <2>3, <2>4
<1>2. CASE TestOn
  <2>1. TypeOK'
    BY <1>2 DEF TestOn
  <2>2. TableInv'
    BY <1>2 DEF TestOn
  <2>3. TriggerInv'
    BY <1>2 DEF TestOn
  <2>4. ResultInv'
    BY <1>2 DEF TestOn
  <2>5. QED
    BY <2>1, <2>2, <2>3, <2>4
<1>3. CASE Trigger
  <2>1. TypeOK'
    BY <1>3 DEF Trigger
  <2>2. TableInv'
    BY <1>3 DEF Trigger
  <2>3. TriggerInv'
    BY <1>3 DEF Trigger
  <2>4. ResultInv'
    BY <1>3 DEF Trigger
  <2>5. QED
    BY <2>1, <2>2, <2>3, <2>4
<1>4. CASE Untrigger
  <2>1. TypeOK'
    BY <1>4 DEF Untrigger
  <2>2. TableInv'
    BY <1>4 DEF Untrigger
  <2>3. TriggerInv'
    BY <1>4 DEF Untrigger
  <2>4. ResultInv'
    BY <1>4 DEF Untrigger
  <2>5. QED
    BY <2>1, <2>2, <2>3, <2>4
<1>5. CASE TestOff
  <2>1. TypeOK'
    BY <1>5 DEF TestOff
  <2>2. TableInv'
    BY <1>5 DEF TestOff
  <2>3. TriggerInv'
    BY <1>5 DEF TestOff
  <2>4. ResultInv'
    BY <1>5 DEF TestOff
  <2>5. QED
    BY <2>1, <2>2, <2>3, <2>4
<1>6. CASE DisableAll("disable", "clear")
  <2>1. TypeOK'
    BY <1>6 DEF DisableAll
  <2>2. TableInv'
    BY <1>6 DEF DisableAll
  <2>3. TriggerInv'
    BY <1>6 DEF DisableAll
  <2>4. ResultInv'
    BY <1>6 DEF DisableAll
  <2>5. QED
    BY <2>1, <2>2, <2>3, <2>4
<1>7. CASE DisableAll("off", "clearend")
  <2>1. TypeOK'
    BY <1>7 DEF DisableAll
  <2>2. TableInv'
    BY <1>7 DEF DisableAll
  <2>3. TriggerInv'
    BY <1>7 DEF DisableAll
  <2>4. ResultInv'
    BY <1>7 DEF DisableAll
  <2>5. QED
    BY <2>1, <2>2, <2>3, <2>4
<1>8. CASE ClearAll("clear", "teston")
  <2>1. TypeOK'
    BY <1>8 DEF ClearAll
  <2>2. TableInv'
    BY <1>8 DEF ClearAll
  <2>3. TriggerInv'
    BY <1>8 DEF ClearAll
  <2>4. ResultInv'
    BY <1>8 DEF ClearAll
  <2>5. QED
    BY <2>1, <2>2, <2>3, <2>4
<1>9. CASE ClearAll("clearend", "idle")
  <2>1. TypeOK'
    BY <1>9 DEF ClearAll
  <2>2. TableInv'
    BY <1>9 DEF ClearAll
  <2>3. TriggerInv'
    BY <1>9 DEF ClearAll
  <2>4. ResultInv'
    BY <1>9 DEF ClearAll
  <2>5. QED
    BY <2>1, <2>2, <2>3, <2>4
<1>10. QED
    BY <1>1, <1>2, <1>3, <1>4, <1>5, <1>6, <1>7, <1>8, <1>9 DEF TestSteps

ContextSteps == irq_dispatch \/ irq_dispatch_clear \/ Latch \/ DeviceRaise

\* The handler, the controller and the devices.
LEMMA ContextStep == IInv /\ ContextSteps => IInv'
<1> SUFFICES ASSUME IInv, ContextSteps PROVE IInv'
    OBVIOUS
<1> USE DEF IInv, Main, regs, table, test, irqcx, Deliverable
<1> USE DEF TypeOK, PCs, TableInv, TriggerInv, ResultInv
<1> USE DEF VecSet, PparamSet, EnableSet, Freeing, Preparing, InBody, Epilogue
<1> USE DEF InFlight, Latched, Served
<1>1. CASE irq_dispatch
  <2>1. TypeOK'
    BY <1>1 DEF irq_dispatch
  <2>2. TableInv'
    BY <1>1 DEF irq_dispatch
  <2>3. TriggerInv'
    BY <1>1 DEF irq_dispatch
  <2>4. ResultInv'
    BY <1>1 DEF irq_dispatch
  <2>5. QED
    BY <2>1, <2>2, <2>3, <2>4
<1>2. CASE irq_dispatch_clear
  <2>1. TypeOK'
    BY <1>2 DEF irq_dispatch_clear
  <2>2. TableInv'
    BY <1>2 DEF irq_dispatch_clear
  <2>3. TriggerInv'
    BY <1>2 DEF irq_dispatch_clear
  <2>4. ResultInv'
    BY <1>2 DEF irq_dispatch_clear
  <2>5. QED
    BY <2>1, <2>2, <2>3, <2>4
<1>3. CASE Latch
  <2>1. TypeOK'
    BY <1>3 DEF Latch
  <2>2. TableInv'
    BY <1>3 DEF Latch
  <2>3. TriggerInv'
    <3>1. pc \in {"wait", "untrigger"} /\ InFlight
      BY <1>3 DEF Latch
    <3>2. wire[num] # Dead /\ IPR' = {wire[num]} /\ ISCR' = {}
      BY <1>3, <3>1 DEF Latch
    <3>3. UNCHANGED <<wire, num, event, result, TEST, pc, isr, line>>
      BY <1>3 DEF Latch
    <3>4. Latched'
      BY <3>1, <3>2, <3>3
    <3>5. (pc = "wait" => event = 0) /\ pc \notin Freeing
      BY <3>1
    <3>6. QED
      BY <3>1, <3>3, <3>4, <3>5
  <2>4. ResultInv'
    BY <1>3 DEF Latch
  <2>5. QED
    BY <2>1, <2>2, <2>3, <2>4
<1>4. CASE DeviceRaise
  <2>1. TypeOK'
    BY <1>4 DEF DeviceRaise
  <2>2. TableInv'
    BY <1>4 DEF DeviceRaise
  <2>3. TriggerInv'
    BY <1>4 DEF DeviceRaise
  <2>4. ResultInv'
    BY <1>4 DEF DeviceRaise
  <2>5. QED
    BY <2>1, <2>2, <2>3, <2>4
<1>5. QED
    BY <1>1, <1>2, <1>3, <1>4 DEF ContextSteps

\* Every step of the system preserves the invariant.
LEMMA NextInv == IInv /\ [Next]_vars => IInv'
<1> SUFFICES ASSUME IInv, [Next]_vars PROVE IInv'
    OBVIOUS
<1>1. CASE irq_test_mode_test
  <2>1. CASE request_irq
    BY <2>1, RequestStep
  <2>2. CASE free_irq
    BY <2>2, FreeStep
  <2>3. CASE sq_wait_for_int
    BY <2>3, WaitStep
  <2>4. CASE LoopHead
    BY <2>4, LoopStep
  <2>5. CASE TestSteps
    BY <2>5, TestStep
  <2>6. QED
    BY <1>1, <2>1, <2>2, <2>3, <2>4, <2>5 DEF irq_test_mode_test, TestSteps
<1>2. CASE Dispatch \/ Latch \/ DeviceRaise
    BY <1>2, ContextStep DEF Dispatch, ContextSteps
<1>3. CASE UNCHANGED vars
  <2> USE <1>3 DEF IInv, vars, regs, table, test, irqcx
  <2>1. TypeOK'
    BY DEF TypeOK
  <2>2. TableInv'
    BY DEF TableInv
  <2>3. TriggerInv'
    BY DEF TriggerInv, InFlight, Latched, Served
  <2>4. ResultInv'
    BY DEF ResultInv
  <2>5. QED
    BY <2>1, <2>2, <2>3, <2>4
<1>4. QED
    BY <1>1, <1>2, <1>3 DEF Next

\* What the invariant says of the states in which the test has returned
\* and of those in which an interrupt can be delivered.
LEMMA InvImplies ==
    IInv => NoFalsePass /\ NoUnhandledInterrupt /\ NoDanglingParam
<1> SUFFICES ASSUME IInv
             PROVE NoFalsePass /\ NoUnhandledInterrupt /\ NoDanglingParam
    OBVIOUS
<1> USE DEF IInv, TypeOK
<1>1. NoFalsePass
    BY DEF NoFalsePass, ResultInv, Epilogue
<1>2. NoUnhandledInterrupt
  <2> SUFFICES ASSUME NEW i \in Deliverable
               PROVE vec[i] # NULL /\ pparam[i] # NULL
    BY DEF NoUnhandledInterrupt
  <2>1. i \in Irqs /\ i \in IPR /\ i = num /\ pc \in EnableSet
    BY DEF Deliverable, TableInv
  <2>2. pc \notin Freeing
    BY <2>1 DEF TriggerInv
  <2>3. pc \in VecSet /\ pc \in PparamSet
    BY <2>1, <2>2 DEF EnableSet, PparamSet, VecSet, Freeing
  <2>4. QED
    BY <2>1, <2>3 DEF TableInv
<1>3. NoDanglingParam
    BY DEF NoDanglingParam, TableInv, VecSet, PparamSet
<1>4. QED
    BY <1>1, <1>2, <1>3

\* The inductive invariant, and with it the type invariant, holds in every
\* reachable state of the driver and its test.
THEOREM Invariance == Spec => []IInv
<1>1. Init => IInv
    BY InitInv
<1>2. IInv /\ [Next]_vars => IInv'
    BY NextInv
<1>3. QED
    BY <1>1, <1>2, PTL DEF Spec

\* The tables and registers keep their types: no line outside the
\* controller's range is ever enabled, requested or tested.
THEOREM TypeCorrect == Spec => []TypeOK
<1>1. IInv => TypeOK
    BY DEF IInv
<1>2. QED
    BY <1>1, Invariance, PTL

\* irq_test_mode_test returns 0 only on a board whose every line works.
THEOREM PassIsTrue == Spec => []NoFalsePass
    BY Invariance, InvImplies, PTL

\* irq_dispatch never takes its early return, which would leave the line
\* pending and starve the main thread.
THEOREM AlwaysHandled == Spec => []NoUnhandledInterrupt
    BY Invariance, InvImplies, PTL

\* Between tests the vector table holds no pointer into a dead frame.
THEOREM NothingDangles == Spec => []NoDanglingParam
    BY Invariance, InvImplies, PTL
=============================================================================
