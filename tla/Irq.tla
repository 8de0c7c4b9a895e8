-------------------------------- MODULE Irq --------------------------------
(***************************************************************************)
(* The interrupt controller driver (platform/PDK_PC9223/irq.c), the        *)
(* bounded busy wait of lib/socle_lib/board.c and the client that          *)
(* exercises both hardest: irq_test_mode_test of src/Interrupt/            *)
(* interrupt.c, which software-triggers every interrupt line in turn and   *)
(* waits for its handler to run.                                           *)
(*                                                                         *)
(* Two contexts share the state: the main thread, one store or register    *)
(* access per step, and the interrupt handler, which stops the main        *)
(* thread until it returns.  The controller itself is external: a          *)
(* triggered line is latched in IPR at an arbitrary later moment, on the   *)
(* line the board wired it to, or never.                                   *)
(***************************************************************************)
EXTENDS Integers, FiniteSets

CONSTANTS
    INTC_MAX_IRQ,   \* number of interrupt lines the test walks over
    Threshold       \* polls of the flag before sq_wait_for_int gives up

ASSUME IrqAssumption ==
    /\ INTC_MAX_IRQ \in Nat \ {0}
    /\ Threshold \in Nat

Irqs == 0 .. INTC_MAX_IRQ - 1

NULL == "NULL"
testISR == "testISR"
isrdata == "isrdata"

(* A line that is not connected to anything. *)
Dead == -1

VARIABLES
    wire,    \* board: the line a software trigger of each line reaches
    IECR,    \* controller: enabled lines
    IMR,     \* controller: unmasked lines
    IPR,     \* controller: latched, not yet cleared lines
    ISCR,    \* controller: software-triggered, not yet latched lines
    TEST,    \* controller: test mode, device lines disconnected
    vec,     \* irq_vector_table[].vec
    pparam,  \* irq_vector_table[].pparam
    event,   \* the flag that testISR sets and sq_wait_for_int polls
    num,     \* the line under test
    t,       \* polls made by the current wait
    result,  \* value returned by the test, 1 before the first call
    pc,      \* where the main thread is
    isr,     \* where the interrupt context is
    line     \* the line irq_dispatch is serving (v in the code)

regs  == <<IECR, IMR, IPR, ISCR, TEST>>
table == <<vec, pparam>>
test  == <<event, num, t, result>>
irqcx == <<isr, line>>
vars  == <<wire, regs, table, test, pc, irqcx>>

PCs == {"idle", "disable", "clear", "teston", "loop",
        "vec", "pparam", "enable", "unmask", "trigger", "wait",
        "untrigger", "unvec", "unpparam", "unenable", "mask",
        "testoff", "off", "clearend"}

TypeOK ==
    /\ wire \in [Irqs -> Irqs \cup {Dead}]
    /\ IECR \in SUBSET Irqs /\ IMR \in SUBSET Irqs
    /\ IPR \in SUBSET Irqs /\ ISCR \in SUBSET Irqs /\ TEST \in BOOLEAN
    /\ vec \in [Irqs -> {NULL, testISR}]
    /\ pparam \in [Irqs -> {NULL, isrdata}]
    /\ event \in {0, 1} /\ num \in 0 .. INTC_MAX_IRQ /\ t \in 0 .. Threshold
    /\ result \in {1, 0, -1}
    /\ pc \in PCs
    /\ isr \in {"none", "clear"} /\ line \in Irqs

(* init_irq_controller: every line disabled, every latch cleared.  It does *)
(* not write IMR, whose reset value is unknown; the table is zeroed with   *)
(* the rest of the static data.                                            *)
init_irq_controller ==
    /\ IECR = {} /\ IPR = {} /\ ISCR = {} /\ TEST = FALSE
    /\ IMR \in SUBSET Irqs
    /\ vec = [i \in Irqs |-> NULL]
    /\ pparam = [i \in Irqs |-> NULL]

Init ==
    /\ init_irq_controller
    /\ wire \in [Irqs -> Irqs \cup {Dead}]
    /\ event = 0 /\ num = 0 /\ t = 0 /\ result = 1
    /\ pc = "idle" /\ isr = "none" /\ line = 0

(***************************************************************************)
(* Contexts.  The processor samples the interrupt input before every       *)
(* instruction, so the main thread moves only while nothing is             *)
(* deliverable and no handler is running.                                  *)
(***************************************************************************)
Deliverable == IPR \cap IECR \cap IMR

Main(from, to) ==
    /\ pc = from /\ pc' = to
    /\ isr = "none" /\ Deliverable = {}
    /\ UNCHANGED <<wire, irqcx>>

(***************************************************************************)
(* irq.c                                                                   *)
(***************************************************************************)
\* request_irq(num, testISR, &isrdata): handler, argument, enable, unmask.
RequestVec ==
    /\ Main("vec", "pparam")
    /\ vec' = [vec EXCEPT ![num] = testISR]
    /\ UNCHANGED <<regs, pparam, test>>

RequestPparam ==
    /\ Main("pparam", "enable")
    /\ pparam' = [pparam EXCEPT ![num] = isrdata]
    /\ UNCHANGED <<regs, vec, test>>

RequestEnable ==
    /\ Main("enable", "unmask")
    /\ IECR' = IECR \cup {num}
    /\ UNCHANGED <<IMR, IPR, ISCR, TEST, table, test>>

RequestUnmask ==
    /\ Main("unmask", "trigger")
    /\ IMR' = IMR \cup {num}
    /\ UNCHANGED <<IECR, IPR, ISCR, TEST, table, test>>

request_irq ==
    RequestVec \/ RequestPparam \/ RequestEnable \/ RequestUnmask

\* After free_irq the test either goes on with the next line or, after a
\* timeout, leaves the loop.
AfterFree == IF result = 0 THEN "loop" ELSE "testoff"

\* free_irq(num): handler, argument, disable, mask; then num++ or break.
FreeVec ==
    /\ Main("unvec", "unpparam")
    /\ vec' = [vec EXCEPT ![num] = NULL]
    /\ UNCHANGED <<regs, pparam, test>>

\* A free that withdraws the handler and keeps its argument.
FreePparamSkipped ==
    /\ Main("unpparam", "unenable")
    /\ UNCHANGED <<regs, table, test>>

FreePparam ==
    /\ Main("unpparam", "unenable")
    /\ pparam' = [pparam EXCEPT ![num] = NULL]
    /\ UNCHANGED <<regs, vec, test>>

FreeEnable ==
    /\ Main("unenable", "mask")
    /\ IECR' = IECR \ {num}
    /\ UNCHANGED <<IMR, IPR, ISCR, TEST, table, test>>

FreeMask ==
    /\ Main("mask", AfterFree)
    /\ IMR' = IMR \ {num}
    /\ num' = IF result = 0 THEN num + 1 ELSE num
    /\ UNCHANGED <<IECR, IPR, ISCR, TEST, table, event, t, result>>

free_irq ==
    FreeVec \/ FreePparam \/ FreeEnable \/ FreeMask

\* irq_dispatch, first part: read the index of a pending line; return at
\* once if it has no handler, else run the handler.  testISR sets *event.
irq_dispatch ==
    /\ isr = "none"
    /\ \E v \in Deliverable :
         IF vec[v] = NULL
           THEN UNCHANGED <<event, irqcx>>
           ELSE /\ event' = 1
                /\ isr' = "clear" /\ line' = v
    /\ UNCHANGED <<wire, regs, table, num, t, result, pc>>

\* A dispatcher that returns without the acknowledge.
irq_dispatch_no_clear ==
    /\ isr = "clear" /\ isr' = "none"
    /\ UNCHANGED <<wire, regs, table, test, pc, line>>

\* irq_dispatch, second part: acknowledge the line in ICCR and return.
irq_dispatch_clear ==
    /\ isr = "clear" /\ isr' = "none"
    /\ IPR' = IPR \ {line}
    /\ UNCHANGED <<wire, IECR, IMR, ISCR, TEST, table, test, pc, line>>

(***************************************************************************)
(* The controller and the board (external).                                *)
(***************************************************************************)
\* A software trigger reaches the latch of the line it is wired to, once.
Latch ==
    /\ \E i \in ISCR :
         /\ wire[i] # Dead
         /\ IPR' = IPR \cup {wire[i]}
         /\ ISCR' = ISCR \ {i}
    /\ UNCHANGED <<wire, IECR, IMR, TEST, table, test, pc, irqcx>>

\* Devices raise their lines outside test mode.  Between the test's clear
\* of the latches and the store that enters test mode they are assumed
\* quiet: a line latched there is served as if it had been triggered.
DeviceRaise ==
    /\ ~TEST /\ pc # "teston"
    /\ \E i \in Irqs : IPR' = IPR \cup {i}
    /\ UNCHANGED <<wire, IECR, IMR, ISCR, TEST, table, test, pc, irqcx>>

(***************************************************************************)
(* interrupt.c: irq_test_mode_test                                         *)
(***************************************************************************)
Call ==
    /\ Main("idle", "disable")
    /\ result' = 0
    /\ UNCHANGED <<regs, table, event, num, t>>

DisableAll(from, to) ==
    /\ Main(from, to)
    /\ IECR' = {}
    /\ UNCHANGED <<IMR, IPR, ISCR, TEST, table, test>>

ClearAll(from, to) ==
    /\ Main(from, to)
    /\ IPR' = {}
    /\ UNCHANGED <<IECR, IMR, ISCR, TEST, table, test>>

TestOn ==
    /\ Main("teston", "loop")
    /\ TEST' = TRUE /\ num' = 0
    /\ UNCHANGED <<IECR, IMR, IPR, ISCR, table, event, t, result>>

\* A loop that runs for one line too many.
LoopNextTooFar ==
    /\ num <= INTC_MAX_IRQ
    /\ Main("loop", "vec")
    /\ event' = 0
    /\ UNCHANGED <<regs, table, num, t, result>>

\* for (num = 0; num < INTC_MAX_IRQ; num++): event is reset per line.
LoopNext ==
    /\ num < INTC_MAX_IRQ
    /\ Main("loop", "vec")
    /\ event' = 0
    /\ UNCHANGED <<regs, table, num, t, result>>

LoopEnd ==
    /\ num >= INTC_MAX_IRQ
    /\ Main("loop", "testoff")
    /\ UNCHANGED <<regs, table, test>>

LoopHead ==
    LoopNext \/ LoopEnd

\* ISCR = 1 << num, then the wait starts counting.
Trigger ==
    /\ Main("trigger", "wait")
    /\ ISCR' = {num} /\ t' = 0
    /\ UNCHANGED <<IECR, IMR, IPR, TEST, table, event, num, result>>

\* sq_wait_for_int(&event, 1): poll, count, give up at the threshold.
WaitDone ==
    /\ Main("wait", "untrigger")
    /\ event = 1 /\ event' = 0
    /\ UNCHANGED <<regs, table, num, t, result>>

\* A caller that ignores the timeout.
WaitTimeoutIgnored ==
    /\ Main("wait", "untrigger")
    /\ event # 1 /\ t >= Threshold
    /\ UNCHANGED <<regs, table, test>>

WaitTimeout ==
    /\ Main("wait", "untrigger")
    /\ event # 1 /\ t >= Threshold
    /\ result' = -1
    /\ UNCHANGED <<regs, table, event, num, t>>

WaitPoll ==
    /\ Main("wait", "wait")
    /\ event # 1 /\ t < Threshold
    /\ t' = t + 1
    /\ UNCHANGED <<regs, table, event, num, result>>

sq_wait_for_int ==
    WaitDone \/ WaitTimeout \/ WaitPoll

\* A test that frees the line while its trigger is still in flight.
UntriggerForgotten ==
    /\ Main("untrigger", "unvec")
    /\ UNCHANGED <<regs, table, test>>

\* ISCR = 0 before free_irq: a trigger not latched yet is withdrawn.
Untrigger ==
    /\ Main("untrigger", "unvec")
    /\ ISCR' = {}
    /\ UNCHANGED <<IECR, IMR, IPR, TEST, table, test>>

TestOff ==
    /\ Main("testoff", "off")
    /\ TEST' = FALSE
    /\ UNCHANGED <<IECR, IMR, IPR, ISCR, table, test>>

irq_test_mode_test ==
    \/ Call
    \/ DisableAll("disable", "clear") \/ ClearAll("clear", "teston")
    \/ TestOn \/ LoopHead
    \/ request_irq \/ Trigger \/ sq_wait_for_int \/ Untrigger \/ free_irq
    \/ TestOff
    \/ DisableAll("off", "clearend") \/ ClearAll("clearend", "idle")

Dispatch == irq_dispatch \/ irq_dispatch_clear

Next == irq_test_mode_test \/ Dispatch \/ Latch \/ DeviceRaise

(* The processor runs whichever context may run.  No fairness is assumed   *)
(* of the board: a trigger may never be latched; nor of the user, who need *)
(* not call the test.                                                      *)
Spec ==
    /\ Init /\ [][Next]_vars
    /\ WF_vars(irq_test_mode_test /\ pc # "idle")
    /\ WF_vars(Dispatch)

(***************************************************************************)
(* Properties                                                              *)
(***************************************************************************)
\* A test that returned 0 ran on a board whose every line works: the
\* handler of line i ran because of the trigger of line i.  Dead lines,
\* crossed lines, lines latched before the test and answers that come
\* after the timeout must not make irq_test_mode_test report a pass.
NoFalsePass ==
    pc = "idle" /\ result = 0 => \A i \in Irqs : wire[i] = i

\* irq_dispatch never meets a line without a handler.  It returns from
\* such a line without clearing it, so the level would interrupt the main
\* thread again before its next instruction, for ever.
NoUnhandledInterrupt ==
    \A i \in Deliverable : vec[i] # NULL /\ pparam[i] # NULL

\* Between calls the table holds no pointer to the test's automatic
\* variable isrdata (the note on pparam at the head of irq.c).
NoDanglingParam ==
    pc = "idle" => \A i \in Irqs : vec[i] = NULL /\ pparam[i] = NULL

\* Every call of the test returns, whatever the board does.
TestReturns == pc # "idle" ~> pc = "idle"

(***************************************************************************)
(* The inductive invariant behind the safety properties.                   *)
(***************************************************************************)
\* The program points at which a line's handler, its argument and its
\* enable bit are in place, and those of the body of the loop.
VecSet    == {"pparam", "enable", "unmask", "trigger", "wait", "untrigger",
              "unvec"}
PparamSet == (VecSet \ {"pparam"}) \cup {"unpparam"}
EnableSet == (PparamSet \ {"enable"}) \cup {"unenable"}
Freeing   == {"unvec", "unpparam", "unenable", "mask"}
Preparing == {"vec", "pparam", "enable", "unmask", "trigger"}
InBody    == Preparing \cup {"wait", "untrigger"} \cup Freeing
Epilogue  == {"testoff", "off", "clearend", "idle"}

\* The table and the enable register agree with the program point.
TableInv ==
    /\ \A i \in Irqs : vec[i] # NULL <=> i = num /\ pc \in VecSet
    /\ \A i \in Irqs : pparam[i] # NULL <=> i = num /\ pc \in PparamSet
    /\ \A i \in Irqs : i \in IECR <=> i = num /\ pc \in EnableSet
    /\ pc \in {"trigger", "wait", "untrigger", "unvec", "unpparam",
               "unenable", "mask"} => num \in IMR
    /\ pc \in InBody => num \in Irqs

\* Where the one trigger of the current line can be.
InFlight == ISCR = {num} /\ IPR = {} /\ isr = "none"
Latched  == ISCR = {} /\ wire[num] # Dead /\ IPR = {wire[num]} /\ isr = "none"
Served   == /\ ISCR = {} /\ wire[num] = num /\ event = 1
            /\ \/ IPR = {num} /\ isr = "clear" /\ line = num
               \/ IPR = {} /\ isr = "none"

TriggerInv ==
    /\ pc \notin {"wait", "untrigger"} => ISCR = {} /\ isr = "none"
    /\ TEST <=> pc \in {"loop", "testoff"} \cup InBody
    /\ pc \in {"teston", "loop"} \cup Preparing => IPR = {}
    /\ pc \in Preparing => event = 0
    /\ pc = "wait" =>
         \/ event = 0 /\ (InFlight \/ Latched)
         \/ Served
    /\ pc = "untrigger" /\ result = -1 =>
         InFlight \/ Latched \/ Served
    /\ pc = "untrigger" /\ result = 0 =>
         ISCR = {} /\ IPR = {} /\ isr = "none"
    /\ pc \in Freeing => num \notin IPR
    /\ pc \in Freeing /\ result = 0 => IPR = {}

\* What the value to be returned says about the lines tested so far.
ResultInv ==
    /\ pc \in {"disable", "clear", "teston", "loop", "wait"} \cup Preparing =>
         result = 0
    /\ pc # "idle" => result # 1
    /\ result = 0 /\ pc \in {"loop"} \cup InBody =>
         \A i \in Irqs : i < num => wire[i] = i
    /\ result = 0 /\ pc \in {"untrigger"} \cup Freeing => wire[num] = num
    /\ result = 0 /\ pc \in Epilogue => \A i \in Irqs : wire[i] = i

IInv == TypeOK /\ TableInv /\ TriggerInv /\ ResultInv
=============================================================================
