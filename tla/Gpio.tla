-------------------------------- MODULE Gpio -------------------------------
(***************************************************************************)
(* The loop-back tests of one group of GPIO ports in test mode,            *)
(* src/GPIO/gpio-ctrl.c, with the registers behind src/GPIO/gpio.c.  The   *)
(* eight pins of a port are written together and count as one, which is 0  *)
(* or 1.  The controller is external: in test mode it feeds one port of a  *)
(* pair into the other, compares a level-sensitive pin with the level it   *)
(* waits for, and latches an edge of a pin that is not masked.             *)
(***************************************************************************)
EXTENDS Session, TLC

\* Tmode0 to Tmode3: the port that is written and the one that is read.
LoopBacks == <<<<"pb", "pa">>, <<"pa", "pb">>, <<"pd", "pc">>, <<"pc", "pd">>>>
Ports     == {"pa", "pb", "pc", "pd"}

VARIABLES
    loop,       \* this board's loop back: "good", or stuck at 0 or 1
    genv,       \* sq_gpio_test_env: interrupt, sense, both_edge, int_event
    tmode,      \* the loop back that runs, and test_mode in GPIO_TEST
    port,       \* the registers of the ports, see NoPort
    r_data,     \* sq_r_data
    pattern,    \* test_pattern
    sum         \* the results of the loop backs so far

gvars == <<loop, genv, tmode, port, r_data, pattern, sum>>

\* The data register, interrupt enabled, level sensitive, both edges, the
\* event (the level or the edge to 1), and the edge that was latched.
NoPort == [dr |-> 0, ie |-> FALSE, is |-> FALSE, ibe |-> FALSE, iev |-> 0,
           edge |-> FALSE]

GpioTypeOK ==
    /\ loop \in {"good", "low", "high"} /\ tmode \in 1 .. 4
    /\ genv \in [int : BOOLEAN, level : BOOLEAN, both : BOOLEAN, event : {0, 1}]
    /\ port \in [Ports -> [dr : {0, 1}, ie : BOOLEAN, is : BOOLEAN,
                           ibe : BOOLEAN, iev : {0, 1}, edge : BOOLEAN]]
    /\ r_data \in {0, 1} /\ pattern \in {0, 1} /\ sum \in {0, -1}

GpioInit ==
    /\ loop \in {"good", "low", "high"}
    /\ genv = [int |-> FALSE, level |-> FALSE, both |-> FALSE, event |-> 0]
    /\ tmode = 1 /\ port = [p \in Ports |-> NoPort]
    /\ r_data = 0 /\ pattern = 0 /\ sum = 0

pw == LoopBacks[tmode][1]
pr == LoopBacks[tmode][2]

\* What the port that is read sees (external).
Pin(ports) == CASE loop = "good" -> ports[pw].dr
                [] loop = "low"  -> 0
                [] loop = "high" -> 1

\* sq_gpio_get_value_with_mask and sq_gpio_set_value_with_mask: with the
\* store the port that is read may latch an edge.
GetValue == Pin(port)

SetValue(ports, v) ==
    LET new == [ports EXCEPT ![pw].dr = v]
        r   == ports[pr]
        hit == /\ Pin(new) # Pin(ports) /\ r.ie /\ ~r.is
               /\ r.ibe \/ Pin(new) = r.iev
    IN  [new EXCEPT ![pr].edge = @ \/ hit]

\* The interrupt of the group, GPIO_ISR (external).
Raised ==
    \E p \in Ports :
        /\ port[p].ie
        /\ IF port[p].is THEN p = pr /\ GetValue = port[p].iev
                         ELSE port[p].edge

\* The stores to the registers of the port that is read.
SetInterruptMask(ports, on)  == [ports EXCEPT ![pr].ie = on]
SetInterruptSense(ports, on) == [ports EXCEPT ![pr].is = on]
SetBothEdges(ports, on)      == [ports EXCEPT ![pr].ibe = on]
SetInterruptEvent(ports, v)  == [ports EXCEPT ![pr].iev = v]
SetInterruptClear(ports)     == [ports EXCEPT ![pr].edge = FALSE]

\* The trigger of a test: a level test leaves both_edges as it is, and a
\* test of both edges the event.
SetTrigger(ports) ==
    LET sensed == SetInterruptSense(ports, genv.level) IN
    IF genv.level THEN SetInterruptEvent(sensed, genv.event)
    ELSE IF genv.both THEN SetBothEdges(sensed, TRUE)
    ELSE SetInterruptEvent(SetBothEdges(sensed, FALSE), genv.event)

(***************************************************************************)
(* The main thread                                                         *)
(***************************************************************************)
GMain(from, to) == Main("gpio", Raised, from, to) /\ UNCHANGED loop

GpioOpen ==
    /\ GMain("closed", "menu")
    /\ UNCHANGED <<vec, iec, flag, ret, gvars>>

\* The menus set the fields of sq_gpio_test_env on the way to a port test,
\* which begins with the first loop back.
PortTest ==
    /\ \/ genv' = [genv EXCEPT !.int = FALSE]
       \/ \E e \in {0, 1} :
             genv' = [genv EXCEPT !.int = TRUE, !.level = TRUE, !.event = e]
       \/ \E e \in {0, 1} :
             genv' = [int |-> TRUE, level |-> FALSE, both |-> FALSE, event |-> e]
       \/ genv' = [genv EXCEPT !.int = TRUE, !.level = FALSE, !.both = TRUE]
    /\ GMain("menu", IF genv'.int THEN "request" ELSE "plain")
    /\ tmode' = 1 /\ sum' = 0
    /\ UNCHANGED <<vec, iec, flag, ret, port, r_data, pattern>>

\* The end of a loop back: `ret |=', and the next one.
NextLoopBack(from, again, failed) ==
    /\ sum' = IF failed THEN -1 ELSE sum
    /\ \/ /\ tmode < 4 /\ GMain(from, again) /\ tmode' = tmode + 1
          /\ UNCHANGED ret
       \/ /\ tmode = 4 /\ GMain(from, "menu") /\ ret' = sum'
          /\ UNCHANGED tmode

\* sq_gpio_wo_int_rw_test.
RwTest ==
    /\ port' = SetValue(port, 1)
    /\ NextLoopBack("plain", "plain", Pin(port') # 1)
    /\ UNCHANGED <<vec, iec, flag, genv, r_data, pattern>>

\* sq_gpio_w_int_rw_test: the handler is requested while the port is still
\* masked, ...
RequestPort ==
    /\ Request("gpio", Raised, "request", "arm") /\ flag' = 0
    /\ UNCHANGED gvars

\* ... the trigger is set, the pins get the value from which the test
\* starts, and the interrupt is let through, ...
StartValue == IF ~genv.level /\ genv.both THEN 0 ELSE 1 - genv.event

Arm ==
    /\ GMain("arm", "drive")
    /\ port' = SetInterruptMask(SetValue(SetTrigger(port), StartValue), TRUE)
    /\ pattern' = StartValue
    /\ UNCHANGED <<vec, iec, flag, ret, genv, tmode, r_data, sum>>

\* ... the pins get the other value, ...
Drive ==
    /\ \/ GMain("drive", "wait") \/ GMain("drive2", "wait2")
    /\ pattern' = 1 - pattern /\ port' = SetValue(port, 1 - pattern)
    /\ UNCHANGED <<vec, iec, flag, ret, genv, tmode, r_data, sum>>

\* ... and the interrupt is waited for; with both edges, twice.
PortWait ==
    LET next == IF pc = "wait" /\ ~genv.level /\ genv.both THEN "drive2"
                ELSE "mask"
    IN  /\ pc \in {"wait", "wait2"}
        /\ \/ Waited("gpio", Raised, pc, next) /\ UNCHANGED sum
           \/ /\ GMain(pc, next) /\ flag # 1 /\ sum' = -1
              /\ UNCHANGED <<vec, iec, flag>>
        /\ UNCHANGED <<ret, loop, genv, tmode, port, r_data, pattern>>

\* The port is masked before the handler goes.
MaskPort ==
    /\ GMain("mask", "free")
    /\ port' = SetInterruptMask(port, FALSE)
    /\ UNCHANGED <<vec, iec, flag, ret, genv, tmode, r_data, pattern, sum>>

FreePort ==
    /\ Free("gpio", Raised, "free", "compare")
    /\ UNCHANGED gvars

ComparePattern ==
    /\ NextLoopBack("compare", "request", pattern # r_data)
    /\ UNCHANGED <<vec, iec, flag, genv, port, r_data, pattern>>

GpioMain ==
    \/ GpioOpen \/ PortTest \/ RwTest \/ RequestPort \/ Arm \/ Drive
    \/ PortWait \/ MaskPort \/ FreePort \/ ComparePattern

(***************************************************************************)
(* sq_gpio_w_int_isr                                                       *)
(***************************************************************************)
GpioEnter == Dispatch("gpio", Raised, "data") /\ UNCHANGED gvars

\* The data; a level that would not end is ended by the other value; the
\* latch is cleared.  sq_gpio_hit counts, and only 1 ends the wait: -1 is 2
\* or more.
GpioIsr ==
    /\ dev = "gpio" /\ isr = "data" /\ isr' = "none"
    /\ r_data' = GetValue
    /\ port' = SetInterruptClear(
                   IF genv.level THEN SetValue(port, 1 - genv.event) ELSE port)
    /\ flag' = IF flag = 0 THEN 1 ELSE -1
    /\ UNCHANGED <<dev, pc, vec, iec, ret, loop, genv, tmode, pattern, sum>>

GpioHandler == GpioEnter \/ GpioIsr

(***************************************************************************)
(* Properties                                                              *)
(***************************************************************************)
\* A good board passes every port test, whatever test ran before and left
\* in the registers: each interrupt is counted once, not before the wait
\* for it and not after, and its handler reads the value that was driven.
GoodPortsPass == dev = "gpio" /\ loop = "good" => ret # -1

\* A test with interrupts that passes has seen the loop back of all four
\* pairs: it does not take sq_r_data or the count of an earlier pair or
\* test for its own.  (The test without interrupts writes 0xFF only, and
\* passes a loop back that is stuck at 1.)
PortPassIsReal ==
    dev = "gpio" /\ pc = "menu" /\ ret = 0 /\ genv.int => loop = "good"
=============================================================================
