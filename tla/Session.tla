------------------------------ MODULE Session ------------------------------
(***************************************************************************)
(* What the tests of the small devices share: the main thread, which is in *)
(* the menu of one device, the device's entry in the interrupt table       *)
(* (request_irq and free_irq of platform/PDK_PC9223/irq.c), the flag that  *)
(* its handler sets, and the wait for it (sq_wait_for_int of               *)
(* lib/socle_lib/board.c).  The modules of the devices extend this one.    *)
(*                                                                         *)
(* The build is unoptimised (-O0): stores happen in the order of the code. *)
(***************************************************************************)
EXTENDS Integers, Sequences

VARIABLES
    dev,    \* the device whose menu is open
    pc,     \* where the main thread is in that menu
    vec,    \* the device's handler is in irq_vector_table
    iec,    \* its line is enabled in the controller
    isr,    \* section the handler is in, or "none"
    flag,   \* the flag that the handler sets: 0, 1, or -1 for an error
    ret     \* result of the last test, 1 before the first

session == <<dev, pc, vec, iec, isr, flag, ret>>

SessionTypeOK ==
    /\ vec \in BOOLEAN /\ iec \in BOOLEAN
    /\ flag \in {0, 1, -1} /\ ret \in {1, 0, -1}

SessionInit(devices) ==
    /\ dev \in devices /\ pc = "closed" /\ vec = FALSE /\ iec = FALSE
    /\ isr = "none" /\ flag = 0 /\ ret = 1

\* The main thread moves while no handler runs and the line is not
\* delivered: the processor samples its interrupt input before every
\* instruction.  A line that is delivered while there is no handler is
\* never acknowledged (irq_dispatch returns), and so the main thread never
\* moves again.
Main(d, line, from, to) ==
    /\ dev = d /\ pc = from /\ pc' = to
    /\ isr = "none" /\ ~(iec /\ line)
    /\ UNCHANGED <<dev, isr>>

\* request_irq: the line is delivered from its last store on.
Request(d, line, from, to) ==
    /\ Main(d, line, from, to)
    /\ vec' = TRUE /\ iec' = TRUE
    /\ UNCHANGED ret

\* free_irq: the handler goes first, the line is disabled after it.
Free(d, line, from, to) ==
    /\ \/ Main(d, line, from, "freed") /\ vec' = FALSE /\ UNCHANGED iec
       \/ Main(d, line, "freed", to) /\ iec' = FALSE /\ UNCHANGED vec
    /\ UNCHANGED <<flag, ret>>

\* sq_wait_for_int with the flag set: it is reset on the way out.
Waited(d, line, from, to) ==
    /\ Main(d, line, from, to)
    /\ flag = 1 /\ flag' = 0
    /\ UNCHANGED <<vec, iec>>

\* sq_wait_for_int, its time being over.
GaveUp(d, line, from, to) ==
    /\ Main(d, line, from, to)
    /\ flag # 1 /\ ret' = -1
    /\ UNCHANGED <<vec, iec, flag>>

Dispatch(d, line, section) ==
    /\ dev = d /\ isr = "none" /\ iec /\ line /\ vec
    /\ isr' = section
    /\ UNCHANGED <<dev, pc, vec, iec, flag, ret>>
=============================================================================
