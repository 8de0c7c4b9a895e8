-------------------------------- MODULE Nor --------------------------------
(***************************************************************************)
(* The tests of the NOR flash, src/NOR-MXIC/nor-mxic-ctrl.c, with the      *)
(* sectors of the build (GDR_NOR_MXIC).  The main thread polls; there is   *)
(* no interrupt.  The chip is external: it takes an unlock sequence and a  *)
(* command only while it reads as memory, shows its status while it is     *)
(* busy and after a program that failed, and leaves the failed state with  *)
(* the reset 0xF0.                                                         *)
(*                                                                         *)
(* A cell is what one access reads, a byte or a word, as the set of its    *)
(* bits that are 1; a byte has two bits.  Programming can only clear bits. *)
(***************************************************************************)
EXTENDS Session

CONSTANTS
    FLASH_TOTAL_SEC_NUM,    \* sectors of the chip
    TempWords               \* entries of temp: the words of one sector

ASSUME NorAssumption ==
    FLASH_TOTAL_SEC_NUM \in Nat \ {0} /\ TempWords \in Nat \ {0}

VARIABLES
    word,       \* mode: the flash is accessed by words
    slow,       \* this chip may take longer than the program waits
    bad,        \* its cells that cannot be programmed
    flash,      \* its cells
    fmode,      \* "read", "busy" or "failed"
    job,        \* what it is busy with: the cells, and the bits they keep
    nop,        \* the operation of the main thread
    goal,       \* history: the sector that a write is to leave
    used,       \* history: the sectors that the automatic test finds used
    past        \* history: "no", or what was overrun: "temp" or "chip"

nvars == <<word, slow, bad, flash, fmode, job, nop, goal, used, past>>

SectorSet == 0 .. FLASH_TOTAL_SEC_NUM - 1
Width     == IF word THEN TempWords ELSE 2 * TempWords
Cells     == 0 .. Width - 1
LowByte   == 0 .. 1
Erased    == IF word THEN 0 .. 3 ELSE LowByte       \* 0xffff or 0xff
Clean     == [c \in Cells |-> Erased]

\* i % 256 or i % 65536.
Count(i)  == {b \in Erased : (i \div 2 ^ b) % 2 = 1}
Patterned   == [c \in Cells |-> Count(c)]

\* What readb and ioread16 return.  A status is never the erased value in
\* two accesses that follow one another, for one of its bits toggles.
Status    == {1}
Read(s)   == IF fmode = "read" THEN flash[s] ELSE [c \in Cells |-> Status]

NorTypeOK ==
    /\ word \in BOOLEAN /\ slow \in BOOLEAN /\ bad \subseteq SectorSet \X Cells
    /\ flash \in [SectorSet -> [Cells -> SUBSET Erased]]
    /\ fmode \in {"read", "busy", "failed"} /\ past \in {"no", "temp", "chip"}

NoOperation == [kind |-> "none", from |-> 0, sec |-> 0, end |-> 0, cell |-> 0,
                temp |-> <<>>, stale |-> FALSE]

NorInit ==
    /\ word \in BOOLEAN /\ slow \in BOOLEAN
    /\ bad \in {{}} \cup {{<<s, Width - 1>>} : s \in SectorSet}
    /\ slow => bad = {}
    /\ flash = [s \in SectorSet |-> Clean]
    /\ fmode = "read" /\ job = <<>> /\ nop = NoOperation
    /\ goal = <<>> /\ used = {} /\ past = "no"

(***************************************************************************)
(* The chip (external)                                                     *)
(***************************************************************************)
Kept(cells, bits) ==
    [s \in SectorSet |-> [c \in Cells |->
        IF <<s, c>> \in cells THEN bits[<<s, c>>] ELSE flash[s][c]]]

\* A command of the main thread: it is ignored unless the chip reads.
Accept(cells, bits) ==
    \/ /\ fmode # "read" /\ UNCHANGED <<flash, fmode, job>>
    \/ /\ fmode = "read" /\ flash' = Kept(cells, bits)
       /\ UNCHANGED <<fmode, job>>
    \/ /\ fmode = "read" /\ slow /\ fmode' = "busy"
       /\ job' = [cells |-> cells, bits |-> bits]
       /\ UNCHANGED flash

ChipFinish ==
    /\ dev = "nor" /\ fmode = "busy" /\ fmode' = "read" /\ job' = <<>>
    /\ flash' = Kept(job.cells, job.bits)
    /\ UNCHANGED <<session, word, slow, bad, nop, goal, used, past>>

SectorCells(s) == {s} \X Cells
Ones(cells)    == [x \in cells |-> Erased]

(***************************************************************************)
(* The main thread                                                         *)
(***************************************************************************)
NMain(from, to) ==
    /\ Main("nor", FALSE, from, to)
    /\ UNCHANGED <<vec, iec, flag, word, slow, bad>>

\* nor_mxic_test reads the mode and opens the menu.
NorOpen == NMain("closed", "menu") /\ UNCHANGED <<ret, nvars>>

Begin(kind, fields, to) ==
    /\ NMain("menu", to)
    /\ nop' = [f \in DOMAIN NoOperation |->
                  CASE f = "kind" -> kind [] f = "stale" -> fmode # "read"
                    [] f \in DOMAIN fields -> fields[f]
                    [] OTHER -> NoOperation[f]]
    /\ used' = {s \in SectorSet : kind = "auto" /\
                    \E c \in Cells : flash[s][c] \notin {LowByte, Erased}}
    /\ UNCHANGED <<ret, flash, fmode, job>>

\* An access with the number of the first sector after the last one, or
\* past the end of temp, ends the behaviour.
Bounded(s) == past' = IF s \in SectorSet THEN "no" ELSE "chip"

\* nor_mxic_sector_rw, by hand: `end > flash_total_sec_num' lets the number
\* of sectors itself through.
SectorRange ==
    \E from, end \in 0 .. FLASH_TOTAL_SEC_NUM :
        /\ from <= end
        /\ Begin("rw", [from |-> from, sec |-> from, end |-> end], "erase")
        /\ Bounded(from) /\ goal' = <<>>

\* nor_mxic_sector_rw, as part of the automatic test: it looks for a sector
\* that has not been used, from the last one down.
AutoBegin ==
    /\ Begin("auto", [sec |-> FLASH_TOTAL_SEC_NUM - 1], "scan")
    /\ goal' = <<>> /\ UNCHANGED past

\* In word mode 0x00ff passes for erased.
Unused(s) == \A c \in Cells : Read(s)[c] \in {LowByte, Erased}

Scan ==
    /\ \/ /\ Unused(nop.sec) /\ NMain("scan", "erase")
          /\ nop' = [nop EXCEPT !.from = nop.sec, !.end = nop.sec]
          /\ UNCHANGED ret
       \/ /\ ~Unused(nop.sec) /\ nop.sec > 0 /\ NMain("scan", "scan")
          /\ nop' = [nop EXCEPT !.sec = @ - 1]
          /\ UNCHANGED ret
       \/ /\ ~Unused(nop.sec) /\ nop.sec = 0 /\ NMain("scan", "menu")
          /\ nop' = [nop EXCEPT !.kind = "full"] /\ ret' = 0
    /\ UNCHANGED <<flash, fmode, job, goal, used, past>>

\* nor_mxic_write and mxic_flash_write, to the erase: `flashoffset >
\* flashsize' lets the size itself through.  temp has an entry for each
\* word of a sector, and not for each byte.
WriteCell_lost(s, c, data) ==
    /\ Begin("write", [from |-> s, sec |-> s, end |-> s, temp |-> Read(s)],
             "erase")
    /\ goal' = [flash[s] EXCEPT ![c] = data]
    /\ past' = IF Width > TempWords THEN "temp" ELSE past

WriteCell(s, c, data) ==
    /\ Begin("write", [from |-> s, sec |-> s, end |-> s,
                       temp |-> [Read(s) EXCEPT ![c] = data]], "erase")
    /\ goal' = [flash[s] EXCEPT ![c] = data]
    /\ past' = IF Width > TempWords THEN "temp" ELSE past

NorWrite ==
    \/ \E s \in SectorSet, c \in Cells : WriteCell(s, c, LowByte)
    \/ Begin("write", [sec |-> FLASH_TOTAL_SEC_NUM], "erase")
       /\ past' = "chip" /\ goal' = <<>>

\* nor_mxic_erase_sector: by address, where the size is let through, or by
\* number.
NorErase ==
    \E s \in 0 .. FLASH_TOTAL_SEC_NUM :
        /\ Begin("erase", [from |-> s, sec |-> s, end |-> s], "erase")
        /\ Bounded(s) /\ goal' = <<>>

\* mxic_flash_erase_sector: the command, the fixed delay and the reset, ...
EraseSector ==
    /\ NMain("erase", "reset")
    /\ Accept(SectorCells(nop.sec), Ones(SectorCells(nop.sec)))
    /\ UNCHANGED <<ret, nop, goal, used, past>>

ResetChip ==
    /\ NMain("reset", "erased")
    /\ fmode' = IF fmode = "failed" THEN "read" ELSE fmode
    /\ UNCHANGED <<ret, flash, job, nop, goal, used, past>>

\* ... and the check.
CheckErased ==
    /\ IF Read(nop.sec) # Clean
       THEN NMain("erased", "menu") /\ ret' = -1 /\ UNCHANGED nop
       ELSE IF nop.kind = "erase"
       THEN NMain("erased", "menu") /\ ret' = 0 /\ UNCHANGED nop
       ELSE /\ NMain("erased", "program") /\ nop' = [nop EXCEPT !.cell = 0]
            /\ UNCHANGED ret
    /\ UNCHANGED <<flash, fmode, job, goal, used, past>>

Wanted == IF nop.kind = "write" THEN nop.temp[nop.cell] ELSE Count(nop.cell)

\* mxic_program: the command; a cell that cannot be programmed ends in the
\* failed state.
ProgramCell ==
    LET x == <<nop.sec, nop.cell>>
        v == flash[nop.sec][nop.cell] \cap Wanted
    IN  /\ NMain("program", "poll")
        /\ IF fmode = "read" /\ x \in bad /\ v # flash[nop.sec][nop.cell]
           THEN fmode' = "failed" /\ UNCHANGED <<flash, job>>
           ELSE Accept({x}, [y \in {x} |-> v])
        /\ UNCHANGED <<ret, nop, goal, used, past>>

\* The data is polled 150 times.  The chip is not reset after a failure.
Poll ==
    /\ IF fmode # "read" \/ flash[nop.sec][nop.cell] # Wanted
       THEN NMain("poll", "menu") /\ ret' = -1 /\ UNCHANGED <<nop, past>>
       ELSE IF nop.cell < Width - 1
       THEN /\ NMain("poll", "program") /\ nop' = [nop EXCEPT !.cell = @ + 1]
            /\ UNCHANGED <<ret, past>>
       ELSE IF nop.sec < nop.end
       THEN /\ NMain("poll", "erase") /\ nop' = [nop EXCEPT !.sec = @ + 1]
            /\ Bounded(nop.sec + 1) /\ UNCHANGED ret
       ELSE NMain("poll", "menu") /\ ret' = 0 /\ UNCHANGED <<nop, past>>
    /\ UNCHANGED <<flash, fmode, job, goal, used>>

\* nor_mxic_erase_all: the command, and after the delay the check, without
\* a reset.
EraseAll ==
    \/ /\ Begin("all", [end |-> FLASH_TOTAL_SEC_NUM - 1], "all")
       /\ goal' = <<>> /\ UNCHANGED past
    \/ /\ NMain("all", "allcheck")
       /\ Accept(SectorSet \X Cells, Ones(SectorSet \X Cells))
       /\ UNCHANGED <<ret, nop, goal, used, past>>
    \/ /\ NMain("allcheck", "menu")
       /\ ret' = IF \A s \in SectorSet : Read(s) = Clean THEN 0 ELSE -1
       /\ UNCHANGED <<flash, fmode, job, nop, goal, used, past>>

NorMain ==
    \/ NorOpen \/ SectorRange \/ AutoBegin \/ Scan \/ NorWrite \/ NorErase
    \/ EraseSector \/ ResetChip \/ CheckErased \/ ProgramCell \/ Poll \/ EraseAll

(***************************************************************************)
(* Properties                                                              *)
(***************************************************************************)
Over == dev = "nor" /\ pc = "menu"

\* A good chip passes every test, in whatever order they are chosen and
\* whatever they left in the sectors.
GoodFlashPasses == dev = "nor" /\ ~slow /\ bad = {} => ret # -1

\* A sector test that passes has left its pattern in every sector it was
\* told to test, though each cell is read only once, right after it was
\* written, and though the chip may still be at work on an operation that
\* was given up.
FlashPassIsReal ==
    Over /\ ret = 0 /\ nop.kind \in {"rw", "auto"} =>
        \A s \in nop.from .. nop.end : flash[s] = Patterned

\* A write that succeeds, which erases the sector and programs it again
\* from temp, changes the one cell and no other.  The exception is a write
\* to a chip that an operation before left busy or failed: temp then holds
\* its status instead of the sector.
WriteKeepsSector ==
    Over /\ ret = 0 /\ nop.kind = "write" /\ ~nop.stale =>
        flash[nop.sec] = goal

\* The automatic test takes no sector that holds data, as far as its look
\* at the cells can tell data: a word 0x00ff is none.
AutoKeepsUsed ==
    pc \notin {"closed", "menu"} /\ nop.kind = "auto" /\ ~nop.stale =>
        pc = "scan" \/ nop.sec \notin used
=============================================================================
