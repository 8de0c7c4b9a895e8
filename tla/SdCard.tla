------------------------------- MODULE SdCard -------------------------------
(***************************************************************************)
(* The SD/MMC card tests, src/SDHC_HOST/sdhc-ctrl.c: what a session on a   *)
(* slot (sdhc_sub_host_test) says to the card, command by command, while   *)
(* the card may be exchanged between any two commands.  A command that     *)
(* does not come through is one of the outcomes of socle_sdhc_send_command,*)
(* whose inside is module Sdhc; the card is external.                      *)
(*                                                                         *)
(* A test is socle_sdhci_card_ident, one action per command, followed by a *)
(* straight line of steps (Script), each of which may end the test.        *)
(***************************************************************************)
EXTENDS Integers, Sequences, FiniteSets

CONSTANTS
    Kinds,         \* the cards at hand
    Modes,         \* the bus widths, speeds and uses of auto CMD12 tried
    Sectors,       \* TEST_SECT_NUM, TEST_MULTI_BLOCK_NUM
    MaxFaults,     \* commands that do not come through, in one test
    MaxTries       \* TO_THRESHOLD_CNT

ASSUME SdCardAssumption ==
    /\ Kinds \subseteq {"sd1", "sd2", "sdhc", "mmc", "sdio", "combo"}
    /\ Modes \subseteq [w : {1, 4}, hs : BOOLEAN, auto : BOOLEAN]
    /\ Sectors \in Nat \ {0} /\ MaxTries \in Nat /\ MaxFaults \in Nat

\* enum of card.h; the types of SD and SDIO are bits.
MMC_TYPE_MMC  == 0
MMC_TYPE_SD   == 1
MMC_TYPE_SDIO == 2

Xfers  == {"single", "multi", "erase"}
Miscs  == {"cmd9", "cmd10", "cmd13", "cmd15", "acmd51"}
Tests  == Xfers \cup Miscs \cup {"open"}

\* What a block of the card or of the receive buffer holds: the number of a
\* block of the test pattern, or one of these.
OLD    == -1
ERASED == -2
ZERO   == -3
Content == ZERO .. Sectors - 1

VARIABLES
    slot, disk,              \* the card and its blocks; the far ones are
                             \* where 512 times a block address leads
    type, hcs, rca,          \* socle_mmc_card, socle_host: the card's data
    bus_mode, hs_mode, AutoCMD12Enable,
    alive_flag, irq, width, fast,            \* fast: SFR10_HIGH_SPEED_ENABLE
    data,                    \* send_cmd->data is set
    StatusBuffer,            \* the switch functions as first read
    socle_sdmmc_to_cnt,
    buf,                     \* TEST_PATTERN_RX_ADDR
    pc, test, step, ret,
    same, faults              \* history: the card is the one that was idle
                             \* after CMD0; the commands that have not
                             \* come through in this test

settings == <<bus_mode, hs_mode, AutoCMD12Enable>>
known    == <<type, hcs, rca>>
bus      == <<alive_flag, irq, width, fast>>
card     == <<slot, disk, buf>>
control  == <<pc, test, step, ret>>
vars     == <<card, known, settings, bus, data, StatusBuffer,
              socle_sdmmc_to_cnt, control, same, faults>>

(***************************************************************************)
(* The card (external)                                                     *)
(***************************************************************************)
NewCard(k) == [kind |-> k, st |-> "idle", w |-> 1, hs |-> FALSE,
               app |-> FALSE, rca |-> 0]
NoCard  == NewCard("none")
Cards   == [kind : Kinds \cup {"none"}, w : {1, 4}, hs : BOOLEAN, app : BOOLEAN,
            rca : {0, 1},
            st : {"idle", "ready", "ident", "stby", "tran", "rcv", "data",
                  "inactive"}]

HighCapacity(k) == k = "sdhc"
Memory(k)       == k \in {"sd1", "sd2", "sdhc", "combo"}
TrueType(k) == CASE k = "mmc"   -> MMC_TYPE_MMC
                 [] k = "sdio"  -> MMC_TYPE_SDIO
                 [] k = "combo" -> MMC_TYPE_SD + MMC_TYPE_SDIO
                 [] OTHER       -> MMC_TYPE_SD

\* A step of a test: a command, its argument, and whether the code sets or
\* clears the data pointer for it; or an operation on the host.
S(op, arg, ptr) == [op |-> op, arg |-> arg, ptr |-> ptr]

DataOps == {"check", "switch", "cmd24", "cmd17", "cmd25", "cmd18"}
Silent  == {"cmd0", "cmd15", "acmd51"}         \* MMC_RSP_NONE

\* Does the card c act on command op, addressed to a?
Accepts(c, op, a) ==
    /\ c # NoCard
    /\ c.st # "inactive"
    /\ CASE op = "cmd0"   -> TRUE
         [] op = "cmd8"   -> c.st = "idle" /\ c.kind \in {"sd2", "sdhc", "combo"}
         [] op \in {"cmd5", "cmd5v"} ->
              c.st = "idle" /\ c.kind \in {"sdio", "combo"}
         [] op = "cmd55"  -> /\ Memory(c.kind) /\ a = c.rca
                             /\ c.st \in {"idle", "stby", "tran"}
         [] op = "acmd41" -> c.app /\ c.st = "idle"
         [] op = "cmd1"   -> c.kind = "mmc" /\ c.st = "idle"
         [] op = "cmd2"   -> c.st = "ready"
         [] op = "cmd3"   -> c.st = IF c.kind = "sdio" THEN "ready" ELSE "ident"
         [] op \in {"cmd7", "cmd9", "cmd10", "cmd15"} ->
              c.st = "stby" /\ a = c.rca
         [] op = "cmd13"  -> c.st \in {"stby", "tran"} /\ a = c.rca
         [] op = "acmd6"  -> c.app /\ c.st = "tran"
         [] op = "acmd51" -> c.app /\ c.st = "tran"
         [] op \in {"mmcwidth", "mmcspeed"} -> c.kind = "mmc" /\ c.st = "tran"
         [] op \in {"check", "switch"} -> Memory(c.kind) /\ c.st = "tran"
         [] op = "cmd12"  -> c.st \in {"rcv", "data"}
         [] op = "cmd16"  -> c.st = "tran"
         [] OTHER         -> c.kind # "sdio" /\ c.st = "tran"

\* The state an accepted command leaves the card in.
After(c, op, a) ==
    LET d == [c EXCEPT !.app = (op = "cmd55")]
        To(s) == [d EXCEPT !.st = s]
    IN  CASE op = "cmd0"     -> NewCard(c.kind)
          [] op \in {"acmd41", "cmd1"} -> To("ready")
          [] op = "cmd5v"    -> IF c.kind = "sdio" THEN To("ready") ELSE d
          [] op = "cmd2"     -> To("ident")
          [] op = "cmd3"     -> [To("stby") EXCEPT !.rca = 1]
          [] op = "cmd7"     -> To("tran")
          [] op = "cmd12"    -> To("tran")
          [] op = "cmd15"    -> To("inactive")
          [] op \in {"acmd6", "mmcwidth"} -> [d EXCEPT !.w = a]
          [] op = "mmcspeed" -> [d EXCEPT !.hs = TRUE]
          [] op = "cmd25"    -> To(IF AutoCMD12Enable THEN "tran" ELSE "rcv")
          [] op = "cmd18"    -> To(IF AutoCMD12Enable THEN "tran" ELSE "data")
          [] OTHER           -> d

\* Where the host's n-th block address falls on card c; a block address on
\* a card that counts bytes is refused.
Lands(c, n) ==
    IF ~hcs /\ HighCapacity(c.kind) /\ n > 0 THEN Sectors + n - 1 ELSE n

Refused(c, n) == hcs /\ ~HighCapacity(c.kind) /\ n > 0

Blocks(op, n) == IF op \in {"cmd24", "cmd17"} THEN {n} ELSE 0 .. Sectors - 1

\* The blocks of the card, and the receive buffer, after a command.
Stored(c, op, n) ==
    [b \in DOMAIN disk |->
       LET hits == {i \in Blocks(op, n) : b = Lands(c, i)}
       IN  CASE op \in {"cmd24", "cmd25"} /\ hits # {} -> CHOOSE i \in hits : TRUE
             [] op = "cmd38" /\ b < Sectors            -> ERASED
             [] OTHER                                  -> disk[b]]

Fetched(c, op, n) ==
    [b \in DOMAIN buf |->
       IF op \in {"cmd17", "cmd18"} /\ b \in Blocks(op, n)
         THEN disk[Lands(c, b)] ELSE buf[b]]

\* The answers of a card to a command it accepts.  A card of high capacity
\* stays busy for a host that does not know of it.
Reply(c, op) ==
    CASE op = "acmd41" -> {"busy", IF ~HighCapacity(c.kind) THEN "ready"
                                   ELSE IF hcs THEN "ccs" ELSE "busy"}
      [] op = "cmd1"   -> {"busy", "ready"}
      [] op \in {"check", "switch"} -> {"busy", "yes", "no"}
      [] OTHER         -> {"yes"}

(***************************************************************************)
(* socle_sdhc_send_command                                                 *)
(***************************************************************************)
\* What a command does that comes through, for each answer r of the card.
Delivered(op, a) ==
    IF ~Accepts(slot, op, a) \/ (op \in DataOps /\ Refused(slot, a)) THEN {}
    ELSE {[slot |-> CASE op \in {"acmd41", "cmd1"} /\ r = "busy" ->
                           [slot EXCEPT !.app = FALSE]
                      [] op = "switch" /\ r = "yes" ->
                           [slot EXCEPT !.app = FALSE, !.hs = TRUE]
                      [] OTHER -> After(slot, op, a),
           disk |-> Stored(slot, op, a), buf |-> Fetched(slot, op, a),
           resp |-> r, err |-> FALSE, fail |-> FALSE, ok |-> TRUE]
            : r \in Reply(slot, op)}

Kept(e, f, ok) == [slot |-> slot, disk |-> disk, buf |-> buf, resp |-> "zero",
                   err |-> e, fail |-> f, ok |-> ok]

\* The outcomes of a command: err is err_flag, fail the value returned, ok
\* that the channel is not to blame.  With carry it has a data phase, which
\* the card does not know of unless it is a command with data: the wait for
\* the data times out.
Send(op, a, carry) ==
    LET came  == Delivered(op, a)
        stale == carry /\ op \notin DataOps
        mute  == op \notin Silent \/ carry
    IN  {[o EXCEPT !.err = stale, !.fail = stale] : o \in came}
        \* no answer: the card does not act on it, or has not heard it
        \cup {Kept(mute, mute, came = {})}
        \* the answer is lost, or damaged, and with it the data, which is
        \* only printed
        \cup {[o EXCEPT !.err = TRUE, !.fail = TRUE, !.resp = "zero", !.ok = FALSE] :
                 o \in {x \in came : op \notin Silent}}
        \cup {[o EXCEPT !.disk = IF op \in DataOps THEN disk ELSE o.disk,
                        !.buf = buf, !.resp = "zero", !.ok = FALSE] :
                 o \in {x \in came : op \notin Silent /\ ~stale}}
        \* the command line stays busy: MMC_ERR_INVALID
        \cup {Kept(FALSE, TRUE, FALSE)}

Apply(o) ==
    /\ slot' = o.slot /\ disk' = o.disk /\ buf' = o.buf
    /\ o.ok \/ faults < MaxFaults
    /\ faults' = IF o.ok THEN faults ELSE faults + 1

(***************************************************************************)
(* socle_sdhci_card_ident                                                  *)
(***************************************************************************)
\* A return from a test, or from the session it would have opened.
Return(r) ==
    /\ pc' = IF test = "open" THEN "closed" ELSE "menu"
    /\ ret' = r /\ step' = 1
    /\ UNCHANGED test

Go(l) == pc' = l /\ UNCHANGED <<test, step, ret>>

GoIdle ==
    /\ pc = "cmd0" /\ Go("cmd8")
    /\ \E o \in Send("cmd0", 0, data) :
         Apply(o) /\ same' = (same /\ o.slot = NewCard(o.slot.kind))
    /\ UNCHANGED <<known, settings, bus, data, StatusBuffer,
                   socle_sdmmc_to_cnt>>

SendIfCond ==
    /\ pc = "cmd8"
    /\ \E o \in Send("cmd8", 0, data) :
         /\ Apply(o)
         /\ hcs' = ~o.err
         /\ IF o.err \/ o.resp = "yes" THEN Go("cmd5") ELSE Return(-1)
    /\ UNCHANGED <<type, rca, settings, bus, data, StatusBuffer,
                   socle_sdmmc_to_cnt, same>>

\* CMD5, and CMD5 with the voltage.
IoOpCond ==
    /\ \/ /\ pc = "cmd5"
          /\ \E o \in Send("cmd5", 0, data) :
               /\ Apply(o)
               /\ type' = IF o.err THEN type ELSE MMC_TYPE_SDIO
               /\ Go(IF o.err THEN "cmd55" ELSE "cmd5v")
       \/ /\ pc = "cmd5v"
          /\ \E o \in Send("cmd5v", 0, data) :
               /\ Apply(o)
               /\ IF o.err THEN Return(-1) ELSE Go("cmd55")
          /\ UNCHANGED type
    /\ socle_sdmmc_to_cnt' = 0
    /\ UNCHANGED <<hcs, rca, settings, bus, data, StatusBuffer, same>>

\* The loops of ACMD41 and CMD1 give up.
OpCondTimeout ==
    /\ pc \in {"cmd55", "cmd1"}
    /\ socle_sdmmc_to_cnt > MaxTries
    /\ Return(-1)
    /\ UNCHANGED <<card, known, settings, bus, data, StatusBuffer,
                   socle_sdmmc_to_cnt, same, faults>>

AppCmd ==
    /\ pc = "cmd55" /\ socle_sdmmc_to_cnt <= MaxTries
    /\ \E o \in Send("cmd55", 0, data) :
         /\ Apply(o)
         /\ Go(IF o.err THEN "cmd1" ELSE "acmd41")
         /\ socle_sdmmc_to_cnt' = IF o.err THEN 0 ELSE socle_sdmmc_to_cnt
    /\ UNCHANGED <<known, settings, bus, data, StatusBuffer, same>>

\* type |= MMC_TYPE_SD
WithSd(t) == IF t \in {MMC_TYPE_MMC, MMC_TYPE_SDIO} THEN t + MMC_TYPE_SD ELSE t

AppOpCond_ignores_ccs ==
    /\ pc = "acmd41"
    /\ \E o \in Send("acmd41", 0, data) :
         /\ Apply(o)
         /\ IF o.resp \in {"ready", "ccs"}
              THEN hcs' = FALSE /\ type' = WithSd(type) /\ Go("cmd2")
              ELSE UNCHANGED <<hcs, type>> /\ Go("cmd55")
    /\ socle_sdmmc_to_cnt' = socle_sdmmc_to_cnt + 1
    /\ UNCHANGED <<rca, settings, bus, data, StatusBuffer, same>>

AppOpCond ==
    /\ pc = "acmd41"
    /\ \E o \in Send("acmd41", 0, data) :
         /\ Apply(o)
         /\ IF o.resp \in {"ready", "ccs"}
              THEN hcs' = (o.resp = "ccs") /\ type' = WithSd(type) /\ Go("cmd2")
              ELSE UNCHANGED <<hcs, type>> /\ Go("cmd55")
    /\ socle_sdmmc_to_cnt' = socle_sdmmc_to_cnt + 1
    /\ UNCHANGED <<rca, settings, bus, data, StatusBuffer, same>>

\* A card that does not answer CMD1 keeps the type it had.
SendOpCond_keeps_type ==
    /\ pc = "cmd1" /\ socle_sdmmc_to_cnt <= MaxTries
    /\ \E o \in Send("cmd1", 0, data) :
         /\ Apply(o)
         /\ Go(CASE o.err -> "cmd3" [] o.resp = "ready" -> "cmd2" [] OTHER -> "cmd1")
    /\ socle_sdmmc_to_cnt' = socle_sdmmc_to_cnt + 1
    /\ UNCHANGED <<known, settings, bus, data, StatusBuffer, same>>

SendOpCond ==
    /\ pc = "cmd1" /\ socle_sdmmc_to_cnt <= MaxTries
    /\ \E o \in Send("cmd1", 0, data) :
         /\ Apply(o)
         /\ \/ o.err /\ Go("cmd3") /\ UNCHANGED type
            \/ ~o.err /\ o.resp = "ready" /\ Go("cmd2") /\ type' = MMC_TYPE_MMC
            \/ ~o.err /\ o.resp # "ready" /\ Go("cmd1") /\ UNCHANGED type
    /\ socle_sdmmc_to_cnt' = socle_sdmmc_to_cnt + 1
    /\ UNCHANGED <<hcs, rca, settings, bus, data, StatusBuffer, same>>

AllSendCid ==
    /\ pc = "cmd2" /\ Go("cmd3")
    /\ \E o \in Send("cmd2", 0, data) : Apply(o)
    /\ UNCHANGED <<known, settings, bus, data, StatusBuffer,
                   socle_sdmmc_to_cnt, same>>

\* What the callers make of the type of the card; the transfer tests go on
\* with CMD7, the others only wanted to know (only_ident).
Identified ==
    CASE test \in Xfers -> Go("cmd7")
      [] test \in Miscs -> IF type = MMC_TYPE_SD THEN Go("body") ELSE Return(-1)
      [] test = "open" /\ type # MMC_TYPE_SDIO -> Go("menu")
      [] test = "open" /\ type = MMC_TYPE_SDIO -> Return(0)

SetRelativeAddr ==
    /\ pc = "cmd3"
    /\ \/ /\ type \in {MMC_TYPE_SD, MMC_TYPE_MMC, MMC_TYPE_SDIO}
          /\ \E o \in Send("cmd3", 0, data) :
               /\ Apply(o)
               /\ rca' = IF o.resp = "yes" THEN 1 ELSE 0
          /\ Identified
       \/ /\ type \notin {MMC_TYPE_SD, MMC_TYPE_MMC, MMC_TYPE_SDIO}
          /\ Return(-1)
          /\ UNCHANGED <<card, rca, faults>>
    /\ UNCHANGED <<type, hcs, settings, bus, data, StatusBuffer,
                   socle_sdmmc_to_cnt, same>>

\* CMD7 and CMD16
SelectCard ==
    /\ pc \in {"cmd7", "cmd16"}
    /\ \E o \in Send(pc, IF type = MMC_TYPE_MMC THEN 1 ELSE rca, data) :
         /\ Apply(o)
         /\ IF o.fail THEN Return(-1)
            ELSE Go(IF pc = "cmd7" THEN "cmd16" ELSE "body")
    /\ UNCHANGED <<known, settings, bus, data, StatusBuffer,
                   socle_sdmmc_to_cnt, same>>

Ident ==
    \/ GoIdle \/ SendIfCond \/ IoOpCond \/ OpCondTimeout \/ AppCmd
    \/ AppOpCond \/ SendOpCond \/ AllSendCid \/ SetRelativeAddr \/ SelectCard

(***************************************************************************)
(* The tests                                                               *)
(***************************************************************************)
WidthSteps_host_only ==
    (IF type = MMC_TYPE_MMC THEN <<S("mmcwidth", bus_mode, "keep")>> ELSE <<>>)
    \o <<S("set_bus_width", 0, "keep")>>

WidthSteps ==
    (CASE type = MMC_TYPE_SD  -> <<S("cmd55", rca, "keep"),
                                   S("acmd6", bus_mode, "keep")>>
       [] type = MMC_TYPE_MMC -> <<S("mmcwidth", bus_mode, "keep")>>
       [] OTHER               -> <<>>)
    \o <<S("set_bus_width", 0, "keep")>>

\* CMD6 first asks for high speed, then switches to it; the second answer
\* goes to SD_STATUS_ADDR, and what is looked at is the first.
SpeedSteps ==
    IF ~hs_mode THEN <<>>
    ELSE (CASE type = MMC_TYPE_SD ->
                 <<S("check", 0, "data"), S("switch", 0, "data"),
                   S("switched", 0, "keep")>>
            [] type = MMC_TYPE_MMC -> <<S("mmcspeed", 0, "keep")>>
            [] OTHER -> <<>>)
         \o <<S("set_hs", 0, "null")>>

PerBlock(op) == [i \in 1 .. Sectors |-> S(op, i - 1, "data")]

SingleBlock ==
    WidthSteps \o SpeedSteps
    \o PerBlock("cmd24") \o PerBlock("cmd17")
    \o <<S("compare", 0, "null")>>

Stop == IF AutoCMD12Enable THEN <<>> ELSE <<S("cmd12", 0, "null")>>

MultipleBlock ==
    WidthSteps \o SpeedSteps
    \o <<S("cmd25", 0, "data")>> \o Stop
    \o <<S("cmd18", 0, "data")>> \o Stop
    \o <<S("compare", 0, "keep")>>

\* Only the first word of the buffer is compared, 128 times.
Erase ==
    WidthSteps
    \o <<S("cmd25", 0, "data"), S("clear", 0, "null")>> \o Stop
    \o <<S("erasable", 0, "keep"), S("cmd32", 0, "keep"),
         S("cmd33", 0, "keep"), S("cmd38", 0, "keep"),
         S("cmd18", 0, "data"), S("clear", 0, "null")>> \o Stop
    \o <<S("erased", 0, "keep")>>

Misc(t) ==
    IF t = "acmd51" THEN <<S("cmd55", rca, "keep"), S("acmd51", 0, "keep")>>
    ELSE <<S(t, rca, "keep")>>

Script == CASE test = "single" -> SingleBlock
            [] test = "multi"  -> MultipleBlock
            [] test = "erase"  -> Erase
            [] OTHER           -> Misc(test)

\* Operations of the host among the steps: do they let the test go on?
HostSteps == {"set_bus_width", "set_hs", "switched", "compare", "clear",
              "erasable", "erased"}

Passes(op) ==
    CASE op = "switched" -> StatusBuffer = "yes"
      [] op = "compare"  -> \A i \in DOMAIN buf : buf[i] = i
      [] op = "erasable" -> type \in {MMC_TYPE_SD, MMC_TYPE_MMC}
      [] op = "erased"   -> buf[0] \in {ERASED, ZERO}
      [] OTHER           -> TRUE

Advance ==
    /\ step' = step + 1
    /\ UNCHANGED <<pc, test, ret>>

SetData(ptr) == data' = CASE ptr = "keep" -> data
                          [] ptr = "null" -> FALSE
                          [] ptr = "data" -> TRUE

Host(s) ==
    /\ s.op \in HostSteps
    /\ SetData(s.ptr)
    /\ width' = IF s.op = "set_bus_width" THEN bus_mode ELSE width
    /\ fast'  = (fast \/ s.op = "set_hs")
    /\ IF Passes(s.op) THEN Advance ELSE Return(-1)
    /\ socle_sdmmc_to_cnt' = 0
    /\ UNCHANGED <<alive_flag, irq, card, faults, StatusBuffer>>

Command(s) ==
    /\ s.op \notin HostSteps \cup {"check"}
    /\ SetData(s.ptr)
    /\ \E o \in Send(s.op, s.arg, data') :
         /\ Apply(o)
         /\ IF o.fail THEN Return(-1) ELSE Advance
    /\ UNCHANGED <<bus, StatusBuffer, socle_sdmmc_to_cnt>>

\* The loop around the first CMD6; data damaged on the way may say anything.
Check(s) ==
    /\ s.op = "check"
    /\ socle_sdmmc_to_cnt <= MaxTries
    /\ SetData(s.ptr)
    /\ \E o \in Send(s.op, s.arg, data') :
         /\ Apply(o)
         /\ StatusBuffer' \in IF o.resp = "zero" THEN {"yes", "no", "busy"}
                             ELSE {o.resp}
         /\ \/ /\ o.fail \/ StatusBuffer' = "no"
               /\ Return(-1) /\ UNCHANGED socle_sdmmc_to_cnt
            \/ /\ ~o.fail /\ StatusBuffer' = "busy"
               /\ socle_sdmmc_to_cnt' = socle_sdmmc_to_cnt + 1
               /\ UNCHANGED control
            \/ /\ ~o.fail /\ StatusBuffer' = "yes"
               /\ Advance /\ UNCHANGED socle_sdmmc_to_cnt
    /\ UNCHANGED bus

CheckTimeout(s) ==
    /\ s.op = "check"
    /\ socle_sdmmc_to_cnt > MaxTries
    /\ Return(-1)
    /\ UNCHANGED <<card, bus, data, faults, StatusBuffer, socle_sdmmc_to_cnt>>

RunStep ==
    /\ pc = "body"
    /\ step <= Len(Script)
    /\ LET s == Script[step] 
       IN  Host(s) \/ Command(s) \/ Check(s) \/ CheckTimeout(s)
    /\ UNCHANGED <<known, settings, same>>

Pass ==
    /\ pc = "body"
    /\ step > Len(Script)
    /\ Return(0)
    /\ UNCHANGED <<card, known, settings, bus, data, StatusBuffer,
                   socle_sdmmc_to_cnt, same, faults>>

(***************************************************************************)
(* The session                                                             *)
(***************************************************************************)
Init ==
    /\ slot \in {NoCard} \cup {NewCard(k) : k \in Kinds}
    /\ disk = [b \in 0 .. 2 * Sectors - 2 |-> OLD]
    /\ type = MMC_TYPE_MMC /\ hcs = FALSE /\ rca = 0
    /\ bus_mode = 1 /\ hs_mode = FALSE /\ AutoCMD12Enable = FALSE
    /\ alive_flag = FALSE /\ irq = FALSE /\ width = 1 /\ fast = FALSE
    /\ data = FALSE
    /\ StatusBuffer = "zero" /\ socle_sdmmc_to_cnt = 0
    /\ buf = [b \in 0 .. Sectors - 1 |-> ZERO]
    /\ pc = "closed" /\ test = "open" /\ step = 1 /\ ret = -1
    /\ same = FALSE /\ faults = 0

Begin(t) ==
    /\ test' = t /\ step' = 1 /\ pc' = "cmd0" /\ ret' = -1
    /\ same' = TRUE /\ faults' = 0
    /\ StatusBuffer' = "zero"

\* sdhc_sub_host_test up to the identification: card_detect, a reset of the
\* controller by host_initialize, request_irq.
Open ==
    /\ pc = "closed"
    /\ slot # NoCard
    /\ Begin("open")
    /\ alive_flag' = TRUE /\ irq' = TRUE /\ width' = 1 /\ fast' = FALSE
    /\ bus_mode' = 1
    /\ UNCHANGED <<card, known, hs_mode, AutoCMD12Enable, data,
                   socle_sdmmc_to_cnt>>

\* The end of sdhc_sub_host_test; the handler stays if CMD0 fails.
Close ==
    /\ pc = "menu" /\ pc' = "closed"
    /\ data' = FALSE
    /\ \E o \in Send("cmd0", 0, FALSE) :
         /\ Apply(o)
         /\ irq' = o.fail
         /\ ret' = IF o.fail THEN -1 ELSE ret
    /\ UNCHANGED <<known, settings, alive_flag, width, fast, StatusBuffer,
                   socle_sdmmc_to_cnt, test, step, same>>

\* A test that returns before it sends a command.
TurnedAway ==
    /\ ret' = -1
    /\ UNCHANGED <<pc, test, step, same, faults, StatusBuffer>>

\* The menus down to a transfer test; high speed is for cards of high
\* capacity.  Its buffer is cleared, except by the erasing test.  It is turned
\* away without a card, and when the card is write protected, which the user
\* may change at any time.
StartXfer_keeps_data(t, m) ==
    /\ pc = "menu"
    /\ m.hs /\ type = MMC_TYPE_SD => hcs
    /\ bus_mode' = m.w /\ hs_mode' = m.hs /\ AutoCMD12Enable' = m.auto
    /\ buf' = IF t = "erase" THEN buf ELSE [b \in DOMAIN buf |-> ZERO]
    /\ \/ alive_flag /\ Begin(t)
       \/ TurnedAway
    /\ UNCHANGED <<slot, disk, known, bus, data, socle_sdmmc_to_cnt>>

StartXfer(t, m) ==
    /\ pc = "menu"
    /\ m.hs /\ type = MMC_TYPE_SD => hcs
    /\ bus_mode' = m.w /\ hs_mode' = m.hs /\ AutoCMD12Enable' = m.auto
    /\ data' = FALSE
    /\ buf' = IF t = "erase" THEN buf ELSE [b \in DOMAIN buf |-> ZERO]
    /\ \/ alive_flag /\ Begin(t)
       \/ TurnedAway
    /\ UNCHANGED <<slot, disk, known, bus, socle_sdmmc_to_cnt>>

StartMisc(t) ==
    /\ pc = "menu"
    /\ \/ alive_flag /\ Begin(t)
       \/ ~alive_flag /\ TurnedAway
    /\ UNCHANGED <<card, known, settings, bus, data, socle_sdmmc_to_cnt>>

\* The user: while the handler is registered it sees the card leave and
\* come (device_deattach, device_attach).
Exchange ==
    /\ slot' \in IF slot = NoCard THEN {NewCard(k) : k \in Kinds} ELSE {NoCard}
    /\ disk' = [b \in DOMAIN disk |-> OLD]
    /\ alive_flag' = IF irq THEN slot = NoCard ELSE alive_flag
    /\ width' = IF irq /\ slot = NoCard THEN 1 ELSE width
    /\ same' = FALSE
    /\ UNCHANGED <<buf, known, settings, irq, fast, data, faults,
                   StatusBuffer, socle_sdmmc_to_cnt, control>>

Next ==
    \/ Open \/ Close \/ Ident \/ RunStep \/ Pass \/ Exchange
    \/ \E t \in Xfers, m \in Modes : StartXfer(t, m)
    \/ \E t \in Miscs : StartMisc(t)

Spec == Init /\ [][Next]_vars

(***************************************************************************)
(* Properties                                                              *)
(***************************************************************************)
TypeOK ==
    /\ slot \in Cards
    /\ disk \in [0 .. 2 * Sectors - 2 -> Content]
    /\ buf \in [0 .. Sectors - 1 -> Content]
    /\ type \in 0 .. 3 /\ hcs \in BOOLEAN /\ rca \in {0, 1}
    /\ bus_mode \in {1, 4} /\ hs_mode \in BOOLEAN
    /\ AutoCMD12Enable \in BOOLEAN
    /\ alive_flag \in BOOLEAN /\ irq \in BOOLEAN /\ width \in {1, 4}
    /\ fast \in BOOLEAN /\ data \in BOOLEAN
    /\ StatusBuffer \in {"zero", "yes", "no", "busy"}
    /\ socle_sdmmc_to_cnt \in 0 .. MaxTries + 1
    /\ pc \in {"closed", "menu", "body", "cmd0", "cmd8", "cmd5", "cmd5v",
               "cmd55", "acmd41", "cmd1", "cmd2", "cmd3", "cmd7", "cmd16"}
    /\ test \in Tests /\ ret \in {0, -1}
    /\ step \in 1 .. 2 * Sectors + 12
    /\ same \in BOOLEAN /\ faults \in 0 .. MaxFaults

\* The command about to be sent, and whether with the data pointer set.
Coming == IF pc = "body" /\ step <= Len(Script) THEN Script[step]
          ELSE S(pc, 0, "keep")
Sending == Coming.op \notin HostSteps \cup {"closed", "menu", "body"}
Carries == Coming.ptr = "data" \/ (Coming.ptr = "keep" /\ data)

\* A transfer test that passes has left its pattern in the blocks it
\* tested, and an erasing test the first block erased: no earlier test's
\* buffer, wrong address or damaged transfer makes it pass.  (A card that
\* misses CMD0, which is not answered, may go on from where an earlier test
\* left it, be taken for one of standard capacity, and pass with the blocks
\* written elsewhere.)
PassIsReal ==
    pc = "menu" /\ ret = 0 /\ same =>
        /\ test \in {"single", "multi"} =>
             \A b \in 0 .. Sectors - 1 : disk[b] = b
        /\ test = "erase" => disk[0] = ERASED

\* A transfer test that gets past the identification knows its card: the
\* type and the capacity are this card's, whatever was in the slot before
\* and whichever commands were lost.
IdentIsTrue ==
    pc = "body" /\ test \in Xfers /\ same =>
        /\ type = TrueType(slot.kind)
        /\ hcs = HighCapacity(slot.kind) \/ type = MMC_TYPE_SDIO

\* The data pointer of one command is never taken along by another, except
\* by the miscellaneous commands, which do not clear what an aborted test,
\* or one with auto CMD12, has left.
NoStaleData ==
    Sending /\ Carries /\ Coming.op \notin DataOps => test \in Miscs

\* Host and card agree on the bus width whenever data are to move, also when
\* one of the commands that set it has been lost.
BusAgrees ==
    pc = "body" /\ Sending /\ Coming.op \in DataOps /\ same
    /\ type # MMC_TYPE_SDIO
        => width = slot.w

\* While nothing is lost, every command of a test on a memory card is one
\* the card acts on in the state it is in: no transfer is left open, no
\* card unselected.  ACMD51 is sent to a card that is not selected.
CommandLegal ==
    pc = "body" /\ Sending /\ same /\ faults = 0 /\ type # MMC_TYPE_SDIO
    /\ (Carries => Coming.op \in DataOps)
        => Accepts(slot, Coming.op, Coming.arg) \/ test = "acmd51"

\* Host and card mean the same state of the card and of the bus.
BusLegal == TypeOK /\ BusAgrees /\ CommandLegal

\* Host and card agree on the speed whenever blocks are to move.
SpeedAgrees ==
    pc = "body" /\ Sending /\ Coming.op \in DataOps \ {"check", "switch"}
    /\ same /\ faults = 0 /\ type # MMC_TYPE_SDIO
        => fast = slot.hs
=============================================================================
