---------------------------- MODULE Hdma_proofs ----------------------------
(***************************************************************************)
(* Proofs about the DMA service and the tests that share it, for any set   *)
(* of tests the user may start and any number of polls.                    *)
(***************************************************************************)
EXTENDS Hdma, TLAPS

(***************************************************************************)
(* The inductive invariant                                                 *)
(***************************************************************************)
\* The order in which a test of two channels requests and frees them.
First  == IF cur = "pair" THEN Tx ELSE 0
Second == IF cur = "pair" THEN Rx ELSE 1

Mine(d) == cur # "self" \/ d = ch

AskedAt(d) == IF cur = "self" \/ d = First THEN 1 ELSE 2

FreedAt(d) == IF cur = "self" THEN 2
              ELSE IF cur = "pair" THEN AskedAt(d) + 2 ELSE AskedAt(d)

\* What channel d is to the running test: not requested (any more), being
\* requested, its own, being freed.
Phase(d) ==
    IF part = "idle" \/ ~Mine(d) THEN "out"
    ELSE IF part \in {"menu", "run"} THEN "own"
    ELSE IF part = "enter"
      THEN IF line > AskedAt(d) THEN "own"
           ELSE IF line = AskedAt(d) /\ step # "none" THEN "asking" ELSE "out"
    ELSE IF line > FreedAt(d) THEN "out"
         ELSE IF line = FreedAt(d) /\ step # "none" THEN "freeing" ELSE "own"

Acts == part \in {"enter", "run", "leave"}

\* The call the main thread is in, or at, and its channel.
Op == Script[line][1]
Of == Script[line][2]

RequestSteps == {"cdma", "cisr", "vec", "irqen"}
FreeSteps    == {"unlock", "uncdma", "uncisr", "unvec", "irqdis"}
EnableSteps  == {"unmaskrd", "unmaskwr", "start"}
DisableSteps == {"stop", "clearrd", "clearwr", "maskrd", "maskwr"}

\* The main thread is at a place of its script, and in a function it calls.
PlaceInv ==
    /\ part # "idle" => cur \in Clients
    /\ cur = "slave" => part # "menu"
    /\ IF Acts THEN line \in 1 .. Len(Script) ELSE line = 1 /\ step = "none"
    /\ step \in RequestSteps => Op = "request"
    /\ step \in FreeSteps    => Op = "free"
    /\ step \in EnableSteps  => Op = "enable"
    /\ step \in DisableSteps => Op = "disable"

\* Lock, notifier and container go with the phase; what is locked and not
\* the running test's was left behind by the slave test.
OwnerOK(d) ==
    /\ lock[d] <=> notifier[d] # NULL
    /\ active[d] => lock[d]
    /\ d \in leaked => lock[d] /\ notifier[d] = "slave"
    /\ Phase(d) = "out" =>
         /\ lock[d] <=> d \in leaked
         /\ cdma[d] <=> d \in leaked
         /\ cisr[d] <=> d \in leaked
    /\ Phase(d) = "asking" =>
         /\ lock[d] /\ notifier[d] = cur /\ d \notin leaked /\ ~active[d]
         /\ cdma[d] <=> step # "cdma"
         /\ cisr[d] <=> step \notin {"cdma", "cisr"}
    /\ Phase(d) = "own" =>
         /\ lock[d] /\ cdma[d] /\ cisr[d]
         /\ d \in leaked \/ notifier[d] = cur
    /\ Phase(d) = "freeing" =>
         /\ lock[d] <=> step = "unlock"
         /\ cdma[d] <=> step \in {"unlock", "uncdma"}
         /\ cisr[d] <=> step \in {"unlock", "uncdma", "uncisr"}

OwnerInv == \A d \in Chans : OwnerOK(d)

\* Where the running test knows a channel of its own to be disabled.
Stopped(d) ==
    \/ cur = "self" /\ d = ch
       /\ \/ part = "run" /\ (line \in 2 .. 4 \/ (line = 5 /\ step = "none"))
          \/ part = "leave" /\ line = 2
    \/ cur = "pair" /\ part = "leave" /\ line > AskedAt(d)
    \/ cur = "slave" /\ part = "leave"
    \/ cur = "slave" /\ part = "run" /\ d = 0
       /\ (line \in 2 .. 6 \/ (line = 7 /\ step = "none") \/ line >= 10)
    \/ cur = "slave" /\ part = "run" /\ d = 1
       /\ (line \in 3 .. 9 \/ (line = 10 /\ step = "none") \/ line = 13)

\* A channel may run, or have flags, only while it is active or being
\* disabled.
Live(d) == active[d] \/ (step \in {"stop", "clearrd", "clearwr"}
                         /\ Of = d)

Quiet(d) == con[d] = "off" /\ flags \cap FlagsOf(d) = {}

ActiveInv == \A d \in Chans :
    /\ Stopped(d) => ~active[d]
    /\ ~Live(d) => Quiet(d)
    /\ step \in DisableSteps /\ Of = d =>
         ~active[d] /\ (step # "stop" => con[d] = "off")
    /\ step \in EnableSteps /\ Of = d => active[d] /\ Quiet(d)

\* The shared line: enabled with its handler; between tests it is enabled
\* exactly if both channels have been left behind; it is requested while
\* nothing runs.
LineInv ==
    /\ step \notin {"irqen", "irqdis"} => (vec <=> IECR)
    /\ step = "irqen" => vec
    /\ step = "irqdis" => ~vec
    /\ part = "idle" \/ (part = "enter" /\ line = 1 /\ step = "none") =>
         (IECR <=> \A d \in Chans : lock[d])
    /\ part = "enter" /\ line = 2 /\ step = "none" => IECR \/ ~lock[Second]
    /\ part \in {"menu", "run"} =>
         \/ IECR
         \/ cur = "self" /\ leaked = {ch} /\ \A d \in Chans : lock[d] => d = ch
    /\ IECR /\ part = "enter" =>
         \A d \in Chans :
             (Phase(d) = "out" /\ Mine(d) /\ ~lock[d]) \/ Phase(d) = "asking"
               => \A e \in Chans : ~active[e]

\* The handler runs for a live channel and reads only flags of live ones.
HandlerInv ==
    /\ isr # "none" => IECR /\ vec /\ \E d \in Chans : Live(d)
    /\ isr \in {"reread", "write", "notify"} =>
         istat \subseteq FlagsOf(ich) /\ (istat # {} => Live(ich))

\* After the reset of the flags and until the end of the wait for channel d,
\* whatever reports its end comes from the transfer that has been started.
Expects(d) ==
    /\ part = "run"
    /\ \/ cur = "self" /\ d = ch /\ line \in 5 .. 6
       \/ cur = "slave" /\ d = 0 /\ line \in 4 .. 8
       \/ cur = "slave" /\ d = 1 /\ line \in 4 .. 11

ReportInv == \A d \in Chans : Expects(d) =>
    /\ flag[cur][d] = 1 => con[d] = "done"
    /\ flags \cap FlagsOf(d) # {} => con[d] = "done"
    /\ isr \in {"reread", "write", "notify"} /\ ich = d /\ istat # {} =>
         con[d] = "done"

\* The end of a transfer that is waited for is reported, or will be.
ModeInv ==
    cur = "slave" /\ part = "run" =>
        /\ line >= 6 => mode[0] = "slice"
        /\ line >= 7 => mode[1] = "slice"

Reported(d) ==
    \/ flag[cur][d] = 1
    \/ <<d, Watched(cur)>> \in flags
    \/ isr \in {"reread", "write", "notify"} /\ ich = d
       /\ <<d, Watched(cur)>> \in istat

Awaits(d) ==
    /\ part = "run" /\ step = "none"
    /\ \/ cur = "self" /\ d = ch /\ line = 6
       \/ cur = "slave" /\ d = 0 /\ line = 8
       \/ cur = "slave" /\ d = 1 /\ line = 11

WaitInv == \A d \in Chans : leaked = {} /\ Awaits(d) =>
    /\ con[d] = "done" => Reported(d)
    /\ isr # "none" => con[d] = "done"
    /\ isr = "write" /\ <<d, Watched(cur)>> \in flags =>
         <<d, Watched(cur)>> \in itmp

\* An active channel is not masked, once it has been enabled.
MaskInv == \A d \in Chans :
    d \in mask => ~active[d] \/ (step \in {"unmaskrd", "unmaskwr"} /\ Of = d)

\* Something reports the end of a transfer of channel d to the running test.
Told(d) ==
    \/ flag[cur][d] = 1
    \/ flags \cap FlagsOf(d) # {}
    \/ isr \in {"reread", "write", "notify"} /\ ich = d /\ istat # {}

\* The receive channel of the loop-back tests until a wait of the visit gives
\* up: it runs only from its enable to the end of the wait, and from the reset
\* of the flag on whatever reports its end comes from that transfer.
PairInv ==
    cur = "pair" /\ ~expired /\ Rx \notin leaked =>
        /\ part = "enter" => ~active[Rx]
        /\ part = "menu" => con[Rx] # "run"
        /\ part = "run" /\ line <= 8 => con[Rx] # "run"
        /\ part = "run" /\ line \in 2 .. 8 => ~Told(Rx)
        /\ part = "run" /\ line = 9 /\ Told(Rx) => con[Rx] = "done"

IInv == /\ TypeOK /\ PlaceInv /\ OwnerInv /\ ActiveInv /\ LineInv
        /\ HandlerInv /\ ReportInv /\ ModeInv /\ WaitInv

(***************************************************************************)
(* The scripts                                                             *)
(***************************************************************************)
Size ==
    IF part = "enter" THEN IF cur = "self" THEN 1 ELSE 2
    ELSE IF part = "leave" THEN IF cur = "pair" THEN 4 ELSE 2
    ELSE IF cur = "self" THEN 6 ELSE IF cur = "pair" THEN 9 ELSE 13

LEMMA SizeIs == Acts /\ cur \in Tests => Len(Script) = Size
BY DEF Script, Acts, Size, Tests, Enter, Run, Leave, RunSelf, RunPair, RunSlave

\* Which calls a test makes for which channels, and where.
Where ==
    /\ part = "enter" <=> Op = "request"
    /\ part = "enter" => Mine(Of) /\ line = AskedAt(Of)
    /\ Op = "free" => part = "leave" /\ Mine(Of) /\ line = FreedAt(Of)
    /\ Op = "disable" =>
         \/ part = "leave" /\ cur = "self" /\ line = 1 /\ Of = ch
         \/ part = "leave" /\ cur = "pair" /\ line = AskedAt(Of)
         \/ part = "run" /\ cur = "self" /\ line = 1 /\ Of = ch
         \/ part = "run" /\ cur = "pair"
         \/ part = "run" /\ cur = "slave" /\ line \in {1, 9} /\ Of = 0
         \/ part = "run" /\ cur = "slave" /\ line \in {2, 12} /\ Of = 1
    /\ Op \in {"enable", "setup", "fill", "reset", "wait", "sent"} =>
         part = "run"
    /\ Op = "enable" => \/ cur = "self" /\ line = 5 /\ Of = ch
                        \/ cur = "pair"
                        \/ cur = "slave" /\ line = 7 /\ Of = 0
                        \/ cur = "slave" /\ line = 10 /\ Of = 1
    /\ Op = "setup" => \/ cur = "self" /\ line = 2 /\ Of = ch
                       \/ cur = "pair"
                       \/ cur = "slave" /\ line = 5 /\ Of = 0
                       \/ cur = "slave" /\ line = 6 /\ Of = 1
    /\ Op = "fill" => \/ cur = "self" /\ line = 3 /\ Of = ch
                      \/ cur = "pair"
                      \/ cur = "slave" /\ line = 4 /\ Of = 0
    /\ Op = "reset" => \/ cur = "self" /\ line = 4
                       \/ cur = "pair"
                       \/ cur = "slave" /\ line = 3
    /\ Op = "wait" => \/ cur = "self" /\ line = 6 /\ Of = ch
                      \/ cur = "pair" /\ line = 9 /\ Of = Rx
                      \/ cur = "slave" /\ line = 8 /\ Of = 0
                      \/ cur = "slave" /\ line = 11 /\ Of = 1
    /\ Op = "sent" => cur = "slave" /\ line = 13

LEMMA WhereIs ==
    ASSUME Acts, cur \in Tests, ch \in Chans, line \in 1 .. Len(Script)
    PROVE  Op \in {"request", "disable", "free", "enable", "setup", "fill",
                   "reset", "wait", "sent"} /\ Of \in Chans /\ Where
<1> USE HdmaAssumption DEF HdmaAssumption, Chans
<1>0. line \in 1 .. Size
    BY SizeIs
<1>1. CASE part = "enter"
  <2>1. /\ Op = "request"
        /\ Of = IF cur = "self" THEN ch ELSE IF line = 1 THEN First ELSE Second
    BY <1>0, <1>1 DEF Op, Of, Script, Enter, Tests, First, Second
  <2>2. QED
    BY <1>0, <1>1, <2>1 DEF Where, Mine, AskedAt, First, Second, Size, Tests
<1>2. CASE part = "leave"
  <2>1. CASE cur = "self"
    <3>1. /\ Of = ch
          /\ Op = IF line = 1 THEN "disable" ELSE "free"
      BY <1>0, <1>2, <2>1 DEF Op, Of, Script, Leave, Size
    <3>2. QED
      BY <1>0, <1>2, <2>1, <3>1 DEF Where, Mine, FreedAt, Size
  <2>2. CASE cur = "pair"
    <3>1. /\ Of = IF line \in {1, 3} THEN Tx ELSE Rx
          /\ Op = IF line \in 1 .. 2 THEN "disable" ELSE "free"
      BY <1>0, <1>2, <2>2 DEF Op, Of, Script, Leave, Size
    <3>2. QED
      BY <1>0, <1>2, <2>2, <3>1
         DEF Where, Mine, FreedAt, AskedAt, First, Size
  <2>3. CASE cur = "slave"
    <3>1. Of = line - 1 /\ Op = "free"
      BY <1>0, <1>2, <2>3 DEF Op, Of, Script, Leave, Size
    <3>2. QED
      BY <1>0, <1>2, <2>3, <3>1
         DEF Where, Mine, FreedAt, AskedAt, First, Size
  <2>4. QED
    BY <2>1, <2>2, <2>3 DEF Tests
<1>3. CASE part = "run"
  <2>1. CASE cur = "self"
    <3>1. /\ Of = ch
          /\ line = 1 => Op = "disable"
          /\ line = 2 => Op = "setup"
          /\ line = 3 => Op = "fill"
          /\ line = 4 => Op = "reset"
          /\ line = 5 => Op = "enable"
          /\ line = 6 => Op = "wait"
      BY <1>0, <1>3, <2>1 DEF Op, Of, Script, Run, RunSelf, Size
    <3>2. QED
      BY <1>0, <1>3, <2>1, <3>1 DEF Where, Size
  <2>2. CASE cur = "pair"
    <3>1. /\ line \in {3, 4, 7} => Of = Tx
          /\ line \in {1, 2, 5, 6, 8, 9} => Of = Rx
          /\ line = 1 => Op = "reset"
          /\ line = 2 => Op = "fill"
          /\ line \in {3, 5} => Op = "disable"
          /\ line \in {4, 6} => Op = "setup"
          /\ line \in {7, 8} => Op = "enable"
          /\ line = 9 => Op = "wait"
      BY <1>0, <1>3, <2>2 DEF Op, Of, Script, Run, RunPair, Size
    <3>2. QED
      BY <1>0, <1>3, <2>2, <3>1 DEF Where, Size
  <2>3. CASE cur = "slave"
    <3>1. /\ line \in {1, 3, 4, 5, 7, 8, 9} => Of = 0
          /\ line \in {2, 6, 10, 11, 12, 13} => Of = 1
          /\ line \in {1, 2, 9, 12} => Op = "disable"
          /\ line = 3 => Op = "reset"
          /\ line = 4 => Op = "fill"
          /\ line \in {5, 6} => Op = "setup"
          /\ line \in {7, 10} => Op = "enable"
          /\ line \in {8, 11} => Op = "wait"
          /\ line = 13 => Op = "sent"
      BY <1>0, <1>3, <2>3 DEF Op, Of, Script, Run, RunSlave, Size
    <3>2. QED
      BY <1>0, <1>3, <2>3, <3>1 DEF Where, Size
  <2>4. QED
    BY <2>1, <2>2, <2>3 DEF Tests
<1>4. QED
    BY <1>1, <1>2, <1>3 DEF Acts

\* What holds at every place of a script.
LEMMA WhereNow ==
    ASSUME IInv, Acts
    PROVE  /\ Where
           /\ Op \in {"request", "disable", "free", "enable", "setup", "fill",
                     "reset", "wait", "sent"}
           /\ cur \in Tests /\ cur \in Clients /\ cur # NULL
           /\ Chans = {0, 1} /\ Tx \in Chans /\ Rx \in Chans /\ Tx # Rx
BY WhereIs, HdmaAssumption
   DEF IInv, TypeOK, PlaceInv, HdmaAssumption, Acts, Chans, Tests, NULL

\* The next place of the script.
NextPlace ==
    IF line < Size THEN part' = part /\ line' = line + 1
    ELSE /\ line' = 1
         /\ part' = IF part = "leave" THEN "idle"
                    ELSE IF cur # "slave" THEN "menu"
                    ELSE IF part = "enter" THEN "run" ELSE "leave"

LEMMA GoesOn ==
    ASSUME IInv, Acts, Go("none"), cur' = cur, ch' = ch
    PROVE  PlaceInv' /\ step' = "none" /\ NextPlace /\ line' \in 1 .. 13
<1>1. cur \in Tests /\ cur' \in Tests /\ line \in 1 .. Size /\ line \in Nat
    BY SizeIs, HdmaAssumption DEF IInv, TypeOK, PlaceInv, Acts, HdmaAssumption
<1>2. step' = "none" /\ NextPlace
    BY <1>1, SizeIs DEF Go, NextPlace, NextPart, Acts
<1>3. line' \in 1 .. 13
    BY <1>1, <1>2 DEF NextPlace, Size
<1>4. (Acts /\ cur \in Tests => Len(Script) = Size)'
    BY SizeIs, PTL
<1>5. Acts' => line' \in 1 .. Size'
    BY <1>1, <1>2 DEF NextPlace, Acts, Size, Tests
<1>6. PlaceInv'
    BY <1>1, <1>2, <1>4, <1>5
     DEF IInv, PlaceInv, NextPlace, Acts, RequestSteps, FreeSteps, EnableSteps,
         DisableSteps
<1>7. QED
    BY <1>2, <1>3, <1>6

\* Another step of the same call.
LEMMA StaysInCall ==
    ASSUME IInv, Acts, NEW s \in Steps, s # "none", Go(s), cur' = cur, ch' = ch
    PROVE  /\ step' = s /\ part' = part /\ line' = line
           /\ Op' = Op /\ Of' = Of /\ Len(Script') = Len(Script)
BY DEF Go, Op, Of, Script

(***************************************************************************)
(* Flags                                                                   *)
(***************************************************************************)
LEMMA FlagFacts ==
    /\ \A d \in Chans : /\ FlagsOf(d) = {<<d, "complete">>, <<d, "page">>}
                       /\ FlagsOf(d) \subseteq AllFlags
                       /\ \A cl : <<d, Watched(cl)>> \in FlagsOf(d)
    /\ \A f \in AllFlags : f[1] \in Chans /\ f \in FlagsOf(f[1])
    /\ \A c, d \in Chans : c # d => FlagsOf(c) \cap FlagsOf(d) = {}
BY DEF FlagsOf, AllFlags, Kinds, Watched

\* A raised flag is that of a channel that is live.
LEMMA FlagOfLive ==
    ASSUME IInv, flags # {}
    PROVE  \E d \in Chans : flags \cap FlagsOf(d) # {} /\ Live(d)
<1>1. PICK f \in flags : TRUE
  OBVIOUS
<1>2. f[1] \in Chans /\ f \in FlagsOf(f[1])
    BY <1>1, FlagFacts DEF IInv, TypeOK
<1>3. QED
    BY <1>1, <1>2 DEF IInv, ActiveInv, Quiet

\* Without channels left behind, the channel waited for is the only one that
\* is live, and every flag tells of its end.
LEMMA WaitsAlone ==
    ASSUME IInv, leaked = {}, NEW d \in Chans, Awaits(d)
    PROVE  /\ \A e \in Chans \ {d} : ~Live(e)
           /\ Phase(d) = "own" /\ notifier[d] = cur
           /\ cur \in {"self", "slave"} /\ cur \in Clients
           /\ flags # {} => con[d] = "done"
           /\ flags \subseteq FlagsOf(d)
<1>1. ASSUME NEW e \in Chans \ {d} PROVE ~Live(e)
    BY <1>1
       DEF IInv, OwnerInv, OwnerOK, ActiveInv, Awaits, Phase, Mine, Stopped,
           Live,
     Chans
<1>2. /\ Phase(d) = "own" /\ cur \in {"self", "slave"} /\ cur \in Clients
      /\ Expects(d)
    BY DEF Awaits, Phase, Mine, IInv, PlaceInv, Expects
<1>3. notifier[d] = cur
    BY <1>2 DEF IInv, OwnerInv, OwnerOK
<1>4. \A e \in Chans : flags \cap FlagsOf(e) # {} => e = d
    BY <1>1 DEF IInv, ActiveInv, Quiet
<1>5. flags # {} => flags \cap FlagsOf(d) # {}
    BY <1>4, FlagOfLive
<1>6. flags # {} => con[d] = "done"
    BY <1>2, <1>5 DEF IInv, ReportInv
<1>7. ASSUME NEW f \in flags PROVE f \in FlagsOf(d)
  <2>1. f[1] \in Chans /\ f \in FlagsOf(f[1])
    BY FlagFacts DEF IInv, TypeOK
  <2>2. f[1] = d
    BY <2>1, <1>4
  <2>3. QED
    BY <2>1, <2>2
<1>8. QED
    BY <1>1, <1>2, <1>3, <1>6, <1>7

(***************************************************************************)
(* The steps                                                               *)
(*                                                                         *)
(* One lemma per action and case of its guard.  In each, <1>a says what    *)
(* the action does, <1>w where the main thread is, <1>g where it goes,     *)
(* <1>p what this makes of the phases of the channels; then follows one    *)
(* step for each part of the invariant.                                    *)
(***************************************************************************)

\* A test begins.
LEMMA BeginStep ==
    ASSUME IInv, NEW cl \in Clients, NEW c \in Chans, Begin(cl, c)
    PROVE  IInv'
<1>a. /\ isr = "none" /\ ~Pending
      /\ part = "idle" /\ part' = "enter" /\ line' = 1 /\ step' = "none"
      /\ cur' = cl /\ ch' = c
      /\ UNCHANGED <<lock, active, notifier, mode, cdma, cisr, vec, IECR, con,
                    flags, mask, tmp, isr, ich, istat, itmp, flag, t, leaked>>
      /\ expired' = FALSE
    BY DEF Begin, Main, Call, Do, At, In, chan, shared, hw, irqcx, place,
           client
<1>i. step = "none"
    BY <1>a DEF IInv, PlaceInv, Acts
<1>1. TypeOK'
  <2>1. part' \in Parts
    BY <1>a DEF Parts
  <2>2. line' \in 1 .. 13
    BY <1>a
  <2>3. step' \in Steps
    BY <1>a DEF Steps
  <2>4. cur' \in Clients \cup {NULL}
    BY <1>a
  <2>5. ch' \in Chans
    BY <1>a
  <2>6. QED
    BY <1>a, <2>1, <2>2, <2>3, <2>4, <2>5 DEF IInv, TypeOK
<1>2. PlaceInv'
  <2>1. (Acts /\ cur \in Tests => Len(Script) = Size)'
    BY SizeIs, PTL
  <2>2. /\ cur' \in Clients /\ cur' \in Tests
        /\ part' = "menu" => cur' # "slave"
    BY <1>a, HdmaAssumption DEF IInv, TypeOK, PlaceInv, HdmaAssumption
  <2>3. 1 \in 1 .. Size'
    BY DEF Size
  <2>4. QED
    BY <1>a, <2>1, <2>2, <2>3 DEF PlaceInv, Acts, RequestSteps, FreeSteps,
       EnableSteps, DisableSteps
<1>3. OwnerInv'
    BY <1>a DEF IInv, OwnerInv, OwnerOK, Phase, Mine, AskedAt, FreedAt, First
<1>4. ActiveInv'
  <2>1. \A d \in Chans : ~Stopped(d)'
    BY <1>a DEF Stopped
  <2>2. QED
    BY <1>a, <1>i, <2>1
       DEF IInv, ActiveInv, Live, Quiet, DisableSteps, EnableSteps
<1>5. LineInv'
  <2>1. IECR <=> \A d \in Chans : lock[d]
    BY <1>a DEF IInv, LineInv
  <2>2. \A d \in Chans : Phase(d)' # "asking"
    BY <1>a DEF Phase
  <2>3. (IECR <=> \A d \in Chans : lock[d])'
    BY <1>a, <2>1
  <2>4. (vec <=> IECR)' /\ line' = 1 /\ step' = "none" /\ part' = "enter"
    BY <1>a, <1>i DEF IInv, LineInv
  <2>5. QED
    BY <2>2, <2>3, <2>4 DEF LineInv
<1>6. HandlerInv'
    BY <1>a DEF IInv, HandlerInv, Live, Of
<1>7. ReportInv'
    BY <1>a DEF IInv, ReportInv, Expects
<1>8. ModeInv'
    BY <1>a DEF IInv, ModeInv
<1>9. WaitInv'
    BY <1>a DEF WaitInv, Awaits
<1>10. QED
    BY <1>1, <1>2, <1>3, <1>4, <1>5, <1>6, <1>7, <1>8, <1>9 DEF IInv

\* The user runs the test, or leaves it.
LEMMA MenuStep ==
    ASSUME IInv, Menu
    PROVE  IInv'
<1>a. /\ isr = "none" /\ ~Pending
      /\ part = "menu" /\ line' = 1 /\ step' = "none"
      /\ part' \in {"run", "leave"}
      /\ UNCHANGED <<lock, active, notifier, mode, cdma, cisr, vec, IECR, con,
                    flags, mask, tmp, isr, ich, istat, itmp, flag, cur, ch, t,
                    leaked, expired>>
    BY DEF Menu, Main, Call, Do, At, In, chan, shared, hw, irqcx, place, client
<1>i. step = "none"
    BY <1>a DEF IInv, PlaceInv, Acts
<1>1. TypeOK'
  <2>1. part' \in Parts
    BY <1>a DEF Parts
  <2>2. line' \in 1 .. 13
    BY <1>a
  <2>3. step' \in Steps
    BY <1>a DEF Steps
  <2>4. QED
    BY <1>a, <2>1, <2>2, <2>3 DEF IInv, TypeOK
<1>2. PlaceInv'
  <2>1. (Acts /\ cur \in Tests => Len(Script) = Size)'
    BY SizeIs, PTL
  <2>2. /\ cur' \in Clients /\ cur' \in Tests
        /\ part' = "menu" => cur' # "slave"
    BY <1>a, HdmaAssumption DEF IInv, TypeOK, PlaceInv, HdmaAssumption
  <2>3. 1 \in 1 .. Size'
    BY DEF Size
  <2>4. QED
    BY <1>a, <2>1, <2>2, <2>3 DEF PlaceInv, Acts, RequestSteps, FreeSteps,
       EnableSteps, DisableSteps
<1>3. OwnerInv'
    BY <1>a DEF IInv, OwnerInv, OwnerOK, Phase, Mine, AskedAt, FreedAt, First
<1>4. ActiveInv'
  <2>1. \A d \in Chans : ~Stopped(d)'
    BY <1>a DEF IInv, PlaceInv, Stopped, AskedAt, First
  <2>2. QED
    BY <1>a, <1>i, <2>1
       DEF IInv, ActiveInv, Live, Quiet, DisableSteps, EnableSteps
<1>5. LineInv'
    BY <1>a, <1>i DEF IInv, LineInv
<1>6. HandlerInv'
    BY <1>a DEF IInv, HandlerInv, Live, Of
<1>7. ReportInv'
    BY <1>a DEF IInv, ReportInv, Expects
<1>8. ModeInv'
    BY <1>a DEF IInv, ModeInv
<1>9. WaitInv'
    BY <1>a DEF WaitInv, Awaits
<1>10. QED
    BY <1>1, <1>2, <1>3, <1>4, <1>5, <1>6, <1>7, <1>8, <1>9 DEF IInv

\* sq_request_dma finds a channel locked.
LEMMA RequestBusyStep ==
    ASSUME IInv, NEW c \in Chans, sq_request_dma(c), lock[c]
    PROVE  IInv'
<1>e. lock[c] = TRUE /\ active[c] \in BOOLEAN
    BY DEF IInv, TypeOK
<1>a. /\ isr = "none" /\ ~Pending
      /\ Acts /\ step = "none" /\ Op = "request" /\ Of = c
      /\ Go("none")
      /\ UNCHANGED <<lock, active, notifier, mode, cdma, cisr, vec, IECR, con,
                    flags, mask, tmp, isr, ich, istat, itmp, flag, cur, ch, t,
                    leaked, expired>>
    BY <1>e
       DEF sq_request_dma, Main, Call, Do, At, In, chan, shared, hw, irqcx,
           place, client, Acts, Op, Of, TypeOK, IInv
<1>w. /\ c \in Chans /\ Where
      /\ Op \in {"request", "disable", "free", "enable", "setup", "fill",
               "reset", "wait", "sent"}
      /\ cur \in Tests /\ cur \in Clients /\ cur # NULL
      /\ Chans = {0, 1} /\ Tx \in Chans /\ Rx \in Chans /\ Tx # Rx
    BY <1>a, WhereNow
<1>g. /\ step' = "none" /\ NextPlace /\ line' \in 1 .. 13 /\ PlaceInv'
    BY <1>a, GoesOn
<1>p. /\ Phase(c) = "out" /\ Phase(c)' = "own"
      /\ \A d \in Chans \ {c} :
           Phase(d)' = Phase(d) /\ Phase(d) \in {"out", "own"}
    BY <1>a, <1>w, <1>g
       DEF Where, Acts, Phase, Mine, AskedAt, FreedAt, First, NextPlace, Size
<1>n. part' = "run" => line' = 1
    BY <1>w, <1>g, <1>a DEF Where, NextPlace
<1>1. TypeOK'
  <2>1. part' \in Parts
    BY <1>g, <1>w DEF IInv, TypeOK, NextPlace, Parts
  <2>2. line' \in 1 .. 13
    BY <1>g
  <2>3. step' \in Steps
    BY <1>g DEF Steps
  <2>4. QED
    BY <1>a, <2>1, <2>2, <2>3 DEF IInv, TypeOK
<1>2. PlaceInv'
    BY <1>g
<1>3. OwnerInv'
    BY <1>a, <1>p DEF IInv, OwnerInv, OwnerOK
<1>4. ActiveInv'
    BY <1>a, <1>w, <1>g
       DEF IInv, TypeOK, ActiveInv, Stopped, Live, Quiet, Where, NextPlace,
           Size, Acts, RequestSteps, FreeSteps, EnableSteps, DisableSteps
<1>5. LineInv'
  <2>1. vec <=> IECR
    BY <1>a DEF IInv, LineInv
  <2>2. part = "enter" /\ line = AskedAt(c) /\ Mine(c) /\ lock[c]
    BY <1>a, <1>w DEF Where
  <2>3. CASE line = 1
    <3>1. IECR <=> \A d \in Chans : lock[d]
      BY <1>a, <2>2, <2>3 DEF IInv, LineInv
    <3>2. CASE cur = "self"
      <4>1. part' = "menu" /\ c = ch
        BY <1>g, <2>2, <2>3, <3>2 DEF NextPlace, Size, Mine
      <4>2. \A d \in Chans : Phase(d) = "out"
        BY <1>a, <1>p, <1>w, <2>2, <2>3, <3>2 DEF Phase, Mine, AskedAt
      <4>3. \A d \in Chans : lock[d] <=> d \in leaked
        BY <4>2 DEF IInv, OwnerInv, OwnerOK
      <4>4. ~IECR => leaked = {ch} /\ \A d \in Chans : lock[d] => d = ch
        <5> SUFFICES ASSUME ~IECR
                     PROVE  leaked = {ch} /\ \A d \in Chans : lock[d] => d = ch
          OBVIOUS
        <5>1. PICK e \in Chans : ~lock[e]
          BY <3>1
        <5>2. e # ch /\ \A d \in Chans : d # ch => d = e
          BY <1>w, <2>2, <4>1, <5>1
        <5>3. \A d \in Chans : lock[d] => d = ch
          BY <5>1, <5>2
        <5>4. \A d \in Chans : d \in leaked <=> d = ch
          BY <2>2, <4>1, <4>3, <5>3
        <5>5. leaked \subseteq Chans /\ ch \in Chans
          BY DEF IInv, TypeOK
        <5>6. QED
          BY <5>3, <5>4, <5>5
      <4>5. QED
        BY <1>a, <1>g, <2>1, <3>2, <4>1, <4>4 DEF LineInv
    <3>3. CASE cur # "self"
      <4>1. part' = "enter" /\ line' = 2
        BY <1>g, <2>2, <2>3, <3>3 DEF NextPlace, Size
      <4>2. c = First /\ {First, Second} = Chans
        BY <1>w, <2>2, <2>3, <3>3 DEF AskedAt, First, Second
      <4>3. IECR \/ ~lock[Second]
        BY <1>w, <2>2, <3>1, <4>2
      <4>4. Second' = Second
        BY <1>a DEF Second
      <4>5. \A d \in Chans : Phase(d)' # "asking"
        BY <1>g, <4>1 DEF Phase
      <4>6. QED
        BY <1>a, <1>g, <2>1, <3>1, <4>1, <4>3, <4>4, <4>5 DEF LineInv
    <3>4. QED
      BY <3>2, <3>3
  <2>4. CASE line # 1
    <3>1. cur # "self" /\ line = 2 /\ c = Second /\ part' \in {"menu", "run"}
      BY <1>g, <1>w, <2>2, <2>4
         DEF NextPlace, Size, AskedAt, First, Second
    <3>2. IECR
      BY <1>a, <2>2, <3>1 DEF IInv, LineInv
    <3>3. QED
      BY <1>a, <1>g, <2>1, <3>1, <3>2 DEF LineInv
  <2>5. QED
    BY <2>3, <2>4
<1>6. HandlerInv'
    BY <1>a DEF IInv, HandlerInv, Live, Of
<1>7. ReportInv'
    BY <1>a, <1>n DEF IInv, ReportInv, Expects
<1>8. ModeInv'
    BY <1>a, <1>n DEF IInv, ModeInv
<1>9. WaitInv'
    BY <1>a, <1>n DEF IInv, WaitInv, Awaits, Reported
<1>10. QED
    BY <1>1, <1>2, <1>3, <1>4, <1>5, <1>6, <1>7, <1>8, <1>9 DEF IInv

\* sq_request_dma takes the lock.
LEMMA RequestStep ==
    ASSUME IInv, NEW c \in Chans, sq_request_dma(c), ~lock[c]
    PROVE  IInv'
<1>e. lock[c] = FALSE
    BY DEF IInv, TypeOK
<1>a. /\ isr = "none" /\ ~Pending
      /\ Acts /\ step = "none" /\ Op = "request" /\ Of = c
      /\ ~lock[c] /\ lock' = [lock EXCEPT ![c] = TRUE]
      /\ active' = [active EXCEPT ![c] = FALSE]
      /\ notifier' = [notifier EXCEPT ![c] = cur]
      /\ Go("cdma")
      /\ UNCHANGED <<mode, cdma, cisr, vec, IECR, con, flags, mask, tmp, isr,
                    ich, istat, itmp, flag, cur, ch, t, leaked, expired>>
  <2>1. (lock[c] /\ active[c]) = FALSE
    BY <1>e
  <2>2. /\ lock' = [lock EXCEPT ![c] = TRUE]
        /\ active' = [active EXCEPT ![c] = FALSE]
    BY <2>1 DEF sq_request_dma
  <2>3. notifier' = [notifier EXCEPT ![c] = cur]
    BY <1>e DEF sq_request_dma
  <2>4. Call("request", c, "cdma")
    BY <1>e DEF sq_request_dma
  <2>5. UNCHANGED <<mode, shared, hw, tmp, client>>
    BY DEF sq_request_dma
  <2>6. QED
    BY <1>e, <2>2, <2>3, <2>4, <2>5
       DEF Main, Call, At, chan, shared, hw, irqcx, client, Acts, Op, Of
<1>w. /\ c \in Chans /\ Where
      /\ Op \in {"request", "disable", "free", "enable", "setup", "fill",
               "reset", "wait", "sent"}
      /\ cur \in Tests /\ cur \in Clients /\ cur # NULL
      /\ Chans = {0, 1} /\ Tx \in Chans /\ Rx \in Chans /\ Tx # Rx
    BY <1>a, WhereNow
<1>g. /\ step' = "cdma" /\ part' = part /\ line' = line
      /\ Op' = Op /\ Of' = Of /\ Len(Script') = Len(Script)
    BY <1>a, StaysInCall DEF Steps
<1>p. /\ Phase(c) = "out" /\ Phase(c)' = "asking"
      /\ \A d \in Chans \ {c} :
           Phase(d)' = Phase(d) /\ Phase(d) \in {"out", "own"}
    BY <1>a, <1>w, <1>g DEF Where, Phase, Mine, AskedAt, FreedAt, First
<1>1. TypeOK'
  <2>1. lock' \in [Chans -> BOOLEAN]
    BY <1>a DEF IInv, TypeOK
  <2>2. active' \in [Chans -> BOOLEAN]
    BY <1>a DEF IInv, TypeOK
  <2>3. notifier' \in [Chans -> Clients \cup {NULL}]
    BY <1>a DEF IInv, TypeOK
  <2>4. part' \in Parts
    BY <1>g DEF IInv, TypeOK
  <2>5. line' \in 1 .. 13
    BY <1>g DEF IInv, TypeOK
  <2>6. step' \in Steps
    BY <1>g DEF Steps
  <2>7. QED
    BY <1>a, <2>1, <2>2, <2>3, <2>4, <2>5, <2>6 DEF IInv, TypeOK
<1>2. PlaceInv'
    BY <1>a, <1>w, <1>g
       DEF IInv, PlaceInv, Acts, RequestSteps, FreeSteps, EnableSteps,
           DisableSteps
<1>3. OwnerInv'
    BY <1>a, <1>w, <1>g, <1>p
       DEF IInv, TypeOK, OwnerInv, OwnerOK, Mine, AskedAt, FreedAt, First
<1>4. ActiveInv'
    BY <1>a, <1>g
       DEF IInv, TypeOK, ActiveInv, OwnerInv, OwnerOK, Stopped, Live, Quiet,
           Where, NextPlace, Size, Acts, AskedAt, First, RequestSteps,
           FreeSteps, EnableSteps, DisableSteps
<1>5. LineInv'
    BY <1>a, <1>g, <1>p DEF IInv, LineInv, Phase, Mine, AskedAt, FreedAt, First
<1>6. HandlerInv'
    BY <1>a DEF IInv, HandlerInv, Live, Of
<1>7. ReportInv'
    BY <1>a, <1>w, <1>g DEF IInv, ReportInv, Expects
<1>8. ModeInv'
    BY <1>a, <1>w, <1>g DEF IInv, ModeInv
<1>9. WaitInv'
    BY <1>g DEF IInv, WaitInv, Awaits, Reported
<1>10. QED
    BY <1>1, <1>2, <1>3, <1>4, <1>5, <1>6, <1>7, <1>8, <1>9 DEF IInv

\* panther7_hdma_request_irq, step by step.
LEMMA SetDmaStep ==
    ASSUME IInv, NEW c \in Chans, panther7_hdma_request_irq(c), step = "cdma"
    PROVE  IInv'
<1>a. /\ isr = "none" /\ ~Pending
      /\ Acts /\ step = "cdma" /\ Of = c
      /\ cdma' = [cdma EXCEPT ![c] = TRUE]
      /\ Go("cisr")
      /\ UNCHANGED <<lock, active, notifier, mode, cisr, vec, IECR, con, flags,
                    mask, tmp, isr, ich, istat, itmp, flag, cur, ch, t,
                    leaked, expired>>
    BY DEF panther7_hdma_request_irq, Main, Call, Do, At, In, chan, shared, hw,
           irqcx, place, client, Acts, Of
<1>w. /\ c \in Chans /\ Where
      /\ Op \in {"request", "disable", "free", "enable", "setup", "fill",
               "reset", "wait", "sent"}
      /\ cur \in Tests /\ cur \in Clients /\ cur # NULL
      /\ Chans = {0, 1} /\ Tx \in Chans /\ Rx \in Chans /\ Tx # Rx
    BY <1>a, WhereNow
<1>o. Op = "request"
    BY <1>a
       DEF IInv, PlaceInv, RequestSteps, FreeSteps, EnableSteps, DisableSteps
<1>g. /\ step' = "cisr" /\ part' = part /\ line' = line
      /\ Op' = Op /\ Of' = Of /\ Len(Script') = Len(Script)
    BY <1>a, StaysInCall DEF Steps
<1>p. /\ Phase(c) = "asking" /\ Phase(c)' = "asking"
      /\ \A d \in Chans \ {c} :
           Phase(d)' = Phase(d) /\ Phase(d) \in {"out", "own"}
    BY <1>a, <1>w, <1>g, <1>o DEF Where, Phase, Mine, AskedAt, FreedAt, First
<1>1. TypeOK'
  <2>1. cdma' \in [Chans -> BOOLEAN]
    BY <1>a DEF IInv, TypeOK
  <2>2. part' \in Parts
    BY <1>g DEF IInv, TypeOK
  <2>3. line' \in 1 .. 13
    BY <1>g DEF IInv, TypeOK
  <2>4. step' \in Steps
    BY <1>g DEF Steps
  <2>5. QED
    BY <1>a, <2>1, <2>2, <2>3, <2>4 DEF IInv, TypeOK
<1>2. PlaceInv'
    BY <1>a, <1>g
       DEF IInv, PlaceInv, Acts, RequestSteps, FreeSteps, EnableSteps,
           DisableSteps
<1>3. OwnerInv'
    BY <1>a, <1>g, <1>p
       DEF IInv, TypeOK, OwnerInv, OwnerOK, Mine, AskedAt, FreedAt, First
<1>4. ActiveInv'
    BY <1>a, <1>g
       DEF IInv, ActiveInv, Stopped, Live, Quiet, AskedAt, First, RequestSteps,
           FreeSteps, EnableSteps, DisableSteps
<1>5. LineInv'
    BY <1>a, <1>g DEF IInv, LineInv, Phase, Mine, AskedAt, FreedAt, First
<1>6. HandlerInv'
    BY <1>a DEF IInv, HandlerInv, Live, Of
<1>7. ReportInv'
    BY <1>a, <1>g DEF IInv, ReportInv, Expects
<1>8. ModeInv'
    BY <1>a, <1>g DEF IInv, ModeInv
<1>9. WaitInv'
    BY <1>g DEF IInv, WaitInv, Awaits, Reported
<1>10. QED
    BY <1>1, <1>2, <1>3, <1>4, <1>5, <1>6, <1>7, <1>8, <1>9 DEF IInv

\* panther7_hdma_request_irq, step by step.
LEMMA SetIsrStep ==
    ASSUME IInv, NEW c \in Chans, panther7_hdma_request_irq(c), step = "cisr"
    PROVE  IInv'
<1>a. /\ isr = "none" /\ ~Pending
      /\ Acts /\ step = "cisr" /\ Of = c
      /\ cisr' = [cisr EXCEPT ![c] = TRUE]
      /\ Go("vec")
      /\ UNCHANGED <<lock, active, notifier, mode, cdma, vec, IECR, con, flags,
                    mask, tmp, isr, ich, istat, itmp, flag, cur, ch, t,
                    leaked, expired>>
    BY DEF panther7_hdma_request_irq, Main, Call, Do, At, In, chan, shared, hw,
           irqcx, place, client, Acts, Of
<1>w. /\ c \in Chans /\ Where
      /\ Op \in {"request", "disable", "free", "enable", "setup", "fill",
               "reset", "wait", "sent"}
      /\ cur \in Tests /\ cur \in Clients /\ cur # NULL
      /\ Chans = {0, 1} /\ Tx \in Chans /\ Rx \in Chans /\ Tx # Rx
    BY <1>a, WhereNow
<1>o. Op = "request"
    BY <1>a
       DEF IInv, PlaceInv, RequestSteps, FreeSteps, EnableSteps, DisableSteps
<1>g. /\ step' = "vec" /\ part' = part /\ line' = line
      /\ Op' = Op /\ Of' = Of /\ Len(Script') = Len(Script)
    BY <1>a, StaysInCall DEF Steps
<1>p. /\ Phase(c) = "asking" /\ Phase(c)' = "asking"
      /\ \A d \in Chans \ {c} :
           Phase(d)' = Phase(d) /\ Phase(d) \in {"out", "own"}
    BY <1>a, <1>w, <1>g, <1>o DEF Where, Phase, Mine, AskedAt, FreedAt, First
<1>1. TypeOK'
  <2>1. cisr' \in [Chans -> BOOLEAN]
    BY <1>a DEF IInv, TypeOK
  <2>2. part' \in Parts
    BY <1>g DEF IInv, TypeOK
  <2>3. line' \in 1 .. 13
    BY <1>g DEF IInv, TypeOK
  <2>4. step' \in Steps
    BY <1>g DEF Steps
  <2>5. QED
    BY <1>a, <2>1, <2>2, <2>3, <2>4 DEF IInv, TypeOK
<1>2. PlaceInv'
    BY <1>a, <1>g
       DEF IInv, PlaceInv, Acts, RequestSteps, FreeSteps, EnableSteps,
           DisableSteps
<1>3. OwnerInv'
    BY <1>a, <1>g, <1>p
       DEF IInv, TypeOK, OwnerInv, OwnerOK, Mine, AskedAt, FreedAt, First
<1>4. ActiveInv'
    BY <1>a, <1>g
       DEF IInv, ActiveInv, Stopped, Live, Quiet, AskedAt, First, RequestSteps,
           FreeSteps, EnableSteps, DisableSteps
<1>5. LineInv'
    BY <1>a, <1>g DEF IInv, LineInv, Phase, Mine, AskedAt, FreedAt, First
<1>6. HandlerInv'
    BY <1>a DEF IInv, HandlerInv, Live, Of
<1>7. ReportInv'
    BY <1>a, <1>g DEF IInv, ReportInv, Expects
<1>8. ModeInv'
    BY <1>a, <1>g DEF IInv, ModeInv
<1>9. WaitInv'
    BY <1>g DEF IInv, WaitInv, Awaits, Reported
<1>10. QED
    BY <1>1, <1>2, <1>3, <1>4, <1>5, <1>6, <1>7, <1>8, <1>9 DEF IInv

\* panther7_hdma_request_irq, step by step.
LEMMA SetVectorStep ==
    ASSUME IInv, NEW c \in Chans, panther7_hdma_request_irq(c), step = "vec"
    PROVE  IInv'
<1>a. /\ isr = "none" /\ ~Pending
      /\ Acts /\ step = "vec" /\ Of = c
      /\ vec' = TRUE
      /\ Go("irqen")
      /\ UNCHANGED <<lock, active, notifier, mode, cdma, cisr, IECR, con,
                    flags, mask, tmp, isr, ich, istat, itmp, flag, cur, ch, t,
                    leaked, expired>>
    BY DEF panther7_hdma_request_irq, Main, Call, Do, At, In, chan, shared, hw,
           irqcx, place, client, Acts, Of
<1>g. /\ step' = "irqen" /\ part' = part /\ line' = line
      /\ Op' = Op /\ Of' = Of /\ Len(Script') = Len(Script)
    BY <1>a, StaysInCall DEF Steps
<1>1. TypeOK'
  <2>1. vec' \in BOOLEAN
    BY <1>a
  <2>2. part' \in Parts
    BY <1>g DEF IInv, TypeOK
  <2>3. line' \in 1 .. 13
    BY <1>g DEF IInv, TypeOK
  <2>4. step' \in Steps
    BY <1>g DEF Steps
  <2>5. QED
    BY <1>a, <2>1, <2>2, <2>3, <2>4 DEF IInv, TypeOK
<1>2. PlaceInv'
    BY <1>a, <1>g
       DEF IInv, PlaceInv, Acts, RequestSteps, FreeSteps, EnableSteps,
           DisableSteps
<1>3. OwnerInv'
    BY <1>a, <1>g
       DEF IInv, OwnerInv, OwnerOK, Phase, Mine, AskedAt, FreedAt, First
<1>4. ActiveInv'
    BY <1>a, <1>g
       DEF IInv, ActiveInv, Stopped, Live, Quiet, AskedAt, First, RequestSteps,
           FreeSteps, EnableSteps, DisableSteps
<1>5. LineInv'
    BY <1>a, <1>g DEF IInv, LineInv, Phase, Mine, AskedAt, FreedAt, First
<1>6. HandlerInv'
    BY <1>a DEF IInv, HandlerInv, Live, Of
<1>7. ReportInv'
    BY <1>a, <1>g DEF IInv, ReportInv, Expects
<1>8. ModeInv'
    BY <1>a, <1>g DEF IInv, ModeInv
<1>9. WaitInv'
    BY <1>g DEF IInv, WaitInv, Awaits, Reported
<1>10. QED
    BY <1>1, <1>2, <1>3, <1>4, <1>5, <1>6, <1>7, <1>8, <1>9 DEF IInv

\* panther7_hdma_request_irq, step by step.
LEMMA EnableLineStep ==
    ASSUME IInv, NEW c \in Chans, panther7_hdma_request_irq(c), step = "irqen"
    PROVE  IInv'
<1>a. /\ isr = "none" /\ ~Pending
      /\ Acts /\ step = "irqen" /\ Of = c
      /\ IECR' = TRUE
      /\ Go("none")
      /\ UNCHANGED <<lock, active, notifier, mode, cdma, cisr, vec, con, flags,
                    mask, tmp, isr, ich, istat, itmp, flag, cur, ch, t,
                    leaked, expired>>
    BY DEF panther7_hdma_request_irq, Main, Call, Do, At, In, chan, shared, hw,
           irqcx, place, client, Acts, Of
<1>w. /\ c \in Chans /\ Where
      /\ Op \in {"request", "disable", "free", "enable", "setup", "fill",
               "reset", "wait", "sent"}
      /\ cur \in Tests /\ cur \in Clients /\ cur # NULL
      /\ Chans = {0, 1} /\ Tx \in Chans /\ Rx \in Chans /\ Tx # Rx
    BY <1>a, WhereNow
<1>o. Op = "request"
    BY <1>a
       DEF IInv, PlaceInv, RequestSteps, FreeSteps, EnableSteps, DisableSteps
<1>g. /\ step' = "none" /\ NextPlace /\ line' \in 1 .. 13 /\ PlaceInv'
    BY <1>a, GoesOn
<1>p. /\ Phase(c) = "asking" /\ Phase(c)' = "own"
      /\ \A d \in Chans \ {c} :
           Phase(d)' = Phase(d) /\ Phase(d) \in {"out", "own"}
    BY <1>a, <1>w, <1>g, <1>o
       DEF Where, Acts, Phase, Mine, AskedAt, FreedAt, First, NextPlace, Size
<1>n. part' = "run" => line' = 1
    BY <1>w, <1>g, <1>o DEF Where, NextPlace
<1>1. TypeOK'
  <2>1. IECR' \in BOOLEAN
    BY <1>a
  <2>2. part' \in Parts
    BY <1>g, <1>w DEF IInv, TypeOK, NextPlace, Parts
  <2>3. line' \in 1 .. 13
    BY <1>g
  <2>4. step' \in Steps
    BY <1>g DEF Steps
  <2>5. QED
    BY <1>a, <2>1, <2>2, <2>3, <2>4 DEF IInv, TypeOK
<1>2. PlaceInv'
    BY <1>g
<1>3. OwnerInv'
    BY <1>a, <1>p DEF IInv, OwnerInv, OwnerOK
<1>4. ActiveInv'
    BY <1>a, <1>w, <1>o, <1>g
       DEF IInv, TypeOK, ActiveInv, Stopped, Live, Quiet, Where, NextPlace,
           Size, Acts, RequestSteps, FreeSteps, EnableSteps, DisableSteps
<1>5. LineInv'
    BY <1>a, <1>w, <1>o, <1>g, <1>p
       DEF IInv, TypeOK, LineInv, Mine, Where, NextPlace, Size, Acts, OwnerInv,
           OwnerOK, AskedAt, FreedAt, First
<1>6. HandlerInv'
    BY <1>a DEF IInv, HandlerInv, Live, Of
<1>7. ReportInv'
    BY <1>a, <1>n DEF IInv, ReportInv, Expects
<1>8. ModeInv'
    BY <1>a, <1>n DEF IInv, ModeInv
<1>9. WaitInv'
    BY <1>a, <1>n DEF IInv, WaitInv, Awaits, Reported
<1>10. QED
    BY <1>1, <1>2, <1>3, <1>4, <1>5, <1>6, <1>7, <1>8, <1>9 DEF IInv

\* panther7_hdma_free_irq, step by step.
LEMMA ResetDmaStep ==
    ASSUME IInv, NEW c \in Chans, panther7_hdma_free_irq(c), step = "uncdma"
    PROVE  IInv'
<1>a. /\ isr = "none" /\ ~Pending
      /\ Acts /\ step = "uncdma" /\ Of = c
      /\ cdma' = [cdma EXCEPT ![c] = FALSE]
      /\ Go("uncisr")
      /\ UNCHANGED <<lock, active, notifier, mode, cisr, vec, IECR, con, flags,
                    mask, tmp, isr, ich, istat, itmp, flag, cur, ch, t,
                    leaked, expired>>
    BY DEF panther7_hdma_free_irq, Main, Call, Do, At, In, chan, shared, hw,
           irqcx, place, client, Acts, Of
<1>w. /\ c \in Chans /\ Where
      /\ Op \in {"request", "disable", "free", "enable", "setup", "fill",
               "reset", "wait", "sent"}
      /\ cur \in Tests /\ cur \in Clients /\ cur # NULL
      /\ Chans = {0, 1} /\ Tx \in Chans /\ Rx \in Chans /\ Tx # Rx
    BY <1>a, WhereNow
<1>o. Op = "free"
    BY <1>a
       DEF IInv, PlaceInv, RequestSteps, FreeSteps, EnableSteps, DisableSteps
<1>g. /\ step' = "uncisr" /\ part' = part /\ line' = line
      /\ Op' = Op /\ Of' = Of /\ Len(Script') = Len(Script)
    BY <1>a, StaysInCall DEF Steps
<1>p. /\ Phase(c) = "freeing" /\ Phase(c)' = "freeing"
      /\ \A d \in Chans \ {c} :
           Phase(d)' = Phase(d) /\ Phase(d) \in {"out", "own"}
    BY <1>a, <1>w, <1>g, <1>o DEF Where, Phase, Mine, AskedAt, FreedAt, First
<1>1. TypeOK'
  <2>1. cdma' \in [Chans -> BOOLEAN]
    BY <1>a DEF IInv, TypeOK
  <2>2. part' \in Parts
    BY <1>g DEF IInv, TypeOK
  <2>3. line' \in 1 .. 13
    BY <1>g DEF IInv, TypeOK
  <2>4. step' \in Steps
    BY <1>g DEF Steps
  <2>5. QED
    BY <1>a, <2>1, <2>2, <2>3, <2>4 DEF IInv, TypeOK
<1>2. PlaceInv'
    BY <1>a, <1>g
       DEF IInv, PlaceInv, Acts, RequestSteps, FreeSteps, EnableSteps,
           DisableSteps
<1>3. OwnerInv'
    BY <1>a, <1>g, <1>p DEF IInv, TypeOK, OwnerInv, OwnerOK
<1>4. ActiveInv'
    BY <1>a, <1>g
       DEF IInv, ActiveInv, Stopped, Live, Quiet, AskedAt, First, RequestSteps,
           FreeSteps, EnableSteps, DisableSteps
<1>5. LineInv'
    BY <1>a, <1>g DEF IInv, LineInv, Phase, Mine, AskedAt, FreedAt, First
<1>6. HandlerInv'
    BY <1>a DEF IInv, HandlerInv, Live, Of
<1>7. ReportInv'
    BY <1>a, <1>g DEF IInv, ReportInv, Expects
<1>8. ModeInv'
    BY <1>a, <1>g DEF IInv, ModeInv
<1>9. WaitInv'
    BY <1>g DEF IInv, WaitInv, Awaits, Reported
<1>10. QED
    BY <1>1, <1>2, <1>3, <1>4, <1>5, <1>6, <1>7, <1>8, <1>9 DEF IInv

\* panther7_hdma_free_irq, step by step.
LEMMA ResetIsrStep ==
    ASSUME IInv, NEW c \in Chans, panther7_hdma_free_irq(c), step = "uncisr"
    PROVE  IInv'
<1>a. /\ isr = "none" /\ ~Pending
      /\ Acts /\ step = "uncisr" /\ Of = c
      /\ cisr' = [cisr EXCEPT ![c] = FALSE]
      /\ Go("unvec")
      /\ UNCHANGED <<lock, active, notifier, mode, cdma, vec, IECR, con, flags,
                    mask, tmp, isr, ich, istat, itmp, flag, cur, ch, t,
                    leaked, expired>>
    BY DEF panther7_hdma_free_irq, Main, Call, Do, At, In, chan, shared, hw,
           irqcx, place, client, Acts, Of
<1>w. /\ c \in Chans /\ Where
      /\ Op \in {"request", "disable", "free", "enable", "setup", "fill",
               "reset", "wait", "sent"}
      /\ cur \in Tests /\ cur \in Clients /\ cur # NULL
      /\ Chans = {0, 1} /\ Tx \in Chans /\ Rx \in Chans /\ Tx # Rx
    BY <1>a, WhereNow
<1>o. Op = "free"
    BY <1>a
       DEF IInv, PlaceInv, RequestSteps, FreeSteps, EnableSteps, DisableSteps
<1>g. /\ step' = "unvec" /\ part' = part /\ line' = line
      /\ Op' = Op /\ Of' = Of /\ Len(Script') = Len(Script)
    BY <1>a, StaysInCall DEF Steps
<1>p. /\ Phase(c) = "freeing" /\ Phase(c)' = "freeing"
      /\ \A d \in Chans \ {c} :
           Phase(d)' = Phase(d) /\ Phase(d) \in {"out", "own"}
    BY <1>a, <1>w, <1>g, <1>o DEF Where, Phase, Mine, AskedAt, FreedAt, First
<1>1. TypeOK'
  <2>1. cisr' \in [Chans -> BOOLEAN]
    BY <1>a DEF IInv, TypeOK
  <2>2. part' \in Parts
    BY <1>g DEF IInv, TypeOK
  <2>3. line' \in 1 .. 13
    BY <1>g DEF IInv, TypeOK
  <2>4. step' \in Steps
    BY <1>g DEF Steps
  <2>5. QED
    BY <1>a, <2>1, <2>2, <2>3, <2>4 DEF IInv, TypeOK
<1>2. PlaceInv'
    BY <1>a, <1>g
       DEF IInv, PlaceInv, Acts, RequestSteps, FreeSteps, EnableSteps,
           DisableSteps
<1>3. OwnerInv'
    BY <1>a, <1>g, <1>p DEF IInv, TypeOK, OwnerInv, OwnerOK
<1>4. ActiveInv'
    BY <1>a, <1>g
       DEF IInv, ActiveInv, Stopped, Live, Quiet, AskedAt, First, RequestSteps,
           FreeSteps, EnableSteps, DisableSteps
<1>5. LineInv'
    BY <1>a, <1>g DEF IInv, LineInv, Phase, Mine, AskedAt, FreedAt, First
<1>6. HandlerInv'
    BY <1>a DEF IInv, HandlerInv, Live, Of
<1>7. ReportInv'
    BY <1>a, <1>g DEF IInv, ReportInv, Expects
<1>8. ModeInv'
    BY <1>a, <1>g DEF IInv, ModeInv
<1>9. WaitInv'
    BY <1>g DEF IInv, WaitInv, Awaits, Reported
<1>10. QED
    BY <1>1, <1>2, <1>3, <1>4, <1>5, <1>6, <1>7, <1>8, <1>9 DEF IInv

\* panther7_hdma_free_irq, step by step.
LEMMA ResetVectorStep ==
    ASSUME IInv, NEW c \in Chans, panther7_hdma_free_irq(c), step = "unvec"
    PROVE  IInv'
<1>a. /\ isr = "none" /\ ~Pending
      /\ Acts /\ step = "unvec" /\ Of = c
      /\ vec' = FALSE
      /\ Go("irqdis")
      /\ UNCHANGED <<lock, active, notifier, mode, cdma, cisr, IECR, con,
                    flags, mask, tmp, isr, ich, istat, itmp, flag, cur, ch, t,
                    leaked, expired>>
    BY DEF panther7_hdma_free_irq, Main, Call, Do, At, In, chan, shared, hw,
           irqcx, place, client, Acts, Of
<1>w. /\ c \in Chans /\ Where
      /\ Op \in {"request", "disable", "free", "enable", "setup", "fill",
               "reset", "wait", "sent"}
      /\ cur \in Tests /\ cur \in Clients /\ cur # NULL
      /\ Chans = {0, 1} /\ Tx \in Chans /\ Rx \in Chans /\ Tx # Rx
    BY <1>a, WhereNow
<1>o. Op = "free"
    BY <1>a
       DEF IInv, PlaceInv, RequestSteps, FreeSteps, EnableSteps, DisableSteps
<1>g. /\ step' = "irqdis" /\ part' = part /\ line' = line
      /\ Op' = Op /\ Of' = Of /\ Len(Script') = Len(Script)
    BY <1>a, StaysInCall DEF Steps
<1>p. /\ Phase(c) = "freeing" /\ Phase(c)' = "freeing"
      /\ \A d \in Chans \ {c} :
           Phase(d)' = Phase(d) /\ Phase(d) \in {"out", "own"}
    BY <1>a, <1>w, <1>g, <1>o DEF Where, Phase, Mine, AskedAt, FreedAt, First
<1>1. TypeOK'
  <2>1. vec' \in BOOLEAN
    BY <1>a, <1>w, <1>o, <1>g, <1>p
       DEF IInv, TypeOK, Steps, Parts, NextPlace, Acts, AllFlags, FlagsOf,
           Kinds, Chans
  <2>2. part' \in Parts
    BY <1>g DEF IInv, TypeOK
  <2>3. line' \in 1 .. 13
    BY <1>g DEF IInv, TypeOK
  <2>4. step' \in Steps
    BY <1>g DEF Steps
  <2>5. QED
    BY <1>a, <2>1, <2>2, <2>3, <2>4 DEF IInv, TypeOK
<1>2. PlaceInv'
    BY <1>a, <1>g
       DEF IInv, PlaceInv, Acts, RequestSteps, FreeSteps, EnableSteps,
           DisableSteps
<1>3. OwnerInv'
    BY <1>a, <1>g
       DEF IInv, OwnerInv, OwnerOK, Phase, Mine, AskedAt, FreedAt, First
<1>4. ActiveInv'
    BY <1>a, <1>g
       DEF IInv, ActiveInv, Stopped, Live, Quiet, AskedAt, First, RequestSteps,
           FreeSteps, EnableSteps, DisableSteps
<1>5. LineInv'
    BY <1>a, <1>g DEF IInv, LineInv, Phase, Mine, AskedAt, FreedAt, First
<1>6. HandlerInv'
    BY <1>a DEF IInv, HandlerInv, Live, Of
<1>7. ReportInv'
    BY <1>a, <1>g DEF IInv, ReportInv, Expects
<1>8. ModeInv'
    BY <1>a, <1>g DEF IInv, ModeInv
<1>9. WaitInv'
    BY <1>g DEF IInv, WaitInv, Awaits, Reported
<1>10. QED
    BY <1>1, <1>2, <1>3, <1>4, <1>5, <1>6, <1>7, <1>8, <1>9 DEF IInv

\* panther7_hdma_free_irq, step by step.
LEMMA DisableLineStep ==
    ASSUME IInv, NEW c \in Chans, panther7_hdma_free_irq(c), step = "irqdis"
    PROVE  IInv'
<1>a. /\ isr = "none" /\ ~Pending
      /\ Acts /\ step = "irqdis" /\ Of = c
      /\ IECR' = FALSE
      /\ Go("none")
      /\ UNCHANGED <<lock, active, notifier, mode, cdma, cisr, vec, con, flags,
                    mask, tmp, isr, ich, istat, itmp, flag, cur, ch, t,
                    leaked, expired>>
    BY DEF panther7_hdma_free_irq, Main, Call, Do, At, In, chan, shared, hw,
           irqcx, place, client, Acts, Of
<1>w. /\ c \in Chans /\ Where
      /\ Op \in {"request", "disable", "free", "enable", "setup", "fill",
               "reset", "wait", "sent"}
      /\ cur \in Tests /\ cur \in Clients /\ cur # NULL
      /\ Chans = {0, 1} /\ Tx \in Chans /\ Rx \in Chans /\ Tx # Rx
    BY <1>a, WhereNow
<1>o. Op = "free"
    BY <1>a
       DEF IInv, PlaceInv, RequestSteps, FreeSteps, EnableSteps, DisableSteps
<1>g. /\ step' = "none" /\ NextPlace /\ line' \in 1 .. 13 /\ PlaceInv'
    BY <1>a, GoesOn
<1>p. /\ Phase(c) = "freeing" /\ Phase(c)' = "out"
      /\ \A d \in Chans \ {c} :
           Phase(d)' = Phase(d) /\ Phase(d) \in {"out", "own"}
    BY <1>a, <1>w, <1>g, <1>o
       DEF Where, Acts, Phase, Mine, AskedAt, FreedAt, First, NextPlace, Size
<1>n. part' = "run" => line' = 1
    BY <1>w, <1>g, <1>o DEF Where, NextPlace
<1>1. TypeOK'
  <2>1. IECR' \in BOOLEAN
    BY <1>a, <1>w, <1>o, <1>g, <1>p, <1>n
       DEF IInv, TypeOK, Steps, Parts, NextPlace, Acts, AllFlags, FlagsOf,
           Kinds, Chans
  <2>2. part' \in Parts
    BY <1>g, <1>w DEF IInv, TypeOK, NextPlace, Parts
  <2>3. line' \in 1 .. 13
    BY <1>g
  <2>4. step' \in Steps
    BY <1>g DEF Steps
  <2>5. QED
    BY <1>a, <2>1, <2>2, <2>3, <2>4 DEF IInv, TypeOK
<1>2. PlaceInv'
    BY <1>g
<1>3. OwnerInv'
    BY <1>a, <1>p DEF IInv, OwnerInv, OwnerOK
<1>4. ActiveInv'
  <2>1. \A d \in Chans : Stopped(d)' => Stopped(d)
    BY <1>a, <1>w, <1>g, <1>o
       DEF Where, NextPlace, Size, Stopped, AskedAt, FreedAt, First, Mine
  <2>2. \A d \in Chans : (Live(d)' <=> active[d]) /\ (Live(d) <=> active[d])
    BY <1>a, <1>g DEF Live
  <2>3. QED
    BY <1>a, <1>g, <2>1, <2>2
       DEF IInv, ActiveInv, Quiet, DisableSteps, EnableSteps
<1>5. LineInv'
    BY <1>a, <1>w, <1>o, <1>g, <1>p
       DEF IInv, TypeOK, LineInv, Mine, Where, NextPlace, Size, Acts, OwnerInv,
           OwnerOK, AskedAt, FreedAt, First
<1>6. HandlerInv'
    BY <1>a DEF IInv, HandlerInv, Live, Of
<1>7. ReportInv'
    BY <1>a, <1>n DEF IInv, ReportInv, Expects
<1>8. ModeInv'
    BY <1>a, <1>n DEF IInv, ModeInv
<1>9. WaitInv'
    BY <1>a, <1>n DEF IInv, WaitInv, Awaits, Reported
<1>10. QED
    BY <1>1, <1>2, <1>3, <1>4, <1>5, <1>6, <1>7, <1>8, <1>9 DEF IInv

\* sq_free_dma begins.
LEMMA FreeStep ==
    ASSUME IInv, NEW c \in Chans, sq_free_dma(c)
    PROVE  IInv'
<1>b. Acts /\ step = "none" /\ Op = "free" /\ Of = c
    BY DEF sq_free_dma, Call, At, Acts, Op, Of
<1>v. /\ Where /\ c \in Chans /\ cur \in Tests
      /\ Chans = {0, 1} /\ Tx \in Chans /\ Rx \in Chans /\ Tx # Rx
    BY <1>b, WhereIs, HdmaAssumption
     DEF IInv, TypeOK, PlaceInv, HdmaAssumption, Acts, Chans
<1>d. /\ Phase(c) = "own" /\ Stopped(c)
    BY <1>b, <1>v
     DEF Where, Phase, Stopped, AskedAt, FreedAt, First, Tests, Mine
<1>e. active[c] = FALSE /\ lock[c] = TRUE
    BY <1>d, <1>v DEF IInv, TypeOK, ActiveInv, OwnerInv, OwnerOK
<1>a. /\ isr = "none" /\ ~Pending
      /\ Acts /\ step = "none" /\ Op = "free" /\ Of = c
      /\ Go("unlock")
      /\ UNCHANGED <<lock, active, notifier, mode, cdma, cisr, vec, IECR, con,
                    flags, mask, tmp, isr, ich, istat, itmp, flag, cur, ch, t,
                    leaked, expired>>
  <2>1. Call("free", c, "unlock")
    BY <1>e DEF sq_free_dma
  <2>2. UNCHANGED <<chan, shared, hw, tmp, client>>
    BY DEF sq_free_dma
  <2>3. QED
    BY <2>1, <2>2
       DEF Main, Call, At, chan, shared, hw, irqcx, client, Acts, Op, Of
<1>w. /\ c \in Chans /\ Where
      /\ Op \in {"request", "disable", "free", "enable", "setup", "fill",
               "reset", "wait", "sent"}
      /\ cur \in Tests /\ cur \in Clients /\ cur # NULL
      /\ Chans = {0, 1} /\ Tx \in Chans /\ Rx \in Chans /\ Tx # Rx
    BY <1>a, WhereNow
<1>g. /\ step' = "unlock" /\ part' = part /\ line' = line
      /\ Op' = Op /\ Of' = Of /\ Len(Script') = Len(Script)
    BY <1>a, StaysInCall DEF Steps
<1>p. /\ Phase(c) = "own" /\ Phase(c)' = "freeing"
      /\ \A d \in Chans \ {c} :
           Phase(d)' = Phase(d) /\ Phase(d) \in {"out", "own"}
    BY <1>a, <1>w, <1>g DEF Where, Phase, Mine, AskedAt, FreedAt, First
<1>1. TypeOK'
  <2>1. part' \in Parts
    BY <1>g DEF IInv, TypeOK
  <2>2. line' \in 1 .. 13
    BY <1>g DEF IInv, TypeOK
  <2>3. step' \in Steps
    BY <1>g DEF Steps
  <2>4. QED
    BY <1>a, <2>1, <2>2, <2>3 DEF IInv, TypeOK
<1>2. PlaceInv'
    BY <1>a, <1>w, <1>g
       DEF IInv, PlaceInv, Acts, RequestSteps, FreeSteps, EnableSteps,
           DisableSteps
<1>3. OwnerInv'
    BY <1>a, <1>g, <1>p DEF IInv, OwnerInv, OwnerOK
<1>4. ActiveInv'
    BY <1>a, <1>g
       DEF IInv, ActiveInv, Stopped, Live, Quiet, AskedAt, First, RequestSteps,
           FreeSteps, EnableSteps, DisableSteps
<1>5. LineInv'
    BY <1>a, <1>g, <1>p DEF IInv, LineInv, Phase
<1>6. HandlerInv'
    BY <1>a DEF IInv, HandlerInv, Live, Of
<1>7. ReportInv'
    BY <1>a, <1>w, <1>g DEF IInv, ReportInv, Expects
<1>8. ModeInv'
    BY <1>a, <1>w, <1>g DEF IInv, ModeInv
<1>9. WaitInv'
    BY <1>g DEF IInv, WaitInv, Awaits, Reported
<1>10. QED
    BY <1>1, <1>2, <1>3, <1>4, <1>5, <1>6, <1>7, <1>8, <1>9 DEF IInv

\* sq_free_dma gives up the lock.
LEMMA UnlockStep ==
    ASSUME IInv, NEW c \in Chans, Unlock(c)
    PROVE  IInv'
<1>a. /\ isr = "none" /\ ~Pending
      /\ Acts /\ step = "unlock" /\ Of = c
      /\ active' = [active EXCEPT ![c] = FALSE]
      /\ lock' = [lock EXCEPT ![c] = FALSE]
      /\ notifier' = [notifier EXCEPT ![c] = NULL]
      /\ leaked' = leaked \ {c}
      /\ Go("uncdma")
      /\ UNCHANGED <<mode, cdma, cisr, vec, IECR, con, flags, mask, tmp, isr,
                    ich, istat, itmp, flag, cur, ch, t, expired>>
    BY DEF Unlock, Main, Call, Do, At, In, chan, shared, hw, irqcx, place,
           client, Acts, Of
<1>w. /\ c \in Chans /\ Where
      /\ Op \in {"request", "disable", "free", "enable", "setup", "fill",
               "reset", "wait", "sent"}
      /\ cur \in Tests /\ cur \in Clients /\ cur # NULL
      /\ Chans = {0, 1} /\ Tx \in Chans /\ Rx \in Chans /\ Tx # Rx
    BY <1>a, WhereNow
<1>o. Op = "free"
    BY <1>a
       DEF IInv, PlaceInv, RequestSteps, FreeSteps, EnableSteps, DisableSteps
<1>g. /\ step' = "uncdma" /\ part' = part /\ line' = line
      /\ Op' = Op /\ Of' = Of /\ Len(Script') = Len(Script)
    BY <1>a, StaysInCall DEF Steps
<1>p. /\ Phase(c) = "freeing" /\ Phase(c)' = "freeing"
      /\ \A d \in Chans \ {c} :
           Phase(d)' = Phase(d) /\ Phase(d) \in {"out", "own"}
    BY <1>a, <1>w, <1>g, <1>o DEF Where, Phase, Mine, AskedAt, FreedAt, First
<1>s. Stopped(c) /\ active[c] = FALSE
    BY <1>a, <1>w, <1>o
     DEF IInv, TypeOK, ActiveInv, Acts, Where, Stopped, AskedAt, FreedAt,
        First,
         Mine, Tests
<1>1. TypeOK'
  <2>1. lock' \in [Chans -> BOOLEAN]
    BY <1>a DEF IInv, TypeOK
  <2>2. active' \in [Chans -> BOOLEAN]
    BY <1>a DEF IInv, TypeOK
  <2>3. notifier' \in [Chans -> Clients \cup {NULL}]
    BY <1>a DEF IInv, TypeOK
  <2>4. part' \in Parts
    BY <1>g DEF IInv, TypeOK
  <2>5. line' \in 1 .. 13
    BY <1>g DEF IInv, TypeOK
  <2>6. step' \in Steps
    BY <1>g DEF Steps
  <2>7. leaked' \subseteq Chans
    BY <1>a DEF IInv, TypeOK
  <2>8. QED
    BY <1>a, <2>1, <2>2, <2>3, <2>4, <2>5, <2>6, <2>7 DEF IInv, TypeOK
<1>2. PlaceInv'
    BY <1>a, <1>g
       DEF IInv, PlaceInv, Acts, RequestSteps, FreeSteps, EnableSteps,
           DisableSteps
<1>3. OwnerInv'
    BY <1>a, <1>g, <1>p DEF IInv, TypeOK, OwnerInv, OwnerOK
<1>4. ActiveInv'
    BY <1>a, <1>g, <1>s
       DEF IInv, TypeOK, ActiveInv, Stopped, Live, Quiet, Where, NextPlace,
           Size, Acts, AskedAt, First, RequestSteps, FreeSteps, EnableSteps,
           DisableSteps
<1>5. LineInv'
    BY <1>a, <1>g, <1>p DEF IInv, LineInv, Phase
<1>6. HandlerInv'
    BY <1>a DEF IInv, HandlerInv, Live, Of
<1>7. ReportInv'
    BY <1>a, <1>g DEF IInv, ReportInv, Expects
<1>8. ModeInv'
    BY <1>a, <1>g DEF IInv, ModeInv
<1>9. WaitInv'
    BY <1>g DEF IInv, WaitInv, Awaits, Reported
<1>10. QED
    BY <1>1, <1>2, <1>3, <1>4, <1>5, <1>6, <1>7, <1>8, <1>9 DEF IInv

\* sq_enable_dma on an active channel.
LEMMA EnableActiveStep ==
    ASSUME IInv, NEW c \in Chans, sq_enable_dma(c), active[c]
    PROVE  IInv'
<1>b. Acts /\ step = "none" /\ Op = "enable" /\ Of = c
    BY DEF sq_enable_dma, Call, At, Acts, Op, Of
<1>v. /\ Where /\ c \in Chans /\ cur \in Tests
      /\ Chans = {0, 1} /\ Tx \in Chans /\ Rx \in Chans /\ Tx # Rx
    BY <1>b, WhereIs, HdmaAssumption
     DEF IInv, TypeOK, PlaceInv, HdmaAssumption, Acts, Chans
<1>d. Phase(c) = "own"
    BY <1>b, <1>v DEF Where, Phase, AskedAt, FreedAt, First, Mine
<1>e. active[c] = TRUE /\ lock[c] = TRUE
    BY <1>d, <1>v DEF IInv, TypeOK, OwnerInv, OwnerOK
<1>a. /\ isr = "none" /\ ~Pending
      /\ Acts /\ step = "none" /\ Op = "enable" /\ Of = c
      /\ Go("none")
      /\ UNCHANGED <<lock, active, notifier, mode, cdma, cisr, vec, IECR, con,
                    flags, mask, tmp, isr, ich, istat, itmp, flag, cur, ch, t,
                    leaked, expired>>
  <2>1. (lock[c] \/ active[c]) = TRUE
    BY <1>e
  <2>2. UNCHANGED active
    BY <1>e, <2>1 DEF sq_enable_dma, IInv, TypeOK
  <2>3. Call("enable", c, "none")
    BY <1>e DEF sq_enable_dma
  <2>4. UNCHANGED <<lock, notifier, mode, shared, hw, tmp, client>>
    BY DEF sq_enable_dma
  <2>5. QED
    BY <1>e, <2>2, <2>3, <2>4
       DEF Main, Call, At, shared, hw, irqcx, client, Acts, Op, Of
<1>w. /\ c \in Chans /\ Where
      /\ Op \in {"request", "disable", "free", "enable", "setup", "fill",
               "reset", "wait", "sent"}
      /\ cur \in Tests /\ cur \in Clients /\ cur # NULL
      /\ Chans = {0, 1} /\ Tx \in Chans /\ Rx \in Chans /\ Tx # Rx
    BY <1>a, WhereNow
<1>g. /\ step' = "none" /\ NextPlace /\ line' \in 1 .. 13 /\ PlaceInv'
    BY <1>a, GoesOn
<1>p. \A d \in Chans : Phase(d)' = Phase(d) /\ Phase(d) \in {"out", "own"}
    BY <1>a, <1>w, <1>g
       DEF Where, Acts, Phase, Mine, AskedAt, FreedAt, First, NextPlace, Size
<1>q. cur = "pair"
    BY <1>b, <1>v, <1>e DEF Where, IInv, ActiveInv, Stopped
<1>1. TypeOK'
  <2>1. part' \in Parts
    BY <1>g, <1>w DEF IInv, TypeOK, NextPlace, Parts
  <2>2. line' \in 1 .. 13
    BY <1>g
  <2>3. step' \in Steps
    BY <1>g DEF Steps
  <2>4. QED
    BY <1>a, <2>1, <2>2, <2>3 DEF IInv, TypeOK
<1>2. PlaceInv'
    BY <1>g
<1>3. OwnerInv'
    BY <1>a, <1>p DEF IInv, OwnerInv, OwnerOK
<1>4. ActiveInv'
    BY <1>a, <1>w, <1>g
       DEF IInv, TypeOK, ActiveInv, Stopped, Live, Quiet, Where, NextPlace,
           Size, Acts, RequestSteps, FreeSteps, EnableSteps, DisableSteps
<1>5. LineInv'
    BY <1>a, <1>w, <1>g
       DEF IInv, TypeOK, LineInv, Mine, Where, NextPlace, Size, Acts, AskedAt,
           FreedAt, First
<1>6. HandlerInv'
    BY <1>a DEF IInv, HandlerInv, Live, Of
<1>7. ReportInv'
    BY <1>a, <1>w
       DEF IInv, TypeOK, ReportInv, Expects, ActiveInv, Stopped, Where,
           NextPlace, Size, Acts
<1>8. ModeInv'
    BY <1>a, <1>w DEF IInv, TypeOK, ModeInv, Where, NextPlace, Size
<1>9. WaitInv'
    BY <1>a, <1>q DEF IInv, WaitInv, Awaits
<1>10. QED
    BY <1>1, <1>2, <1>3, <1>4, <1>5, <1>6, <1>7, <1>8, <1>9 DEF IInv

\* sq_enable_dma.
LEMMA EnableStep ==
    ASSUME IInv, NEW c \in Chans, sq_enable_dma(c), ~active[c]
    PROVE  IInv'
<1>b. Acts /\ step = "none" /\ Op = "enable" /\ Of = c
    BY DEF sq_enable_dma, Call, At, Acts, Op, Of
<1>v. /\ Where /\ c \in Chans /\ cur \in Tests
      /\ Chans = {0, 1} /\ Tx \in Chans /\ Rx \in Chans /\ Tx # Rx
    BY <1>b, WhereIs, HdmaAssumption
     DEF IInv, TypeOK, PlaceInv, HdmaAssumption, Acts, Chans
<1>d. Phase(c) = "own"
    BY <1>b, <1>v DEF Where, Phase, AskedAt, FreedAt, First, Mine
<1>e. active[c] = FALSE /\ lock[c] = TRUE
    BY <1>d, <1>v DEF IInv, TypeOK, OwnerInv, OwnerOK
<1>a. /\ isr = "none" /\ ~Pending
      /\ Acts /\ step = "none" /\ Op = "enable" /\ Of = c
      /\ ~active[c] /\ active' = [active EXCEPT ![c] = TRUE]
      /\ Go("unmaskrd")
      /\ UNCHANGED <<lock, notifier, mode, cdma, cisr, vec, IECR, con, flags,
                    mask, tmp, isr, ich, istat, itmp, flag, cur, ch, t,
                    leaked, expired>>
  <2>1. (lock[c] \/ active[c]) = TRUE
    BY <1>e
  <2>2. active' = [active EXCEPT ![c] = TRUE]
    BY <1>e, <2>1 DEF sq_enable_dma, IInv, TypeOK
  <2>3. Call("enable", c, "unmaskrd")
    BY <1>e DEF sq_enable_dma
  <2>4. UNCHANGED <<lock, notifier, mode, shared, hw, tmp, client>>
    BY DEF sq_enable_dma
  <2>5. QED
    BY <1>e, <2>2, <2>3, <2>4
       DEF Main, Call, At, shared, hw, irqcx, client, Acts, Op, Of
<1>w. /\ c \in Chans /\ Where
      /\ Op \in {"request", "disable", "free", "enable", "setup", "fill",
               "reset", "wait", "sent"}
      /\ cur \in Tests /\ cur \in Clients /\ cur # NULL
      /\ Chans = {0, 1} /\ Tx \in Chans /\ Rx \in Chans /\ Tx # Rx
    BY <1>a, WhereNow
<1>g. /\ step' = "unmaskrd" /\ part' = part /\ line' = line
      /\ Op' = Op /\ Of' = Of /\ Len(Script') = Len(Script)
    BY <1>a, StaysInCall DEF Steps
<1>p. \A d \in Chans : Phase(d)' = Phase(d) /\ Phase(d) \in {"out", "own"}
    BY <1>a, <1>w, <1>g DEF Where, Phase, Mine, AskedAt, FreedAt, First
<1>1. TypeOK'
  <2>1. active' \in [Chans -> BOOLEAN]
    BY <1>a DEF IInv, TypeOK
  <2>2. part' \in Parts
    BY <1>g DEF IInv, TypeOK
  <2>3. line' \in 1 .. 13
    BY <1>g DEF IInv, TypeOK
  <2>4. step' \in Steps
    BY <1>g DEF Steps
  <2>5. QED
    BY <1>a, <2>1, <2>2, <2>3, <2>4 DEF IInv, TypeOK
<1>2. PlaceInv'
    BY <1>a, <1>w, <1>g
       DEF IInv, PlaceInv, Acts, RequestSteps, FreeSteps, EnableSteps,
           DisableSteps
<1>3. OwnerInv'
    BY <1>a, <1>p, <1>d
       DEF IInv, TypeOK, OwnerInv, OwnerOK, Mine, AskedAt, FreedAt, First
<1>4. ActiveInv'
    BY <1>a, <1>w, <1>g
       DEF IInv, TypeOK, ActiveInv, Stopped, Live, Quiet, Where, NextPlace,
           Size, Acts, RequestSteps, FreeSteps, EnableSteps, DisableSteps
<1>5. LineInv'
    BY <1>a, <1>w, <1>g DEF IInv, LineInv, Where
<1>6. HandlerInv'
    BY <1>a DEF IInv, HandlerInv, Live, Of
<1>7. ReportInv'
    BY <1>a, <1>w, <1>g DEF IInv, ReportInv, Expects
<1>8. ModeInv'
    BY <1>a, <1>w, <1>g DEF IInv, ModeInv
<1>9. WaitInv'
    BY <1>g DEF IInv, WaitInv, Awaits, Reported
<1>10. QED
    BY <1>1, <1>2, <1>3, <1>4, <1>5, <1>6, <1>7, <1>8, <1>9 DEF IInv

\* sq_disable_dma on an inactive channel.
LEMMA DisableInactiveStep ==
    ASSUME IInv, NEW c \in Chans, sq_disable_dma(c), ~active[c]
    PROVE  IInv'
<1>b. Acts /\ step = "none" /\ Op = "disable" /\ Of = c
    BY DEF sq_disable_dma, Call, At, Acts, Op, Of
<1>v. /\ Where /\ c \in Chans /\ cur \in Tests
      /\ Chans = {0, 1} /\ Tx \in Chans /\ Rx \in Chans /\ Tx # Rx
    BY <1>b, WhereIs, HdmaAssumption
     DEF IInv, TypeOK, PlaceInv, HdmaAssumption, Acts, Chans
<1>d. Phase(c) = "own"
    BY <1>b, <1>v DEF Where, Phase, AskedAt, FreedAt, First, Mine
<1>e. active[c] = FALSE /\ lock[c] = TRUE
    BY <1>d, <1>v DEF IInv, TypeOK, OwnerInv, OwnerOK
<1>a. /\ isr = "none" /\ ~Pending
      /\ Acts /\ step = "none" /\ Op = "disable" /\ Of = c
      /\ ~active[c]
      /\ Go("none")
      /\ UNCHANGED <<lock, active, notifier, mode, cdma, cisr, vec, IECR, con,
                    flags, mask, tmp, isr, ich, istat, itmp, flag, cur, ch, t,
                    leaked, expired>>
  <2>1. (~lock[c] /\ active[c]) = FALSE
    BY <1>e
  <2>2. UNCHANGED active
    BY <1>e, <2>1 DEF sq_disable_dma, IInv, TypeOK
  <2>3. Call("disable", c, "none")
    BY <1>e DEF sq_disable_dma
  <2>4. UNCHANGED <<lock, notifier, mode, shared, hw, tmp, client>>
    BY DEF sq_disable_dma
  <2>5. QED
    BY <1>e, <2>2, <2>3, <2>4
       DEF Main, Call, At, shared, hw, irqcx, client, Acts, Op, Of
<1>w. /\ c \in Chans /\ Where
      /\ Op \in {"request", "disable", "free", "enable", "setup", "fill",
               "reset", "wait", "sent"}
      /\ cur \in Tests /\ cur \in Clients /\ cur # NULL
      /\ Chans = {0, 1} /\ Tx \in Chans /\ Rx \in Chans /\ Tx # Rx
    BY <1>a, WhereNow
<1>g. /\ step' = "none" /\ NextPlace /\ line' \in 1 .. 13 /\ PlaceInv'
    BY <1>a, GoesOn
<1>p. \A d \in Chans : Phase(d)' = Phase(d) /\ Phase(d) \in {"out", "own"}
    BY <1>a, <1>w, <1>g
       DEF Where, Acts, Phase, Mine, AskedAt, FreedAt, First, NextPlace, Size
<1>1. TypeOK'
  <2>1. part' \in Parts
    BY <1>g, <1>w DEF IInv, TypeOK, NextPlace, Parts
  <2>2. line' \in 1 .. 13
    BY <1>g
  <2>3. step' \in Steps
    BY <1>g DEF Steps
  <2>4. QED
    BY <1>a, <2>1, <2>2, <2>3 DEF IInv, TypeOK
<1>2. PlaceInv'
    BY <1>g
<1>3. OwnerInv'
    BY <1>a, <1>p DEF IInv, OwnerInv, OwnerOK
<1>4. ActiveInv'
    BY <1>a, <1>w, <1>g
       DEF IInv, TypeOK, ActiveInv, Stopped, Live, Quiet, Where, NextPlace,
           Size, Acts, AskedAt, First, RequestSteps, FreeSteps, EnableSteps,
           DisableSteps
<1>5. LineInv'
    BY <1>a, <1>w, <1>g
       DEF IInv, TypeOK, LineInv, Mine, Where, NextPlace, Size, Acts, AskedAt,
           FreedAt, First
<1>6. HandlerInv'
    BY <1>a DEF IInv, HandlerInv, Live, Of
<1>7. ReportInv'
    BY <1>a, <1>w, <1>g
       DEF IInv, TypeOK, ReportInv, Expects, Where, NextPlace, Size, Acts
<1>8. ModeInv'
    BY <1>a, <1>w, <1>g DEF IInv, TypeOK, ModeInv, Where, NextPlace, Size
<1>9. WaitInv'
    BY <1>a, <1>w, <1>g DEF WaitInv, Awaits, Where, NextPlace, Size, Acts
<1>10. QED
    BY <1>1, <1>2, <1>3, <1>4, <1>5, <1>6, <1>7, <1>8, <1>9 DEF IInv

\* sq_disable_dma.
LEMMA DisableStep ==
    ASSUME IInv, NEW c \in Chans, sq_disable_dma(c), active[c]
    PROVE  IInv'
<1>b. Acts /\ step = "none" /\ Op = "disable" /\ Of = c
    BY DEF sq_disable_dma, Call, At, Acts, Op, Of
<1>v. /\ Where /\ c \in Chans /\ cur \in Tests
      /\ Chans = {0, 1} /\ Tx \in Chans /\ Rx \in Chans /\ Tx # Rx
    BY <1>b, WhereIs, HdmaAssumption
     DEF IInv, TypeOK, PlaceInv, HdmaAssumption, Acts, Chans
<1>d. Phase(c) = "own"
    BY <1>b, <1>v DEF Where, Phase, AskedAt, FreedAt, First, Mine
<1>e. active[c] = TRUE /\ lock[c] = TRUE
    BY <1>d, <1>v DEF IInv, TypeOK, OwnerInv, OwnerOK
<1>a. /\ isr = "none" /\ ~Pending
      /\ Acts /\ step = "none" /\ Op = "disable" /\ Of = c
      /\ active[c] /\ active' = [active EXCEPT ![c] = FALSE]
      /\ Go("stop")
      /\ UNCHANGED <<lock, notifier, mode, cdma, cisr, vec, IECR, con, flags,
                    mask, tmp, isr, ich, istat, itmp, flag, cur, ch, t,
                    leaked, expired>>
  <2>1. (~lock[c] /\ active[c]) = FALSE
    BY <1>e
  <2>2. active' = [active EXCEPT ![c] = FALSE]
    BY <1>e, <2>1 DEF sq_disable_dma, IInv, TypeOK
  <2>3. Call("disable", c, "stop")
    BY <1>e DEF sq_disable_dma
  <2>4. UNCHANGED <<lock, notifier, mode, shared, hw, tmp, client>>
    BY DEF sq_disable_dma
  <2>5. QED
    BY <1>e, <2>2, <2>3, <2>4
       DEF Main, Call, At, shared, hw, irqcx, client, Acts, Op, Of
<1>w. /\ c \in Chans /\ Where
      /\ Op \in {"request", "disable", "free", "enable", "setup", "fill",
               "reset", "wait", "sent"}
      /\ cur \in Tests /\ cur \in Clients /\ cur # NULL
      /\ Chans = {0, 1} /\ Tx \in Chans /\ Rx \in Chans /\ Tx # Rx
    BY <1>a, WhereNow
<1>g. /\ step' = "stop" /\ part' = part /\ line' = line
      /\ Op' = Op /\ Of' = Of /\ Len(Script') = Len(Script)
    BY <1>a, StaysInCall DEF Steps
<1>p. \A d \in Chans : Phase(d)' = Phase(d) /\ Phase(d) \in {"out", "own"}
    BY <1>a, <1>w, <1>g DEF Where, Phase, Mine, AskedAt, FreedAt, First
<1>1. TypeOK'
  <2>1. active' \in [Chans -> BOOLEAN]
    BY <1>a DEF IInv, TypeOK
  <2>2. part' \in Parts
    BY <1>g DEF IInv, TypeOK
  <2>3. line' \in 1 .. 13
    BY <1>g DEF IInv, TypeOK
  <2>4. step' \in Steps
    BY <1>g DEF Steps
  <2>5. QED
    BY <1>a, <2>1, <2>2, <2>3, <2>4 DEF IInv, TypeOK
<1>2. PlaceInv'
    BY <1>a, <1>w, <1>g
       DEF IInv, PlaceInv, Acts, RequestSteps, FreeSteps, EnableSteps,
           DisableSteps
<1>3. OwnerInv'
    BY <1>a, <1>p DEF IInv, OwnerInv, OwnerOK
<1>4. ActiveInv'
    BY <1>a, <1>g
       DEF IInv, TypeOK, ActiveInv, Stopped, Live, Quiet, AskedAt, First,
           RequestSteps, FreeSteps, EnableSteps, DisableSteps
<1>5. LineInv'
    BY <1>a, <1>g, <1>p DEF IInv, LineInv, Mine, AskedAt, FreedAt, First
<1>6. HandlerInv'
    BY <1>a DEF IInv, HandlerInv, Live, Of
<1>7. ReportInv'
    BY <1>a, <1>w, <1>g DEF IInv, ReportInv, Expects
<1>8. ModeInv'
    BY <1>a, <1>w, <1>g DEF IInv, ModeInv
<1>9. WaitInv'
    BY <1>g DEF IInv, WaitInv, Awaits, Reported
<1>10. QED
    BY <1>1, <1>2, <1>3, <1>4, <1>5, <1>6, <1>7, <1>8, <1>9 DEF IInv

\* The read of the status register.
LEMMA ReadToUnmaskStep ==
    ASSUME IInv, NEW c \in Chans, ReadStatus(c), step = "unmaskrd"
    PROVE  IInv'
<1>a. /\ isr = "none" /\ ~Pending
      /\ Acts /\ step = "unmaskrd" /\ Of = c
      /\ tmp' = flags
      /\ Go("unmaskwr")
      /\ UNCHANGED <<lock, active, notifier, mode, cdma, cisr, vec, IECR, con,
                    flags, mask, isr, ich, istat, itmp, flag, cur, ch, t,
                    leaked, expired>>
    BY DEF ReadStatus, Main, Call, Do, At, In, chan, shared, hw, irqcx, place,
           client, Acts, Of
<1>g. /\ step' = "unmaskwr" /\ part' = part /\ line' = line
      /\ Op' = Op /\ Of' = Of /\ Len(Script') = Len(Script)
    BY <1>a, StaysInCall DEF Steps
<1>1. TypeOK'
  <2>1. tmp' \subseteq AllFlags
    BY <1>a DEF IInv, TypeOK
  <2>2. part' \in Parts
    BY <1>g DEF IInv, TypeOK
  <2>3. line' \in 1 .. 13
    BY <1>g DEF IInv, TypeOK
  <2>4. step' \in Steps
    BY <1>g DEF Steps
  <2>5. QED
    BY <1>a, <2>1, <2>2, <2>3, <2>4 DEF IInv, TypeOK
<1>2. PlaceInv'
    BY <1>a, <1>g
       DEF IInv, PlaceInv, Acts, RequestSteps, FreeSteps, EnableSteps,
           DisableSteps
<1>3. OwnerInv'
    BY <1>a, <1>g
       DEF IInv, OwnerInv, OwnerOK, Phase, Mine, AskedAt, FreedAt, First
<1>4. ActiveInv'
    BY <1>a, <1>g
       DEF IInv, ActiveInv, Stopped, Live, Quiet, AskedAt, First, RequestSteps,
           FreeSteps, EnableSteps, DisableSteps
<1>5. LineInv'
    BY <1>a, <1>g DEF IInv, LineInv, Phase, Mine, AskedAt, FreedAt, First
<1>6. HandlerInv'
    BY <1>a DEF IInv, HandlerInv, Live, Of
<1>7. ReportInv'
    BY <1>a, <1>g DEF IInv, ReportInv, Expects
<1>8. ModeInv'
    BY <1>a, <1>g DEF IInv, ModeInv
<1>9. WaitInv'
    BY <1>g DEF IInv, WaitInv, Awaits, Reported
<1>10. QED
    BY <1>1, <1>2, <1>3, <1>4, <1>5, <1>6, <1>7, <1>8, <1>9 DEF IInv

\* The read of the status register.
LEMMA ReadToClearStep ==
    ASSUME IInv, NEW c \in Chans, ReadStatus(c), step = "clearrd"
    PROVE  IInv'
<1>a. /\ isr = "none" /\ ~Pending
      /\ Acts /\ step = "clearrd" /\ Of = c
      /\ tmp' = flags
      /\ Go("clearwr")
      /\ UNCHANGED <<lock, active, notifier, mode, cdma, cisr, vec, IECR, con,
                    flags, mask, isr, ich, istat, itmp, flag, cur, ch, t,
                    leaked, expired>>
    BY DEF ReadStatus, Main, Call, Do, At, In, chan, shared, hw, irqcx, place,
           client, Acts, Of
<1>g. /\ step' = "clearwr" /\ part' = part /\ line' = line
      /\ Op' = Op /\ Of' = Of /\ Len(Script') = Len(Script)
    BY <1>a, StaysInCall DEF Steps
<1>1. TypeOK'
  <2>1. tmp' \subseteq AllFlags
    BY <1>a DEF IInv, TypeOK
  <2>2. part' \in Parts
    BY <1>g DEF IInv, TypeOK
  <2>3. line' \in 1 .. 13
    BY <1>g DEF IInv, TypeOK
  <2>4. step' \in Steps
    BY <1>g DEF Steps
  <2>5. QED
    BY <1>a, <2>1, <2>2, <2>3, <2>4 DEF IInv, TypeOK
<1>2. PlaceInv'
    BY <1>a, <1>g
       DEF IInv, PlaceInv, Acts, RequestSteps, FreeSteps, EnableSteps,
           DisableSteps
<1>3. OwnerInv'
    BY <1>a, <1>g
       DEF IInv, OwnerInv, OwnerOK, Phase, Mine, AskedAt, FreedAt, First
<1>4. ActiveInv'
    BY <1>a, <1>g
       DEF IInv, ActiveInv, Stopped, Live, Quiet, AskedAt, First, RequestSteps,
           FreeSteps, EnableSteps, DisableSteps
<1>5. LineInv'
    BY <1>a, <1>g DEF IInv, LineInv, Phase, Mine, AskedAt, FreedAt, First
<1>6. HandlerInv'
    BY <1>a DEF IInv, HandlerInv, Live, Of
<1>7. ReportInv'
    BY <1>a, <1>g DEF IInv, ReportInv, Expects
<1>8. ModeInv'
    BY <1>a, <1>g DEF IInv, ModeInv
<1>9. WaitInv'
    BY <1>g DEF IInv, WaitInv, Awaits, Reported
<1>10. QED
    BY <1>1, <1>2, <1>3, <1>4, <1>5, <1>6, <1>7, <1>8, <1>9 DEF IInv

\* The read of the status register.
LEMMA ReadToMaskStep ==
    ASSUME IInv, NEW c \in Chans, ReadStatus(c), step = "maskrd"
    PROVE  IInv'
<1>a. /\ isr = "none" /\ ~Pending
      /\ Acts /\ step = "maskrd" /\ Of = c
      /\ tmp' = flags
      /\ Go("maskwr")
      /\ UNCHANGED <<lock, active, notifier, mode, cdma, cisr, vec, IECR, con,
                    flags, mask, isr, ich, istat, itmp, flag, cur, ch, t,
                    leaked, expired>>
    BY DEF ReadStatus, Main, Call, Do, At, In, chan, shared, hw, irqcx, place,
           client, Acts, Of
<1>g. /\ step' = "maskwr" /\ part' = part /\ line' = line
      /\ Op' = Op /\ Of' = Of /\ Len(Script') = Len(Script)
    BY <1>a, StaysInCall DEF Steps
<1>1. TypeOK'
  <2>1. tmp' \subseteq AllFlags
    BY <1>a DEF IInv, TypeOK
  <2>2. part' \in Parts
    BY <1>g DEF IInv, TypeOK
  <2>3. line' \in 1 .. 13
    BY <1>g DEF IInv, TypeOK
  <2>4. step' \in Steps
    BY <1>g DEF Steps
  <2>5. QED
    BY <1>a, <2>1, <2>2, <2>3, <2>4 DEF IInv, TypeOK
<1>2. PlaceInv'
    BY <1>a, <1>g
       DEF IInv, PlaceInv, Acts, RequestSteps, FreeSteps, EnableSteps,
           DisableSteps
<1>3. OwnerInv'
    BY <1>a, <1>g
       DEF IInv, OwnerInv, OwnerOK, Phase, Mine, AskedAt, FreedAt, First
<1>4. ActiveInv'
    BY <1>a, <1>g
       DEF IInv, ActiveInv, Stopped, Live, Quiet, AskedAt, First, RequestSteps,
           FreeSteps, EnableSteps, DisableSteps
<1>5. LineInv'
    BY <1>a, <1>g DEF IInv, LineInv, Phase, Mine, AskedAt, FreedAt, First
<1>6. HandlerInv'
    BY <1>a DEF IInv, HandlerInv, Live, Of
<1>7. ReportInv'
    BY <1>a, <1>g DEF IInv, ReportInv, Expects
<1>8. ModeInv'
    BY <1>a, <1>g DEF IInv, ModeInv
<1>9. WaitInv'
    BY <1>g DEF IInv, WaitInv, Awaits, Reported
<1>10. QED
    BY <1>1, <1>2, <1>3, <1>4, <1>5, <1>6, <1>7, <1>8, <1>9 DEF IInv

\* panther7_hdma_enable: the write.
LEMMA UnmaskStep ==
    ASSUME IInv, NEW c \in Chans, panther7_hdma_enable(c), step = "unmaskwr"
    PROVE  IInv'
<1>a. /\ isr = "none" /\ ~Pending
      /\ Acts /\ step = "unmaskwr" /\ Of = c
      /\ flags' = flags \cap tmp
      /\ mask' = mask \ {c}
      /\ Go("start")
      /\ UNCHANGED <<lock, active, notifier, mode, cdma, cisr, vec, IECR, con,
                    tmp, isr, ich, istat, itmp, flag, cur, ch, t, leaked, expired>>
    BY DEF panther7_hdma_enable, Main, Call, Do, At, In, chan, shared, hw,
           irqcx, place, client, Acts, Of
<1>g. /\ step' = "start" /\ part' = part /\ line' = line
      /\ Op' = Op /\ Of' = Of /\ Len(Script') = Len(Script)
    BY <1>a, StaysInCall DEF Steps
<1>1. TypeOK'
  <2>1. flags' \subseteq AllFlags
    BY <1>a DEF IInv, TypeOK
  <2>2. mask' \subseteq Chans
    BY <1>a DEF IInv, TypeOK
  <2>3. part' \in Parts
    BY <1>g DEF IInv, TypeOK
  <2>4. line' \in 1 .. 13
    BY <1>g DEF IInv, TypeOK
  <2>5. step' \in Steps
    BY <1>g DEF Steps
  <2>6. QED
    BY <1>a, <2>1, <2>2, <2>3, <2>4, <2>5 DEF IInv, TypeOK
<1>2. PlaceInv'
    BY <1>a, <1>g
       DEF IInv, PlaceInv, Acts, RequestSteps, FreeSteps, EnableSteps,
           DisableSteps
<1>3. OwnerInv'
    BY <1>a, <1>g
       DEF IInv, OwnerInv, OwnerOK, Phase, Mine, AskedAt, FreedAt, First
<1>4. ActiveInv'
    BY <1>a, <1>g
       DEF IInv, ActiveInv, Stopped, Live, Quiet, AskedAt, First, RequestSteps,
           FreeSteps, EnableSteps, DisableSteps
<1>5. LineInv'
    BY <1>a, <1>g DEF IInv, LineInv, Phase, Mine, AskedAt, FreedAt, First
<1>6. HandlerInv'
    BY <1>a DEF IInv, HandlerInv, Live, Of
<1>7. ReportInv'
    BY <1>a, <1>g DEF IInv, ReportInv, Expects
<1>8. ModeInv'
    BY <1>a, <1>g DEF IInv, ModeInv
<1>9. WaitInv'
    BY <1>g DEF IInv, WaitInv, Awaits, Reported
<1>10. QED
    BY <1>1, <1>2, <1>3, <1>4, <1>5, <1>6, <1>7, <1>8, <1>9 DEF IInv

\* panther7_hdma_enable starts the channel.
LEMMA StartStep ==
    ASSUME IInv, NEW c \in Chans, panther7_hdma_enable(c), step = "start"
    PROVE  IInv'
<1>a. /\ isr = "none" /\ ~Pending
      /\ Acts /\ step = "start" /\ Of = c
      /\ con' = [con EXCEPT ![c] = "run"]
      /\ Go("none")
      /\ UNCHANGED <<lock, active, notifier, mode, cdma, cisr, vec, IECR,
                    flags, mask, tmp, isr, ich, istat, itmp, flag, cur, ch, t,
                    leaked, expired>>
    BY DEF panther7_hdma_enable, Main, Call, Do, At, In, chan, shared, hw,
           irqcx, place, client, Acts, Of
<1>w. /\ c \in Chans /\ Where
      /\ Op \in {"request", "disable", "free", "enable", "setup", "fill",
               "reset", "wait", "sent"}
      /\ cur \in Tests /\ cur \in Clients /\ cur # NULL
      /\ Chans = {0, 1} /\ Tx \in Chans /\ Rx \in Chans /\ Tx # Rx
    BY <1>a, WhereNow
<1>o. Op = "enable"
    BY <1>a
       DEF IInv, PlaceInv, RequestSteps, FreeSteps, EnableSteps, DisableSteps
<1>g. /\ step' = "none" /\ NextPlace /\ line' \in 1 .. 13 /\ PlaceInv'
    BY <1>a, GoesOn
<1>p. \A d \in Chans : Phase(d)' = Phase(d) /\ Phase(d) \in {"out", "own"}
    BY <1>a, <1>w, <1>g, <1>o
       DEF Where, Acts, Phase, Mine, AskedAt, FreedAt, First, NextPlace, Size
<1>1. TypeOK'
  <2>1. con' \in [Chans -> {"off", "run", "done"}]
    BY <1>a DEF IInv, TypeOK
  <2>2. part' \in Parts
    BY <1>g, <1>w DEF IInv, TypeOK, NextPlace, Parts
  <2>3. line' \in 1 .. 13
    BY <1>g
  <2>4. step' \in Steps
    BY <1>g DEF Steps
  <2>5. QED
    BY <1>a, <2>1, <2>2, <2>3, <2>4 DEF IInv, TypeOK
<1>2. PlaceInv'
    BY <1>g
<1>3. OwnerInv'
    BY <1>a, <1>p DEF IInv, OwnerInv, OwnerOK
<1>4. ActiveInv'
    BY <1>a, <1>w, <1>o, <1>g
       DEF IInv, TypeOK, ActiveInv, Stopped, Live, Quiet, Where, NextPlace,
           Size, Acts, RequestSteps, FreeSteps, EnableSteps, DisableSteps
<1>5. LineInv'
    BY <1>a, <1>w, <1>o, <1>g
       DEF IInv, TypeOK, LineInv, Mine, Where, NextPlace, Size, Acts, AskedAt,
           FreedAt, First
<1>6. HandlerInv'
    BY <1>a DEF IInv, HandlerInv, Live, Of
<1>7. ReportInv'
    BY <1>a, <1>w, <1>o, <1>g
       DEF IInv, TypeOK, ReportInv, Expects, ActiveInv, Quiet, Where,
           NextPlace, Size, Acts, RequestSteps, FreeSteps, EnableSteps,
           DisableSteps
<1>8. ModeInv'
    BY <1>a, <1>w, <1>o DEF IInv, TypeOK, ModeInv, Where, NextPlace, Size
<1>9. WaitInv'
    BY <1>a, <1>w, <1>g
       DEF IInv, TypeOK, WaitInv, Awaits, Where, NextPlace, Size, Acts
<1>10. QED
    BY <1>1, <1>2, <1>3, <1>4, <1>5, <1>6, <1>7, <1>8, <1>9 DEF IInv

\* panther7_hdma_disable stops the channel.
LEMMA StopStep ==
    ASSUME IInv, NEW c \in Chans, panther7_hdma_disable(c), step = "stop"
    PROVE  IInv'
<1>a. /\ isr = "none" /\ ~Pending
      /\ Acts /\ step = "stop" /\ Of = c
      /\ con' = [con EXCEPT ![c] = "off"]
      /\ Go("clearrd")
      /\ UNCHANGED <<lock, active, notifier, mode, cdma, cisr, vec, IECR,
                    flags, mask, tmp, isr, ich, istat, itmp, flag, cur, ch, t,
                    leaked, expired>>
    BY DEF panther7_hdma_disable, Main, Call, Do, At, In, chan, shared, hw,
           irqcx, place, client, Acts, Of
<1>w. /\ c \in Chans /\ Where
      /\ Op \in {"request", "disable", "free", "enable", "setup", "fill",
               "reset", "wait", "sent"}
      /\ cur \in Tests /\ cur \in Clients /\ cur # NULL
      /\ Chans = {0, 1} /\ Tx \in Chans /\ Rx \in Chans /\ Tx # Rx
    BY <1>a, WhereNow
<1>o. Op = "disable"
    BY <1>a
       DEF IInv, PlaceInv, RequestSteps, FreeSteps, EnableSteps, DisableSteps
<1>g. /\ step' = "clearrd" /\ part' = part /\ line' = line
      /\ Op' = Op /\ Of' = Of /\ Len(Script') = Len(Script)
    BY <1>a, StaysInCall DEF Steps
<1>1. TypeOK'
  <2>1. con' \in [Chans -> {"off", "run", "done"}]
    BY <1>a DEF IInv, TypeOK
  <2>2. part' \in Parts
    BY <1>g DEF IInv, TypeOK
  <2>3. line' \in 1 .. 13
    BY <1>g DEF IInv, TypeOK
  <2>4. step' \in Steps
    BY <1>g DEF Steps
  <2>5. QED
    BY <1>a, <2>1, <2>2, <2>3, <2>4 DEF IInv, TypeOK
<1>2. PlaceInv'
    BY <1>a, <1>g
       DEF IInv, PlaceInv, Acts, RequestSteps, FreeSteps, EnableSteps,
           DisableSteps
<1>3. OwnerInv'
    BY <1>a, <1>g
       DEF IInv, OwnerInv, OwnerOK, Phase, Mine, AskedAt, FreedAt, First
<1>4. ActiveInv'
    BY <1>a, <1>g
       DEF IInv, TypeOK, ActiveInv, Stopped, Live, Quiet, AskedAt, First,
           RequestSteps, FreeSteps, EnableSteps, DisableSteps
<1>5. LineInv'
    BY <1>a, <1>g DEF IInv, LineInv, Phase, Mine, AskedAt, FreedAt, First
<1>6. HandlerInv'
    BY <1>a DEF IInv, HandlerInv, Live, Of
<1>7. ReportInv'
    BY <1>a, <1>w, <1>o, <1>g
       DEF IInv, TypeOK, ReportInv, Expects, Where, NextPlace, Size, Acts
<1>8. ModeInv'
    BY <1>a, <1>g DEF IInv, ModeInv
<1>9. WaitInv'
    BY <1>g DEF IInv, WaitInv, Awaits, Reported
<1>10. QED
    BY <1>1, <1>2, <1>3, <1>4, <1>5, <1>6, <1>7, <1>8, <1>9 DEF IInv

\* panther7_hdma_disable clears the flags.
LEMMA ClearStep ==
    ASSUME IInv, NEW c \in Chans, panther7_hdma_disable(c), step = "clearwr"
    PROVE  IInv'
<1>a. /\ isr = "none" /\ ~Pending
      /\ Acts /\ step = "clearwr" /\ Of = c
      /\ flags' = (flags \cap tmp) \ FlagsOf(c)
      /\ Go("maskrd")
      /\ UNCHANGED <<lock, active, notifier, mode, cdma, cisr, vec, IECR, con,
                    mask, tmp, isr, ich, istat, itmp, flag, cur, ch, t,
                    leaked, expired>>
    BY DEF panther7_hdma_disable, Main, Call, Do, At, In, chan, shared, hw,
           irqcx, place, client, Acts, Of
<1>g. /\ step' = "maskrd" /\ part' = part /\ line' = line
      /\ Op' = Op /\ Of' = Of /\ Len(Script') = Len(Script)
    BY <1>a, StaysInCall DEF Steps
<1>1. TypeOK'
  <2>1. flags' \subseteq AllFlags
    BY <1>a DEF IInv, TypeOK
  <2>2. part' \in Parts
    BY <1>g DEF IInv, TypeOK
  <2>3. line' \in 1 .. 13
    BY <1>g DEF IInv, TypeOK
  <2>4. step' \in Steps
    BY <1>g DEF Steps
  <2>5. QED
    BY <1>a, <2>1, <2>2, <2>3, <2>4 DEF IInv, TypeOK
<1>2. PlaceInv'
    BY <1>a, <1>g
       DEF IInv, PlaceInv, Acts, RequestSteps, FreeSteps, EnableSteps,
           DisableSteps
<1>3. OwnerInv'
    BY <1>a, <1>g
       DEF IInv, OwnerInv, OwnerOK, Phase, Mine, AskedAt, FreedAt, First
<1>4. ActiveInv'
    BY <1>a, <1>g
       DEF IInv, ActiveInv, Stopped, Live, Quiet, AskedAt, First, RequestSteps,
           FreeSteps, EnableSteps, DisableSteps
<1>5. LineInv'
    BY <1>a, <1>g DEF IInv, LineInv, Phase, Mine, AskedAt, FreedAt, First
<1>6. HandlerInv'
    BY <1>a DEF IInv, HandlerInv, Live, Of
<1>7. ReportInv'
    BY <1>a, <1>g DEF IInv, ReportInv, Expects
<1>8. ModeInv'
    BY <1>a, <1>g DEF IInv, ModeInv
<1>9. WaitInv'
    BY <1>g DEF IInv, WaitInv, Awaits, Reported
<1>10. QED
    BY <1>1, <1>2, <1>3, <1>4, <1>5, <1>6, <1>7, <1>8, <1>9 DEF IInv

\* panther7_hdma_disable masks the channel.
LEMMA MaskStep ==
    ASSUME IInv, NEW c \in Chans, panther7_hdma_disable(c), step = "maskwr"
    PROVE  IInv'
<1>e. step = "maskwr" /\ Op # "free"
    BY DEF IInv, PlaceInv, DisableSteps
<1>a. /\ isr = "none" /\ ~Pending
      /\ Acts /\ step = "maskwr" /\ Of = c
      /\ flags' = flags \cap tmp
      /\ mask' = mask \cup {c}
      /\ Go("none")
      /\ UNCHANGED <<lock, active, notifier, mode, cdma, cisr, vec, IECR, con,
                    tmp, isr, ich, istat, itmp, flag, cur, ch, t, leaked, expired>>
  <2>1. /\ Do("maskwr", c, "none")
        /\ flags' = flags \cap tmp
        /\ mask' = mask \cup {c}
        /\ UNCHANGED con
        /\ UNCHANGED <<chan, shared, tmp, client>>
    BY <1>e DEF panther7_hdma_disable, Do, In, Op
  <2>2. QED
    BY <2>1 DEF Main, Do, In, chan, shared, irqcx, client, Acts, Of
<1>w. /\ c \in Chans /\ Where
      /\ Op \in {"request", "disable", "free", "enable", "setup", "fill",
               "reset", "wait", "sent"}
      /\ cur \in Tests /\ cur \in Clients /\ cur # NULL
      /\ Chans = {0, 1} /\ Tx \in Chans /\ Rx \in Chans /\ Tx # Rx
    BY <1>a, WhereNow
<1>o. Op = "disable"
    BY <1>a
       DEF IInv, PlaceInv, RequestSteps, FreeSteps, EnableSteps, DisableSteps
<1>g. /\ step' = "none" /\ NextPlace /\ line' \in 1 .. 13 /\ PlaceInv'
    BY <1>a, GoesOn
<1>p. \A d \in Chans : Phase(d)' = Phase(d) /\ Phase(d) \in {"out", "own"}
    BY <1>a, <1>w, <1>g, <1>o
       DEF Where, Acts, Phase, Mine, AskedAt, FreedAt, First, NextPlace, Size
<1>1. TypeOK'
  <2>1. flags' \subseteq AllFlags
    BY <1>a DEF IInv, TypeOK
  <2>2. mask' \subseteq Chans
    BY <1>a DEF IInv, TypeOK
  <2>3. part' \in Parts
    BY <1>g, <1>w DEF IInv, TypeOK, NextPlace, Parts
  <2>4. line' \in 1 .. 13
    BY <1>g
  <2>5. step' \in Steps
    BY <1>g DEF Steps
  <2>6. QED
    BY <1>a, <2>1, <2>2, <2>3, <2>4, <2>5 DEF IInv, TypeOK
<1>2. PlaceInv'
    BY <1>g
<1>3. OwnerInv'
    BY <1>a, <1>p DEF IInv, OwnerInv, OwnerOK
<1>4. ActiveInv'
    BY <1>a, <1>w, <1>o, <1>g
       DEF IInv, TypeOK, ActiveInv, Stopped, Live, Quiet, Where, NextPlace,
           Size, Acts, AskedAt, First, RequestSteps, FreeSteps, EnableSteps,
           DisableSteps
<1>5. LineInv'
    BY <1>a, <1>w, <1>o, <1>g
       DEF IInv, TypeOK, LineInv, Mine, Where, NextPlace, Size, Acts, AskedAt,
           FreedAt, First
<1>6. HandlerInv'
    BY <1>a DEF IInv, HandlerInv, Live, Of
<1>7. ReportInv'
    BY <1>a, <1>w, <1>o, <1>g
       DEF IInv, TypeOK, ReportInv, Expects, Where, NextPlace, Size, Acts
<1>8. ModeInv'
    BY <1>a, <1>w, <1>o, <1>g DEF IInv, TypeOK, ModeInv, Where, NextPlace, Size
<1>9. WaitInv'
    BY <1>a, <1>w, <1>o, <1>g DEF WaitInv, Awaits, Where, NextPlace, Size, Acts
<1>10. QED
    BY <1>1, <1>2, <1>3, <1>4, <1>5, <1>6, <1>7, <1>8, <1>9 DEF IInv

\* The setters of the DMA service.
LEMMA SetupStep ==
    ASSUME IInv, NEW c \in Chans, Setup(c)
    PROVE  IInv'
<1>a. /\ isr = "none" /\ ~Pending
      /\ Acts /\ step = "none" /\ Op = "setup" /\ Of = c
      /\ mode' = [mode EXCEPT ![c] = IF cur = "self" THEN "sw" ELSE "slice"]
      /\ Go("none")
      /\ UNCHANGED <<lock, active, notifier, cdma, cisr, vec, IECR, con, flags,
                    mask, tmp, isr, ich, istat, itmp, flag, cur, ch, t,
                    leaked, expired>>
    BY DEF Setup, Main, Call, Do, At, In, chan, shared, hw, irqcx, place,
           client, Acts, Op, Of
<1>w. /\ c \in Chans /\ Where
      /\ Op \in {"request", "disable", "free", "enable", "setup", "fill",
               "reset", "wait", "sent"}
      /\ cur \in Tests /\ cur \in Clients /\ cur # NULL
      /\ Chans = {0, 1} /\ Tx \in Chans /\ Rx \in Chans /\ Tx # Rx
    BY <1>a, WhereNow
<1>g. /\ step' = "none" /\ NextPlace /\ line' \in 1 .. 13 /\ PlaceInv'
    BY <1>a, GoesOn
<1>p. \A d \in Chans : Phase(d)' = Phase(d) /\ Phase(d) \in {"out", "own"}
    BY <1>a, <1>w, <1>g
       DEF Where, Acts, Phase, Mine, AskedAt, FreedAt, First, NextPlace, Size
<1>1. TypeOK'
  <2>1. mode' \in [Chans -> {"sw", "slice"}]
    BY <1>a DEF IInv, TypeOK
  <2>2. part' \in Parts
    BY <1>g, <1>w DEF IInv, TypeOK, NextPlace, Parts
  <2>3. line' \in 1 .. 13
    BY <1>g
  <2>4. step' \in Steps
    BY <1>g DEF Steps
  <2>5. QED
    BY <1>a, <2>1, <2>2, <2>3, <2>4 DEF IInv, TypeOK
<1>2. PlaceInv'
    BY <1>g
<1>3. OwnerInv'
    BY <1>a, <1>p DEF IInv, OwnerInv, OwnerOK
<1>4. ActiveInv'
    BY <1>a, <1>w, <1>g
       DEF IInv, TypeOK, ActiveInv, Stopped, Live, Quiet, Where, NextPlace,
           Size, Acts, RequestSteps, FreeSteps, EnableSteps, DisableSteps
<1>5. LineInv'
    BY <1>a, <1>w, <1>g
       DEF IInv, TypeOK, LineInv, Mine, Where, NextPlace, Size, Acts, AskedAt,
           FreedAt, First
<1>6. HandlerInv'
    BY <1>a DEF IInv, HandlerInv, Live, Of
<1>7. ReportInv'
    BY <1>a, <1>w, <1>g
       DEF IInv, TypeOK, ReportInv, Expects, Where, NextPlace, Size, Acts
<1>8. ModeInv'
    BY <1>a, <1>w, <1>g DEF IInv, TypeOK, ModeInv, Where, NextPlace, Size
<1>9. WaitInv'
    BY <1>a, <1>w, <1>g DEF WaitInv, Awaits, Where, NextPlace, Size, Acts
<1>10. QED
    BY <1>1, <1>2, <1>3, <1>4, <1>5, <1>6, <1>7, <1>8, <1>9 DEF IInv

\* The buffers are filled.
LEMMA FillStep ==
    ASSUME IInv, NEW c \in Chans, Fill(c)
    PROVE  IInv'
<1>a. /\ isr = "none" /\ ~Pending
      /\ Acts /\ step = "none" /\ Op = "fill" /\ Of = c
      /\ Go("none")
      /\ UNCHANGED <<lock, active, notifier, mode, cdma, cisr, vec, IECR, con,
                    flags, mask, tmp, isr, ich, istat, itmp, flag, cur, ch, t,
                    leaked, expired>>
    BY DEF Fill, Main, Call, Do, At, In, chan, shared, hw, irqcx, place,
           client, Acts, Op, Of
<1>w. /\ c \in Chans /\ Where
      /\ Op \in {"request", "disable", "free", "enable", "setup", "fill",
               "reset", "wait", "sent"}
      /\ cur \in Tests /\ cur \in Clients /\ cur # NULL
      /\ Chans = {0, 1} /\ Tx \in Chans /\ Rx \in Chans /\ Tx # Rx
    BY <1>a, WhereNow
<1>g. /\ step' = "none" /\ NextPlace /\ line' \in 1 .. 13 /\ PlaceInv'
    BY <1>a, GoesOn
<1>p. \A d \in Chans : Phase(d)' = Phase(d) /\ Phase(d) \in {"out", "own"}
    BY <1>a, <1>w, <1>g
       DEF Where, Acts, Phase, Mine, AskedAt, FreedAt, First, NextPlace, Size
<1>1. TypeOK'
  <2>1. part' \in Parts
    BY <1>g, <1>w DEF IInv, TypeOK, NextPlace, Parts
  <2>2. line' \in 1 .. 13
    BY <1>g
  <2>3. step' \in Steps
    BY <1>g DEF Steps
  <2>4. QED
    BY <1>a, <2>1, <2>2, <2>3 DEF IInv, TypeOK
<1>2. PlaceInv'
    BY <1>g
<1>3. OwnerInv'
    BY <1>a, <1>p DEF IInv, OwnerInv, OwnerOK
<1>4. ActiveInv'
    BY <1>a, <1>w, <1>g
       DEF IInv, TypeOK, ActiveInv, Stopped, Live, Quiet, Where, NextPlace,
           Size, Acts, RequestSteps, FreeSteps, EnableSteps, DisableSteps
<1>5. LineInv'
    BY <1>a, <1>w, <1>g
       DEF IInv, TypeOK, LineInv, Mine, Where, NextPlace, Size, Acts, AskedAt,
           FreedAt, First
<1>6. HandlerInv'
    BY <1>a DEF IInv, HandlerInv, Live, Of
<1>7. ReportInv'
    BY <1>a, <1>w, <1>g
       DEF IInv, TypeOK, ReportInv, Expects, Where, NextPlace, Size, Acts
<1>8. ModeInv'
    BY <1>a, <1>w, <1>g DEF IInv, TypeOK, ModeInv, Where, NextPlace, Size
<1>9. WaitInv'
    BY <1>a, <1>w, <1>g DEF WaitInv, Awaits, Where, NextPlace, Size, Acts
<1>10. QED
    BY <1>1, <1>2, <1>3, <1>4, <1>5, <1>6, <1>7, <1>8, <1>9 DEF IInv

\* The test resets its flags.
LEMMA ResetStep ==
    ASSUME IInv, NEW c \in Chans, Reset(c)
    PROVE  IInv'
<1>a. /\ isr = "none" /\ ~Pending
      /\ Acts /\ step = "none" /\ Op = "reset" /\ Of = c
      /\ flag' = [flag EXCEPT ![cur] = [d \in Chans |-> 0]]
      /\ Go("none")
      /\ UNCHANGED <<lock, active, notifier, mode, cdma, cisr, vec, IECR, con,
                    flags, mask, tmp, isr, ich, istat, itmp, cur, ch, t,
                    leaked, expired>>
    BY DEF Reset, Main, Call, Do, At, In, chan, shared, hw, irqcx, place,
           client, Acts, Op, Of
<1>w. /\ c \in Chans /\ Where
      /\ Op \in {"request", "disable", "free", "enable", "setup", "fill",
               "reset", "wait", "sent"}
      /\ cur \in Tests /\ cur \in Clients /\ cur # NULL
      /\ Chans = {0, 1} /\ Tx \in Chans /\ Rx \in Chans /\ Tx # Rx
    BY <1>a, WhereNow
<1>g. /\ step' = "none" /\ NextPlace /\ line' \in 1 .. 13 /\ PlaceInv'
    BY <1>a, GoesOn
<1>p. \A d \in Chans : Phase(d)' = Phase(d) /\ Phase(d) \in {"out", "own"}
    BY <1>a, <1>w, <1>g
       DEF Where, Acts, Phase, Mine, AskedAt, FreedAt, First, NextPlace, Size
<1>1. TypeOK'
  <2>1. part' \in Parts
    BY <1>g, <1>w DEF IInv, TypeOK, NextPlace, Parts
  <2>2. line' \in 1 .. 13
    BY <1>g
  <2>3. step' \in Steps
    BY <1>g DEF Steps
  <2>4. flag' \in [Clients -> [Chans -> {0, 1}]]
    BY <1>a, <1>w DEF IInv, TypeOK
  <2>5. QED
    BY <1>a, <2>1, <2>2, <2>3, <2>4 DEF IInv, TypeOK
<1>2. PlaceInv'
    BY <1>g
<1>3. OwnerInv'
    BY <1>a, <1>p DEF IInv, OwnerInv, OwnerOK
<1>4. ActiveInv'
    BY <1>a, <1>w, <1>g
       DEF IInv, TypeOK, ActiveInv, Stopped, Live, Quiet, Where, NextPlace,
           Size, Acts, RequestSteps, FreeSteps, EnableSteps, DisableSteps
<1>5. LineInv'
    BY <1>a, <1>w, <1>g
       DEF IInv, TypeOK, LineInv, Mine, Where, NextPlace, Size, Acts, AskedAt,
           FreedAt, First
<1>6. HandlerInv'
    BY <1>a DEF IInv, HandlerInv, Live, Of
<1>7. ReportInv'
    BY <1>a, <1>w
       DEF IInv, TypeOK, ReportInv, Expects, ActiveInv, Quiet, Stopped, Live,
           Where, NextPlace, Size, Acts
<1>8. ModeInv'
    BY <1>a, <1>w, <1>g DEF IInv, TypeOK, ModeInv, Where, NextPlace, Size
<1>9. WaitInv'
    BY <1>a, <1>w, <1>g DEF WaitInv, Awaits, Where, NextPlace, Size, Acts
<1>10. QED
    BY <1>1, <1>2, <1>3, <1>4, <1>5, <1>6, <1>7, <1>8, <1>9 DEF IInv

\* sq_wait_for_int finds the flag set, or times out.
LEMMA WaitStep ==
    ASSUME IInv, NEW c \in Chans, sq_wait_for_int(c),
           flag[cur][c] = 1 \/ (t >= Threshold /\ ~(cur = "slave" /\ c = 0))
    PROVE  IInv'
<1>e. /\ t \in Nat /\ Threshold \in Nat
      /\ ~(t >= Threshold /\ t < Threshold)
    BY HdmaAssumption DEF IInv, TypeOK, HdmaAssumption
<1>a. /\ isr = "none" /\ ~Pending
      /\ Acts /\ step = "none" /\ Op = "wait" /\ Of = c
      /\ t' = 0
      /\ flag' = IF flag[cur][c] = 1 THEN [flag EXCEPT ![cur][c] = 0] ELSE flag
      /\ Go("none")
      /\ UNCHANGED <<lock, active, notifier, mode, cdma, cisr, vec, IECR, con,
                    flags, mask, tmp, isr, ich, istat, itmp, cur, ch, leaked>>
      /\ expired' \in BOOLEAN
  <2>0. expired' = expired \/ expired' = (expired \/ cur = "pair")
    BY <1>e DEF sq_wait_for_int
  <2>1. /\ Main /\ At("wait", c) /\ Go("none") /\ t' = 0 /\ leaked' = leaked
        /\ flag' = IF flag[cur][c] = 1
                     THEN [flag EXCEPT ![cur][c] = 0] ELSE flag
    BY <1>e DEF sq_wait_for_int
  <2>2. UNCHANGED <<chan, shared, hw, tmp, cur, ch>>
    BY DEF sq_wait_for_int
  <2>3. expired' \in BOOLEAN
    BY <2>0 DEF IInv, TypeOK
  <2>4. QED
    BY <2>1, <2>2, <2>3 DEF Main, At, chan, shared, hw, irqcx, Acts, Op, Of
<1>w. /\ c \in Chans /\ Where
      /\ Op \in {"request", "disable", "free", "enable", "setup", "fill",
               "reset", "wait", "sent"}
      /\ cur \in Tests /\ cur \in Clients /\ cur # NULL
      /\ Chans = {0, 1} /\ Tx \in Chans /\ Rx \in Chans /\ Tx # Rx
    BY <1>a, WhereNow
<1>g. /\ step' = "none" /\ NextPlace /\ line' \in 1 .. 13 /\ PlaceInv'
    BY <1>a, GoesOn
<1>p. \A d \in Chans : Phase(d)' = Phase(d) /\ Phase(d) \in {"out", "own"}
    BY <1>a, <1>w, <1>g
       DEF Where, Acts, Phase, Mine, AskedAt, FreedAt, First, NextPlace, Size
<1>1. TypeOK'
  <2>1. part' \in Parts
    BY <1>g, <1>w DEF IInv, TypeOK, NextPlace, Parts
  <2>2. line' \in 1 .. 13
    BY <1>g
  <2>3. step' \in Steps
    BY <1>g DEF Steps
  <2>4. flag' \in [Clients -> [Chans -> {0, 1}]]
    BY <1>a, <1>w DEF IInv, TypeOK
  <2>5. t' \in 0 .. Threshold
    BY <1>a, <1>e
  <2>6. QED
    BY <1>a, <2>1, <2>2, <2>3, <2>4, <2>5 DEF IInv, TypeOK
<1>2. PlaceInv'
    BY <1>g
<1>3. OwnerInv'
    BY <1>a, <1>p DEF IInv, OwnerInv, OwnerOK
<1>4. ActiveInv'
    BY <1>a, <1>w, <1>g
       DEF IInv, TypeOK, ActiveInv, Stopped, Live, Quiet, Where, NextPlace,
           Size, Acts, RequestSteps, FreeSteps, EnableSteps, DisableSteps
<1>5. LineInv'
    BY <1>a, <1>w, <1>g
       DEF IInv, TypeOK, LineInv, Mine, Where, NextPlace, Size, Acts, AskedAt,
           FreedAt, First
<1>6. HandlerInv'
    BY <1>a DEF IInv, HandlerInv, Live, Of
<1>7. ReportInv'
    BY <1>a, <1>w, <1>g
       DEF IInv, TypeOK, ReportInv, Expects, Where, NextPlace, Size, Acts
<1>8. ModeInv'
    BY <1>a, <1>w DEF IInv, TypeOK, ModeInv, Where, NextPlace, Size
<1>9. WaitInv'
    BY <1>a, <1>w, <1>g DEF WaitInv, Awaits, Where, NextPlace, Size, Acts
<1>10. QED
    BY <1>1, <1>2, <1>3, <1>4, <1>5, <1>6, <1>7, <1>8, <1>9 DEF IInv

\* sq_wait_for_int polls again.
LEMMA PollStep ==
    ASSUME IInv, NEW c \in Chans, sq_wait_for_int(c),
           flag[cur][c] # 1 /\ t < Threshold
    PROVE  IInv'
<1>e. /\ t \in Nat /\ Threshold \in Nat
      /\ ~(t >= Threshold /\ t < Threshold)
    BY HdmaAssumption DEF IInv, TypeOK, HdmaAssumption
<1>a. /\ isr = "none" /\ ~Pending
      /\ Acts /\ step = "none" /\ Op = "wait" /\ Of = c
      /\ t' = t + 1 /\ t < Threshold
      /\ UNCHANGED <<lock, active, notifier, mode, cdma, cisr, vec, IECR, con,
                    flags, mask, tmp, isr, ich, istat, itmp, part, line, step,
                    flag, cur, ch, leaked, expired>>
  <2>1. /\ Main /\ At("wait", c) /\ t < Threshold /\ t' = t + 1
        /\ UNCHANGED <<flag, leaked, expired, place>>
    BY <1>e DEF sq_wait_for_int
  <2>2. UNCHANGED <<chan, shared, hw, tmp, cur, ch>>
    BY DEF sq_wait_for_int
  <2>3. QED
    BY <2>1, <2>2 DEF Main, At, chan, shared, hw, irqcx, place, Acts, Op, Of
<1>w. /\ c \in Chans /\ Where
      /\ Op \in {"request", "disable", "free", "enable", "setup", "fill",
               "reset", "wait", "sent"}
      /\ cur \in Tests /\ cur \in Clients /\ cur # NULL
      /\ Chans = {0, 1} /\ Tx \in Chans /\ Rx \in Chans /\ Tx # Rx
    BY <1>a, WhereNow
<1>g. Op' = Op /\ Of' = Of /\ Script' = Script
    BY <1>a DEF Op, Of, Script
<1>1. TypeOK'
  <2>1. t' \in 0 .. Threshold
    BY <1>a, <1>e
  <2>2. QED
    BY <1>a, <2>1 DEF IInv, TypeOK
<1>2. PlaceInv'
    BY <1>a, <1>w, <1>g DEF IInv, PlaceInv, Acts, Op
<1>3. OwnerInv'
    BY <1>a DEF IInv, OwnerInv, OwnerOK, Phase, Mine, AskedAt, FreedAt, First
<1>4. ActiveInv'
    BY <1>a, <1>w, <1>g
       DEF IInv, ActiveInv, Stopped, Live, Quiet, AskedAt, First
<1>5. LineInv'
    BY <1>a DEF IInv, LineInv, Phase, Mine, AskedAt, FreedAt, First, Second
<1>6. HandlerInv'
    BY <1>a DEF IInv, HandlerInv, Live, Of
<1>7. ReportInv'
    BY <1>a DEF IInv, ReportInv, Expects
<1>8. ModeInv'
    BY <1>a DEF IInv, ModeInv
<1>9. WaitInv'
    BY <1>a DEF IInv, WaitInv, Awaits, Reported
<1>10. QED
    BY <1>1, <1>2, <1>3, <1>4, <1>5, <1>6, <1>7, <1>8, <1>9 DEF IInv

\* The wait of the slave for channel 0 times out.
LEMMA GiveUpStep ==
    ASSUME IInv, NEW c \in Chans, sq_wait_for_int(c),
           flag[cur][c] # 1 /\ t >= Threshold /\ cur = "slave" /\ c = 0
    PROVE  IInv'
<1>e. /\ t \in Nat /\ Threshold \in Nat
      /\ ~(t >= Threshold /\ t < Threshold)
    BY HdmaAssumption DEF IInv, TypeOK, HdmaAssumption
<1>a. /\ isr = "none" /\ ~Pending
      /\ Acts /\ step = "none" /\ Op = "wait" /\ Of = c
      /\ t' = 0
      /\ part' = "idle" /\ line' = 1 /\ step' = "none"
      /\ cur = "slave"
      /\ leaked' = {d \in Chans : notifier[d] = cur}
      /\ UNCHANGED <<lock, active, notifier, mode, cdma, cisr, vec, IECR, con,
                    flags, mask, tmp, isr, ich, istat, itmp, flag, cur, ch,
                    expired>>
  <2>0. expired' = (expired \/ cur = "pair")
    BY <1>e DEF sq_wait_for_int
  <2>1. Main /\ At("wait", c) /\ t' = 0 /\ UNCHANGED flag /\ Return
    BY <1>e DEF sq_wait_for_int
  <2>2. UNCHANGED <<chan, shared, hw, tmp, cur, ch>>
    BY DEF sq_wait_for_int
  <2>3. QED
    BY <2>0, <2>1, <2>2
       DEF Main, At, Return, chan, shared, hw, irqcx, Acts, Op, Of, IInv, TypeOK
<1>w. /\ c \in Chans /\ Where
      /\ Op \in {"request", "disable", "free", "enable", "setup", "fill",
               "reset", "wait", "sent"}
      /\ cur \in Tests /\ cur \in Clients /\ cur # NULL
      /\ Chans = {0, 1} /\ Tx \in Chans /\ Rx \in Chans /\ Tx # Rx
    BY <1>a, WhereIs, HdmaAssumption
       DEF IInv, TypeOK, PlaceInv, HdmaAssumption, Chans, NULL
<1>p. \A d \in Chans : Phase(d)' = "out" /\ Phase(d) = "own"
    BY <1>a, <1>w DEF Where, Phase, Mine, AskedAt, FreedAt, First
<1>1. TypeOK'
  <2>1. t' \in 0 .. Threshold
    BY <1>a, <1>e
  <2>2. part' \in Parts
    BY <1>a DEF Parts
  <2>3. line' \in 1 .. 13
    BY <1>a
  <2>4. step' \in Steps
    BY <1>a DEF Steps
  <2>5. leaked' \subseteq Chans
    BY <1>a
  <2>6. QED
    BY <1>a, <2>1, <2>2, <2>3, <2>4, <2>5 DEF IInv, TypeOK
<1>2. PlaceInv'
    BY <1>a DEF IInv, PlaceInv, Acts, Op
<1>3. OwnerInv'
  <2> SUFFICES ASSUME NEW d \in Chans PROVE OwnerOK(d)'
    BY DEF OwnerInv
  <2>1. OwnerOK(d) /\ Phase(d) = "own" /\ Phase(d)' = "out" /\ cur = "slave"
    BY <1>a, <1>w, <1>p DEF IInv, OwnerInv, Where
  <2>2. d \in leaked' /\ notifier[d] = "slave" /\ lock[d]
    BY <1>a, <2>1 DEF OwnerOK
  <2>3. QED
    BY <1>a, <2>1, <2>2 DEF OwnerOK
<1>4. ActiveInv'
    BY <1>a
       DEF IInv, ActiveInv, Stopped, Live, Quiet, RequestSteps, FreeSteps,
           EnableSteps, DisableSteps
<1>5. LineInv'
    BY <1>a, <1>w, <1>p DEF IInv, LineInv, Where, OwnerInv, OwnerOK
<1>6. HandlerInv'
    BY <1>a DEF IInv, HandlerInv, Live, Of
<1>7. ReportInv'
    BY <1>a DEF IInv, ReportInv, Expects
<1>8. ModeInv'
    BY <1>a DEF IInv, ModeInv
<1>9. WaitInv'
    BY <1>a DEF IInv, WaitInv, Awaits, Reported
<1>10. QED
    BY <1>1, <1>2, <1>3, <1>4, <1>5, <1>6, <1>7, <1>8, <1>9 DEF IInv

\* The FIFO of the slave has run empty.
LEMMA SentStep ==
    ASSUME IInv, NEW c \in Chans, WaitSent(c), ~Return
    PROVE  IInv'
<1>a. /\ isr = "none" /\ ~Pending
      /\ Acts /\ step = "none" /\ Op = "sent" /\ Of = c
      /\ Go("none")
      /\ UNCHANGED <<lock, active, notifier, mode, cdma, cisr, vec, IECR, con,
                    flags, mask, tmp, isr, ich, istat, itmp, flag, cur, ch, t,
                    leaked, expired>>
    BY DEF WaitSent, Main, Call, Do, At, In, chan, shared, hw, irqcx, place,
           client, Acts, Op, Of
<1>w. /\ c \in Chans /\ Where
      /\ Op \in {"request", "disable", "free", "enable", "setup", "fill",
               "reset", "wait", "sent"}
      /\ cur \in Tests /\ cur \in Clients /\ cur # NULL
      /\ Chans = {0, 1} /\ Tx \in Chans /\ Rx \in Chans /\ Tx # Rx
    BY <1>a, WhereNow
<1>g. /\ step' = "none" /\ NextPlace /\ line' \in 1 .. 13 /\ PlaceInv'
    BY <1>a, GoesOn
<1>p. \A d \in Chans : Phase(d)' = Phase(d) /\ Phase(d) \in {"out", "own"}
    BY <1>a, <1>w, <1>g
       DEF Where, Acts, Phase, Mine, AskedAt, FreedAt, First, NextPlace, Size
<1>1. TypeOK'
  <2>1. part' \in Parts
    BY <1>g, <1>w DEF IInv, TypeOK, NextPlace, Parts
  <2>2. line' \in 1 .. 13
    BY <1>g
  <2>3. step' \in Steps
    BY <1>g DEF Steps
  <2>4. QED
    BY <1>a, <2>1, <2>2, <2>3 DEF IInv, TypeOK
<1>2. PlaceInv'
    BY <1>g
<1>3. OwnerInv'
    BY <1>a, <1>p DEF IInv, OwnerInv, OwnerOK
<1>4. ActiveInv'
    BY <1>a, <1>w, <1>g
       DEF IInv, TypeOK, ActiveInv, Stopped, Live, Quiet, Where, NextPlace,
           Size, Acts
<1>5. LineInv'
    BY <1>a, <1>w, <1>g
       DEF IInv, TypeOK, LineInv, Mine, Where, NextPlace, Size, Acts, AskedAt,
           FreedAt, First
<1>6. HandlerInv'
    BY <1>a DEF IInv, HandlerInv, Live, Of
<1>7. ReportInv'
    BY <1>a, <1>w, <1>g
       DEF IInv, TypeOK, ReportInv, Expects, Where, NextPlace, Size, Acts
<1>8. ModeInv'
    BY <1>a, <1>w DEF IInv, TypeOK, ModeInv, Where, NextPlace, Size
<1>9. WaitInv'
    BY <1>a, <1>w, <1>g DEF WaitInv, Awaits, Where, NextPlace, Size, Acts
<1>10. QED
    BY <1>1, <1>2, <1>3, <1>4, <1>5, <1>6, <1>7, <1>8, <1>9 DEF IInv

\* The wait for it times out.
LEMMA NotSentStep ==
    ASSUME IInv, NEW c \in Chans, WaitSent(c), Return
    PROVE  IInv'
<1>a. /\ isr = "none" /\ ~Pending
      /\ Acts /\ step = "none" /\ Op = "sent" /\ Of = c
      /\ part' = "idle" /\ line' = 1 /\ step' = "none"
      /\ leaked' = {d \in Chans : notifier[d] = cur}
      /\ UNCHANGED <<lock, active, notifier, mode, cdma, cisr, vec, IECR, con,
                    flags, mask, tmp, isr, ich, istat, itmp, flag, cur, ch, t,
                    expired>>
    BY DEF WaitSent, Return, Main, Call, Do, At, In, chan, shared, hw, irqcx,
           place, client, Acts, Op, Of
<1>w. /\ c \in Chans /\ Where
      /\ Op \in {"request", "disable", "free", "enable", "setup", "fill",
               "reset", "wait", "sent"}
      /\ cur \in Tests /\ cur \in Clients /\ cur # NULL
      /\ Chans = {0, 1} /\ Tx \in Chans /\ Rx \in Chans /\ Tx # Rx
    BY <1>a, WhereNow
<1>p. \A d \in Chans : Phase(d)' = "out" /\ Phase(d) = "own"
    BY <1>a, <1>w DEF Where, Phase, Mine, AskedAt, FreedAt, First
<1>1. TypeOK'
  <2>1. part' \in Parts
    BY <1>a DEF Parts
  <2>2. line' \in 1 .. 13
    BY <1>a
  <2>3. step' \in Steps
    BY <1>a DEF Steps
  <2>4. leaked' \subseteq Chans
    BY <1>a
  <2>5. QED
    BY <1>a, <2>1, <2>2, <2>3, <2>4 DEF IInv, TypeOK
<1>2. PlaceInv'
    BY <1>a DEF IInv, PlaceInv, Acts, Op
<1>3. OwnerInv'
  <2> SUFFICES ASSUME NEW d \in Chans PROVE OwnerOK(d)'
    BY DEF OwnerInv
  <2>1. OwnerOK(d) /\ Phase(d) = "own" /\ Phase(d)' = "out" /\ cur = "slave"
    BY <1>a, <1>w, <1>p DEF IInv, OwnerInv, Where
  <2>2. d \in leaked' /\ notifier[d] = "slave" /\ lock[d]
    BY <1>a, <2>1 DEF OwnerOK
  <2>3. QED
    BY <1>a, <2>1, <2>2 DEF OwnerOK
<1>4. ActiveInv'
    BY <1>a
       DEF IInv, ActiveInv, Stopped, Live, Quiet, RequestSteps, FreeSteps,
           EnableSteps, DisableSteps
<1>5. LineInv'
    BY <1>a, <1>w, <1>p DEF IInv, LineInv, Where, OwnerInv, OwnerOK
<1>6. HandlerInv'
    BY <1>a DEF IInv, HandlerInv, Live, Of
<1>7. ReportInv'
    BY <1>a DEF IInv, ReportInv, Expects
<1>8. ModeInv'
    BY <1>a DEF IInv, ModeInv
<1>9. WaitInv'
    BY <1>a DEF IInv, WaitInv, Awaits, Reported
<1>10. QED
    BY <1>1, <1>2, <1>3, <1>4, <1>5, <1>6, <1>7, <1>8, <1>9 DEF IInv

\* irq_dispatch enters the handler.
LEMMA DispatchStep ==
    ASSUME IInv, irq_dispatch
    PROVE  IInv'
<1>a. /\ isr = "none" /\ isr' = "read" /\ ich' = 0
      /\ Pending /\ vec
      /\ UNCHANGED <<lock, active, notifier, mode, cdma, cisr, vec, IECR, con,
                    flags, mask, tmp, istat, itmp, part, line, step, flag,
                    cur, ch, t, leaked, expired>>
    BY DEF irq_dispatch, chan, shared, hw, irqcx, place, client
<1>g. Op' = Op /\ Of' = Of /\ Script' = Script
    BY <1>a DEF Op, Of, Script
<1>1. TypeOK'
  <2>1. isr' \in {"none", "read", "reread", "write", "notify"}
    BY <1>a
  <2>2. ich' \in Chans
    BY <1>a DEF IInv, TypeOK, AllFlags, FlagsOf, Kinds, Chans
  <2>3. QED
    BY <1>a, <2>1, <2>2 DEF IInv, TypeOK
<1>2. PlaceInv'
    BY <1>a, <1>g DEF IInv, PlaceInv, Acts, Op
<1>3. OwnerInv'
    BY <1>a DEF IInv, OwnerInv, OwnerOK, Phase, Mine, AskedAt, FreedAt, First
<1>4. ActiveInv'
    BY <1>a, <1>g DEF IInv, ActiveInv, Stopped, Live, Quiet, AskedAt, First
<1>5. LineInv'
    BY <1>a DEF IInv, LineInv, Phase, Mine, AskedAt, FreedAt, First
<1>6. HandlerInv'
  <2>1. flags # {}
    BY <1>a DEF Pending
  <2>2. \E d \in Chans : Live(d)
    BY <2>1, FlagOfLive
  <2>3. Live(0) = Live(0)' /\ Live(1) = Live(1)'
    BY <1>a, <1>g DEF Live
  <2>4. \E d \in Chans : Live(d)'
    BY <2>2, <2>3 DEF Chans
  <2>5. QED
    BY <1>a, <2>4 DEF HandlerInv, Pending
<1>7. ReportInv'
    BY <1>a DEF IInv, ReportInv, Expects
<1>8. ModeInv'
    BY <1>a DEF IInv, ModeInv
<1>9. WaitInv'
  <2> SUFFICES ASSUME NEW d \in Chans, leaked = {}, Awaits(d)
               PROVE  /\ con[d] = "done" /\ (Reported(d) => Reported(d)')
    BY <1>a DEF IInv, WaitInv, Awaits, Reported
  <2>1. flags # {}
    BY <1>a DEF Pending
  <2>2. QED
    BY <1>a, <2>1, WaitsAlone DEF Reported
<1>10. QED
    BY <1>1, <1>2, <1>3, <1>4, <1>5, <1>6, <1>7, <1>8, <1>9 DEF IInv

\* panther7_hdma_isr passes over a channel.
LEMMA PassOverStep ==
    ASSUME IInv, IsrRead, ~cdma[ich]
    PROVE  IInv'
<1>a. /\ isr = "read" /\ ~cdma[ich] /\ ich' = 1
      /\ isr' = IF ich = 0 THEN "read" ELSE "none"
      /\ UNCHANGED <<lock, active, notifier, mode, cdma, cisr, vec, IECR, con,
                    flags, mask, tmp, istat, itmp, part, line, step, flag,
                    cur, ch, t, leaked, expired>>
    BY DEF IsrRead, NextChannel, chan, shared, hw, irqcx, place, client
<1>g. Op' = Op /\ Of' = Of /\ Script' = Script
    BY <1>a DEF Op, Of, Script
<1>1. TypeOK'
  <2>1. isr' \in {"none", "read", "reread", "write", "notify"}
    BY <1>a
  <2>2. ich' \in Chans
    BY <1>a DEF IInv, TypeOK, AllFlags, FlagsOf, Kinds, Chans
  <2>3. QED
    BY <1>a, <2>1, <2>2 DEF IInv, TypeOK
<1>2. PlaceInv'
    BY <1>a, <1>g DEF IInv, PlaceInv, Acts, Op
<1>3. OwnerInv'
    BY <1>a DEF IInv, OwnerInv, OwnerOK, Phase, Mine, AskedAt, FreedAt, First
<1>4. ActiveInv'
    BY <1>a, <1>g DEF IInv, ActiveInv, Stopped, Live, Quiet, AskedAt, First
<1>5. LineInv'
    BY <1>a DEF IInv, LineInv, Phase, Mine, AskedAt, FreedAt, First, Second
<1>6. HandlerInv'
    BY <1>a, <1>g DEF IInv, HandlerInv, Live, Of
<1>7. ReportInv'
    BY <1>a DEF IInv, ReportInv, Expects
<1>8. ModeInv'
    BY <1>a DEF IInv, ModeInv
<1>9. WaitInv'
    BY <1>a DEF IInv, WaitInv, Awaits, Reported
<1>10. QED
    BY <1>1, <1>2, <1>3, <1>4, <1>5, <1>6, <1>7, <1>8, <1>9 DEF IInv

\* The handler reads the flags of a channel.
LEMMA IsrReadStep ==
    ASSUME IInv, IsrRead, cdma[ich]
    PROVE  IInv'
<1>a. /\ isr = "read" /\ isr' = "reread"
      /\ istat' = flags \cap FlagsOf(ich)
      /\ UNCHANGED <<lock, active, notifier, mode, cdma, cisr, vec, IECR, con,
                    flags, mask, tmp, ich, itmp, part, line, step, flag, cur,
                    ch, t, leaked, expired>>
    BY DEF IsrRead, chan, shared, hw, irqcx, place, client
<1>g. Op' = Op /\ Of' = Of /\ Script' = Script
    BY <1>a DEF Op, Of, Script
<1>1. TypeOK'
  <2>1. isr' \in {"none", "read", "reread", "write", "notify"}
    BY <1>a
  <2>2. istat' \subseteq AllFlags
    BY <1>a DEF IInv, TypeOK
  <2>3. QED
    BY <1>a, <2>1, <2>2 DEF IInv, TypeOK
<1>2. PlaceInv'
    BY <1>a, <1>g DEF IInv, PlaceInv, Acts, Op
<1>3. OwnerInv'
    BY <1>a DEF IInv, OwnerInv, OwnerOK, Phase, Mine, AskedAt, FreedAt, First
<1>4. ActiveInv'
    BY <1>a, <1>g DEF IInv, ActiveInv, Stopped, Live, Quiet, AskedAt, First
<1>5. LineInv'
    BY <1>a DEF IInv, LineInv, Phase, Mine, AskedAt, FreedAt, First, Second
<1>6. HandlerInv'
    BY <1>a, <1>g DEF IInv, TypeOK, HandlerInv, Live, ActiveInv, Quiet
<1>7. ReportInv'
    BY <1>a DEF IInv, ReportInv, Expects
<1>8. ModeInv'
    BY <1>a DEF IInv, ModeInv
<1>9. WaitInv'
    BY <1>a DEF IInv, WaitInv, Awaits, Reported
<1>10. QED
    BY <1>1, <1>2, <1>3, <1>4, <1>5, <1>6, <1>7, <1>8, <1>9 DEF IInv

\* It reads the register for the write back.
LEMMA IsrRereadStep ==
    ASSUME IInv, IsrReread
    PROVE  IInv'
<1>a. /\ isr = "reread" /\ isr' = "write"
      /\ itmp' = flags
      /\ UNCHANGED <<lock, active, notifier, mode, cdma, cisr, vec, IECR, con,
                    flags, mask, tmp, ich, istat, part, line, step, flag, cur,
                    ch, t, leaked, expired>>
    BY DEF IsrReread, chan, shared, hw, irqcx, place, client
<1>g. Op' = Op /\ Of' = Of /\ Script' = Script
    BY <1>a DEF Op, Of, Script
<1>1. TypeOK'
  <2>1. isr' \in {"none", "read", "reread", "write", "notify"}
    BY <1>a
  <2>2. itmp' \subseteq AllFlags
    BY <1>a DEF IInv, TypeOK
  <2>3. QED
    BY <1>a, <2>1, <2>2 DEF IInv, TypeOK
<1>2. PlaceInv'
    BY <1>a, <1>g DEF IInv, PlaceInv, Acts, Op
<1>3. OwnerInv'
    BY <1>a DEF IInv, OwnerInv, OwnerOK, Phase, Mine, AskedAt, FreedAt, First
<1>4. ActiveInv'
    BY <1>a, <1>g DEF IInv, ActiveInv, Stopped, Live, Quiet, AskedAt, First
<1>5. LineInv'
    BY <1>a DEF IInv, LineInv, Phase, Mine, AskedAt, FreedAt, First, Second
<1>6. HandlerInv'
    BY <1>a, <1>g DEF IInv, HandlerInv, Live, Of
<1>7. ReportInv'
    BY <1>a DEF IInv, ReportInv, Expects
<1>8. ModeInv'
    BY <1>a DEF IInv, ModeInv
<1>9. WaitInv'
    BY <1>a DEF IInv, WaitInv, Awaits, Reported
<1>10. QED
    BY <1>1, <1>2, <1>3, <1>4, <1>5, <1>6, <1>7, <1>8, <1>9 DEF IInv

\* It writes it back.
LEMMA IsrWriteStep ==
    ASSUME IInv, IsrWrite
    PROVE  IInv'
<1>a. /\ isr = "write" /\ isr' = "notify"
      /\ flags' = flags \cap (itmp \ istat)
      /\ UNCHANGED <<lock, active, notifier, mode, cdma, cisr, vec, IECR, con,
                    mask, tmp, ich, istat, itmp, part, line, step, flag, cur,
                    ch, t, leaked, expired>>
    BY DEF IsrWrite, chan, shared, hw, irqcx, place, client
<1>g. Op' = Op /\ Of' = Of /\ Script' = Script
    BY <1>a DEF Op, Of, Script
<1>1. TypeOK'
  <2>1. isr' \in {"none", "read", "reread", "write", "notify"}
    BY <1>a
  <2>2. flags' \subseteq AllFlags
    BY <1>a DEF IInv, TypeOK
  <2>3. QED
    BY <1>a, <2>1, <2>2 DEF IInv, TypeOK
<1>2. PlaceInv'
    BY <1>a, <1>g DEF IInv, PlaceInv, Acts, Op
<1>3. OwnerInv'
    BY <1>a DEF IInv, OwnerInv, OwnerOK, Phase, Mine, AskedAt, FreedAt, First
<1>4. ActiveInv'
    BY <1>a, <1>g DEF IInv, ActiveInv, Stopped, Live, Quiet, AskedAt, First
<1>5. LineInv'
    BY <1>a DEF IInv, LineInv, Phase, Mine, AskedAt, FreedAt, First, Second
<1>6. HandlerInv'
    BY <1>a, <1>g DEF IInv, HandlerInv, Live, Of
<1>7. ReportInv'
    BY <1>a DEF IInv, ReportInv, Expects
<1>8. ModeInv'
    BY <1>a DEF IInv, ModeInv
<1>9. WaitInv'
  <2> SUFFICES ASSUME NEW d \in Chans, leaked = {}, Awaits(d)
               PROVE  /\ con[d] = "done" => Reported(d)'
                      /\ con[d] = "done"
    BY <1>a DEF IInv, WaitInv, Awaits
  <2>1. /\ con[d] = "done" /\ Reported(d)
        /\ <<d, Watched(cur)>> \in flags => <<d, Watched(cur)>> \in itmp
    BY <1>a DEF IInv, WaitInv
  <2>2. <<d, Watched(cur)>> \in FlagsOf(d)
    BY FlagFacts
  <2>3. <<d, Watched(cur)>> \in istat => ich = d
    BY <1>a, <2>2, FlagFacts DEF IInv, HandlerInv, TypeOK
  <2>4. QED
    BY <1>a, <2>1, <2>3 DEF Reported
<1>10. QED
    BY <1>1, <1>2, <1>3, <1>4, <1>5, <1>6, <1>7, <1>8, <1>9 DEF IInv

\* It calls the notifier of the channel.
LEMMA IsrNotifyStep ==
    ASSUME IInv, IsrNotify
    PROVE  IInv'
<1>a. /\ isr = "notify" /\ ich' = 1
      /\ isr' = IF ich = 0 THEN "read" ELSE "none"
      /\ istat # {} => notifier[ich] # NULL
      /\ flag' = IF istat # {} /\ <<ich, Watched(notifier[ich])>> \in istat
                 THEN [flag EXCEPT ![notifier[ich]][ich] = 1] ELSE flag
      /\ UNCHANGED <<lock, active, notifier, mode, cdma, cisr, vec, IECR, con,
                    flags, mask, tmp, istat, itmp, part, line, step, cur, ch,
                    t, leaked, expired>>
    BY DEF IsrNotify, NextChannel, chan, shared, hw, irqcx, place, client
<1>g. Op' = Op /\ Of' = Of /\ Script' = Script
    BY <1>a DEF Op, Of, Script
<1>1. TypeOK'
  <2>1. isr' \in {"none", "read", "reread", "write", "notify"}
    BY <1>a
  <2>2. ich' \in Chans
    BY <1>a DEF IInv, TypeOK, AllFlags, FlagsOf, Kinds, Chans
  <2>3. flag' \in [Clients -> [Chans -> {0, 1}]]
    BY <1>a DEF IInv, TypeOK
  <2>4. QED
    BY <1>a, <2>1, <2>2, <2>3 DEF IInv, TypeOK
<1>2. PlaceInv'
    BY <1>a, <1>g DEF IInv, PlaceInv, Acts, Op
<1>3. OwnerInv'
    BY <1>a DEF IInv, OwnerInv, OwnerOK, Phase, Mine, AskedAt, FreedAt, First
<1>4. ActiveInv'
    BY <1>a, <1>g DEF IInv, ActiveInv, Stopped, Live, Quiet, AskedAt, First
<1>5. LineInv'
    BY <1>a DEF IInv, LineInv, Phase, Mine, AskedAt, FreedAt, First, Second
<1>6. HandlerInv'
    BY <1>a, <1>g DEF IInv, HandlerInv, Live, Of
<1>7. ReportInv'
    BY <1>a DEF IInv, ReportInv, Expects
<1>8. ModeInv'
    BY <1>a DEF IInv, ModeInv
<1>9. WaitInv'
  <2> SUFFICES ASSUME NEW d \in Chans, leaked = {}, Awaits(d)
               PROVE  /\ Reported(d) => Reported(d)'
                      /\ con[d] = "done"
    BY <1>a DEF IInv, WaitInv, Awaits
  <2>1. con[d] = "done" /\ notifier[d] = cur /\ cur \in Clients
    BY <1>a, WaitsAlone DEF IInv, WaitInv
  <2>2. flag[cur][d] = 1 => flag'[cur][d] = 1
    BY <1>a, <2>1 DEF IInv, TypeOK
  <2>3. ich = d /\ <<d, Watched(cur)>> \in istat => flag'[cur][d] = 1
    BY <1>a, <2>1 DEF IInv, TypeOK
  <2>4. QED
    BY <1>a, <2>1, <2>2, <2>3 DEF Reported
<1>10. QED
    BY <1>1, <1>2, <1>3, <1>4, <1>5, <1>6, <1>7, <1>8, <1>9 DEF IInv

\* A transfer ends.
LEMMA FinishStep ==
    ASSUME IInv, NEW c \in Chans, Finish(c)
    PROVE  IInv'
<1>a. /\ con[c] = "run" /\ con' = [con EXCEPT ![c] = "done"]
      /\ flags' = flags \cup (IF mode[c] = "slice" THEN FlagsOf(c)
                             ELSE {<<c, "complete">>})
      /\ UNCHANGED <<lock, active, notifier, mode, cdma, cisr, vec, IECR, mask,
                    tmp, isr, ich, istat, itmp, part, line, step, flag, cur,
                    ch, t, leaked, expired>>
    BY DEF Finish, chan, shared, hw, irqcx, place, client
<1>g. Op' = Op /\ Of' = Of /\ Script' = Script
    BY <1>a DEF Op, Of, Script
<1>l. Live(c) /\ c \in Chans
    BY <1>a DEF IInv, ActiveInv, Quiet
<1>m. \A d \in Chans :
        /\ d # c => flags' \cap FlagsOf(d) = flags \cap FlagsOf(d)
        /\ Live(d)' = Live(d)
    BY <1>a, <1>g, FlagFacts DEF Live
<1>1. TypeOK'
  <2>1. con' \in [Chans -> {"off", "run", "done"}]
    BY <1>a DEF IInv, TypeOK
  <2>2. flags' \subseteq AllFlags
    BY <1>a DEF IInv, TypeOK, AllFlags, FlagsOf, Kinds, Chans
  <2>3. QED
    BY <1>a, <2>1, <2>2 DEF IInv, TypeOK
<1>2. PlaceInv'
    BY <1>a, <1>g, <1>l DEF IInv, PlaceInv, Acts, Op
<1>3. OwnerInv'
    BY <1>a DEF IInv, OwnerInv, OwnerOK, Phase, Mine, AskedAt, FreedAt, First
<1>4. ActiveInv'
  <2> SUFFICES ASSUME NEW d \in Chans
               PROVE  /\ (Stopped(d) => ~active[d])'
                      /\ (~Live(d) => Quiet(d))'
                      /\ (step \in DisableSteps /\ Of = d =>
                            ~active[d] /\ (step # "stop" => con[d] = "off"))'
                      /\ (step \in EnableSteps /\ Of = d =>
                            active[d] /\ Quiet(d))'
    BY DEF ActiveInv
  <2>1. /\ Stopped(d) => ~active[d]
        /\ ~Live(d) => Quiet(d)
        /\ step \in DisableSteps /\ Of = d =>
             ~active[d] /\ (step # "stop" => con[d] = "off")
        /\ step \in EnableSteps /\ Of = d => active[d] /\ Quiet(d)
    BY DEF IInv, ActiveInv
  <2>2. d = c => ~Quiet(d)
    BY <1>a DEF Quiet
  <2>3. d # c => (Quiet(d) => Quiet(d)') /\ con'[d] = con[d]
    BY <1>a, <1>m DEF Quiet, IInv, TypeOK
  <2>4. d = c /\ step \in DisableSteps /\ Of = d => step = "stop"
    BY <1>a, <2>1
  <2>5. Stopped(d)' <=> Stopped(d)
    BY <1>a DEF Stopped, AskedAt, First
  <2>6. (~Live(d) => Quiet(d))'
    <3>1. CASE d = c
      BY <3>1, <1>a, <1>g, <1>l DEF Live
    <3>2. CASE d # c
      BY <3>2, <1>m, <2>1, <2>3
    <3>3. QED
      BY <3>1, <3>2
  <2>7. (step \in DisableSteps /\ Of = d =>
            ~active[d] /\ (step # "stop" => con[d] = "off"))'
    BY <1>a, <1>g, <2>1, <2>3, <2>4
  <2>8. (step \in EnableSteps /\ Of = d => active[d] /\ Quiet(d))'
    BY <1>a, <1>g, <2>1, <2>2, <2>3
  <2>9. (Stopped(d) => ~active[d])'
    BY <1>a, <2>1, <2>5
  <2>10. QED
    BY <2>6, <2>7, <2>8, <2>9
<1>5. LineInv'
    BY <1>a DEF IInv, LineInv, Phase, Mine, AskedAt, FreedAt, First, Second
<1>6. HandlerInv'
    BY <1>a, <1>g, <1>l DEF IInv, HandlerInv, Live, Of
<1>7. ReportInv'
  <2> SUFFICES ASSUME NEW d \in Chans, Expects(d)
               PROVE  /\ (flag[cur][d] = 1 => con[d] = "done")'
                      /\ (flags \cap FlagsOf(d) # {} => con[d] = "done")'
                      /\ (isr \in {"reread", "write", "notify"} /\ ich = d
                            /\ istat # {} => con[d] = "done")'
    BY <1>a DEF ReportInv, Expects
  <2>1. d = c => con'[d] = "done"
    BY <1>a DEF IInv, TypeOK
  <2>2. d # c => /\ con'[d] = con[d]
                 /\ flags' \cap FlagsOf(d) = flags \cap FlagsOf(d)
    BY <1>a, <1>m DEF IInv, TypeOK
  <2>3. QED
    BY <1>a, <2>1, <2>2 DEF IInv, ReportInv
<1>8. ModeInv'
    BY <1>a DEF IInv, ModeInv
<1>9. WaitInv'
  <2> SUFFICES ASSUME NEW d \in Chans, leaked = {}, Awaits(d)
               PROVE  /\ con'[d] = "done" /\ Reported(d)'
                      /\ ~(isr = "write")
    BY <1>a DEF WaitInv, Awaits
  <2>1. c = d
    BY <1>l, WaitsAlone
  <2>2. isr = "none"
    BY <1>a, <2>1 DEF IInv, WaitInv
  <2>3. cur = "slave" => mode[d] = "slice"
    BY DEF IInv, ModeInv, Awaits
  <2>4. <<d, Watched(cur)>> \in flags'
    <3>1. cur = "slave" => <<d, Watched(cur)>> \in FlagsOf(d)
      BY FlagFacts
    <3>2. cur = "self" =>
             Watched(cur) = "complete" /\ <<d, "complete">> \in FlagsOf(d)
      BY FlagFacts DEF Watched
    <3>3. QED
      BY <1>a, <2>1, <2>3, <3>1, <3>2, WaitsAlone
  <2>5. QED
    BY <1>a, <2>1, <2>2, <2>4 DEF Reported, IInv, TypeOK
<1>10. QED
    BY <1>1, <1>2, <1>3, <1>4, <1>5, <1>6, <1>7, <1>8, <1>9 DEF IInv

(***************************************************************************)
(* The invariant holds in every behaviour                                  *)
(***************************************************************************)
LEMMA InitInv == Init => IInv
<1> SUFFICES ASSUME Init PROVE IInv
  OBVIOUS
<1> USE HdmaAssumption DEF HdmaAssumption, Init
<1>1. TypeOK
  <2>1. /\ lock \in [Chans -> BOOLEAN] /\ active \in [Chans -> BOOLEAN]
        /\ notifier \in [Chans -> Clients \cup {NULL}]
        /\ mode \in [Chans -> {"sw", "slice"}]
        /\ cdma \in [Chans -> BOOLEAN] /\ cisr \in [Chans -> BOOLEAN]
        /\ con \in [Chans -> {"off", "run", "done"}]
    OBVIOUS
  <2>2. flag \in [Clients -> [Chans -> {0, 1}]]
    OBVIOUS
  <2>3. vec \in BOOLEAN /\ IECR \in BOOLEAN
    BY Zenon
  <2>4. /\ ich \in Chans /\ ch \in Chans /\ line \in 1 .. 13
        /\ t \in 0 .. Threshold
    BY DEF Chans
  <2>5. part \in Parts /\ step \in Steps
    BY DEF Parts, Steps
  <2>6. QED
    BY <2>1, <2>2, <2>3, <2>4, <2>5 DEF TypeOK
<1>2. PlaceInv
    BY DEF PlaceInv, Acts, RequestSteps, FreeSteps, EnableSteps, DisableSteps
<1>3. OwnerInv
    BY DEF OwnerInv, OwnerOK, Phase
<1>4. ActiveInv
    BY DEF ActiveInv, Quiet, EnableSteps
<1>5. LineInv
    BY DEF LineInv, Chans
<1>6. HandlerInv /\ ReportInv /\ ModeInv /\ WaitInv
    BY DEF HandlerInv, ReportInv, Expects, ModeInv, WaitInv, Awaits
<1>7. QED
    BY <1>1, <1>2, <1>3, <1>4, <1>5, <1>6 DEF IInv

LEMMA StutterStep == IInv /\ UNCHANGED vars => IInv'
<1> SUFFICES ASSUME IInv, UNCHANGED vars PROVE IInv'
  OBVIOUS
<1> USE DEF vars, chan, shared, hw, irqcx, place, client
<1>1. Op' = Op /\ Of' = Of /\ Script' = Script
    BY DEF Op, Of, Script
<1>2. TypeOK' /\ PlaceInv' /\ ModeInv'
    BY <1>1 DEF IInv, TypeOK, PlaceInv, Acts, ModeInv
<1>3. OwnerInv'
    BY DEF IInv, OwnerInv, OwnerOK, Phase, Mine, AskedAt, FreedAt, First
<1>4. ActiveInv'
    BY <1>1 DEF IInv, ActiveInv, Stopped, Live, Quiet, AskedAt, First
<1>5. LineInv'
    BY DEF IInv, LineInv, Phase, Mine, AskedAt, FreedAt, First, Second
<1>6. HandlerInv'
    BY <1>1 DEF IInv, HandlerInv, Live
<1>7. ReportInv' /\ WaitInv'
    BY DEF IInv, ReportInv, Expects, WaitInv, Awaits, Reported
<1>8. QED
    BY <1>2, <1>3, <1>4, <1>5, <1>6, <1>7 DEF IInv

LEMMA DriverStep ==
    ASSUME IInv, NEW c \in Chans, Driver(c)
    PROVE  IInv'
<1>1. CASE sq_request_dma(c)
    BY <1>1, RequestBusyStep, RequestStep
<1>2. CASE panther7_hdma_request_irq(c)
  <2>1. step \in {"cdma", "cisr", "vec", "irqen"}
    BY <1>2 DEF panther7_hdma_request_irq, Do, In
  <2>2. QED
    BY <1>2, <2>1, SetDmaStep, SetIsrStep, SetVectorStep, EnableLineStep
<1>3. CASE sq_free_dma(c)
    BY <1>3, FreeStep
<1>4. CASE Unlock(c)
    BY <1>4, UnlockStep
<1>5. CASE panther7_hdma_free_irq(c)
  <2>1. step \in {"uncdma", "uncisr", "unvec", "irqdis"}
    BY <1>5 DEF panther7_hdma_free_irq, Do, In
  <2>2. QED
    BY <1>5, <2>1, ResetDmaStep, ResetIsrStep, ResetVectorStep, DisableLineStep
<1>6. CASE sq_enable_dma(c)
    BY <1>6, EnableActiveStep, EnableStep
<1>7. CASE sq_disable_dma(c)
    BY <1>7, DisableInactiveStep, DisableStep
<1>8. CASE ReadStatus(c)
  <2>1. step \in {"unmaskrd", "clearrd", "maskrd"}
    BY <1>8 DEF ReadStatus, Do, In
  <2>2. QED
    BY <1>8, <2>1, ReadToUnmaskStep, ReadToClearStep, ReadToMaskStep
<1>9. CASE panther7_hdma_enable(c)
  <2>1. step \in {"unmaskwr", "start"}
    BY <1>9 DEF panther7_hdma_enable, Do, In
  <2>2. QED
    BY <1>9, <2>1, UnmaskStep, StartStep
<1>10. CASE panther7_hdma_disable(c)
  <2>1. step \in {"stop", "clearwr", "maskwr"}
    BY <1>10 DEF panther7_hdma_disable, Do, In
  <2>2. QED
    BY <1>10, <2>1, StopStep, ClearStep, MaskStep
<1>11. QED
    BY <1>1, <1>2, <1>3, <1>4, <1>5, <1>6, <1>7, <1>8, <1>9, <1>10 DEF Driver

LEMMA TestStep ==
    ASSUME IInv, NEW c \in Chans, Test(c)
    PROVE  IInv'
<1>1. CASE sq_wait_for_int(c)
  <2>1. t \in Nat /\ Threshold \in Nat
    BY HdmaAssumption DEF IInv, TypeOK, HdmaAssumption
  <2>2. CASE flag[cur][c] = 1
    BY <1>1, <2>2, WaitStep
  <2>3. CASE flag[cur][c] # 1 /\ t < Threshold
    BY <1>1, <2>3, PollStep
  <2>4. CASE flag[cur][c] # 1 /\ t >= Threshold
    BY <1>1, <2>4, WaitStep, GiveUpStep
  <2>5. QED
    BY <2>1, <2>2, <2>3, <2>4
<1>2. CASE WaitSent(c)
    BY <1>2, SentStep, NotSentStep
<1>3. QED
    BY <1>1, <1>2, SetupStep, FillStep, ResetStep DEF Test

LEMMA NextInv == IInv /\ [Next]_vars => IInv'
<1> SUFFICES ASSUME IInv, [Next]_vars PROVE IInv'
  OBVIOUS
<1>1. CASE User
    BY <1>1, BeginStep, MenuStep DEF User
<1>2. CASE \E c \in Chans : Driver(c) \/ Test(c) \/ Finish(c)
    BY <1>2, DriverStep, TestStep, FinishStep
<1>3. CASE Handler
  BY <1>3, DispatchStep, PassOverStep, IsrReadStep, IsrRereadStep,
     IsrWriteStep,
     IsrNotifyStep DEF Handler
<1>4. CASE UNCHANGED vars
    BY <1>4, StutterStep
<1>5. QED
    BY <1>1, <1>2, <1>3, <1>4 DEF Next

(***************************************************************************)
(* The masks                                                               *)
(***************************************************************************)
LEMMA MaskInit == Init => MaskInv
BY DEF Init, MaskInv

\* Steps that enable no channel and mask none.
LEMMA MaskQuiet ==
    ASSUME IInv, MaskInv, mask' = mask,
           \A d \in Chans : active'[d] => active[d],
           \/ step \notin {"unmaskrd", "unmaskwr"}
           \/ UNCHANGED <<part, line, step, cur, ch>>
    PROVE  MaskInv'
<1>1. CASE step \notin {"unmaskrd", "unmaskwr"}
    BY <1>1 DEF MaskInv
<1>2. CASE UNCHANGED <<part, line, step, cur, ch>>
  <2>1. Of' = Of
    BY <1>2 DEF Of, Script
  <2>2. QED
    BY <1>2, <2>1 DEF MaskInv
<1>3. QED
    BY <1>1, <1>2

LEMMA MaskEnable ==
    ASSUME IInv, MaskInv, NEW c \in Chans, sq_enable_dma(c)
    PROVE  MaskInv'
<1>1. /\ mask' = mask /\ step = "none" /\ Acts /\ Of = c
      /\ active' = [active EXCEPT ![c] = lock[c] \/ @]
      /\ Go(IF lock[c] /\ ~active[c] THEN "unmaskrd" ELSE "none")
      /\ UNCHANGED <<cur, ch>>
    BY DEF sq_enable_dma, Call, Main, At, hw, client, Acts, Of
<1>2. active \in [Chans -> BOOLEAN] /\ lock \in [Chans -> BOOLEAN]
    BY DEF IInv, TypeOK
<1>3. CASE lock[c] /\ ~active[c]
  <2>1. step' = "unmaskrd" /\ Of' = c
    BY <1>1, <1>3, StaysInCall DEF Steps
  <2>2. \A d \in Chans \ {c} : active'[d] = active[d]
    BY <1>1, <1>2
  <2>3. QED
    BY <1>1, <2>1, <2>2 DEF MaskInv
<1>4. CASE ~(lock[c] /\ ~active[c])
  <2>1. \A d \in Chans : active'[d] => active[d]
    BY <1>1, <1>2, <1>4
  <2>2. QED
    BY <1>1, <2>1, MaskQuiet
<1>5. QED
    BY <1>3, <1>4

LEMMA MaskWrites ==
    ASSUME IInv, MaskInv, NEW c \in Chans,
           ReadStatus(c) \/ panther7_hdma_enable(c) \/ panther7_hdma_disable(c)
    PROVE  MaskInv'
<1>1. /\ Acts /\ Of = c /\ UNCHANGED <<active, cur, ch>>
    BY DEF ReadStatus, panther7_hdma_enable, panther7_hdma_disable, Do, In, Main,
           chan, client, Acts, Of
<1>2. CASE step = "unmaskrd"
  <2>1. mask' = mask /\ Go("unmaskwr")
    BY <1>2 DEF ReadStatus, panther7_hdma_enable, panther7_hdma_disable, Do, In, hw
  <2>2. step' = "unmaskwr" /\ Of' = Of
    BY <1>1, <2>1, StaysInCall DEF Steps
  <2>3. QED
    BY <1>1, <1>2, <2>1, <2>2 DEF MaskInv
<1>3. CASE step = "unmaskwr"
  <2>1. mask' = mask \ {c}
    BY <1>3 DEF ReadStatus, panther7_hdma_enable, panther7_hdma_disable, Do, In
  <2>2. QED
    BY <1>1, <2>1 DEF MaskInv
<1>4. CASE step = "maskwr"
  <2>1. mask' = mask \cup {c}
    BY <1>4 DEF ReadStatus, panther7_hdma_enable, panther7_hdma_disable, Do, In
  <2>2. ~active[c]
    BY <1>1, <1>4 DEF IInv, ActiveInv, DisableSteps
  <2>3. QED
    BY <1>1, <1>4, <2>1, <2>2 DEF MaskInv
<1>5. CASE step \notin {"unmaskrd", "unmaskwr", "maskwr"}
  <2>1. mask' = mask
    BY <1>5 DEF ReadStatus, panther7_hdma_enable, panther7_hdma_disable, Do, In, hw
  <2>2. QED
    BY <1>1, <1>5, <2>1, MaskQuiet
<1>6. QED
    BY <1>2, <1>3, <1>4, <1>5

LEMMA NextMask == IInv /\ MaskInv /\ [Next]_vars => MaskInv'
<1> SUFFICES ASSUME IInv, MaskInv, [Next]_vars PROVE MaskInv'
    OBVIOUS
<1> USE DEF chan, shared, hw, irqcx, place, client
<1>1. active \in [Chans -> BOOLEAN] /\ lock \in [Chans -> BOOLEAN]
    BY DEF IInv, TypeOK
<1>2. ASSUME NEW c \in Chans,
             sq_request_dma(c) \/ sq_free_dma(c) \/ Unlock(c) \/ sq_disable_dma(c)
               \/ panther7_hdma_request_irq(c) \/ panther7_hdma_free_irq(c)
      PROVE  MaskInv'
  <2>1. mask' = mask /\ step \notin {"unmaskrd", "unmaskwr"}
    BY <1>2 DEF sq_request_dma, sq_free_dma, Unlock, sq_disable_dma,
                panther7_hdma_request_irq, panther7_hdma_free_irq, Call, Do, At, In
  <2>2. \A d \in Chans : active'[d] => active[d]
    BY <1>1, <1>2 DEF sq_request_dma, sq_free_dma, Unlock, sq_disable_dma,
                      panther7_hdma_request_irq, panther7_hdma_free_irq
  <2>3. QED
    BY <2>1, <2>2, MaskQuiet
<1>3. ASSUME NEW c \in Chans, Test(c) PROVE MaskInv'
  <2>1. UNCHANGED <<mask, active>> /\ step = "none"
    BY <1>3 DEF Test, Setup, Fill, Reset, sq_wait_for_int, WaitSent, Call, At
  <2>2. QED
    BY <2>1, MaskQuiet
<1>4. CASE User
  <2>1. UNCHANGED <<mask, active>> /\ part \in {"idle", "menu"}
    BY <1>4 DEF User, Begin, Menu
  <2>2. step = "none"
    BY <2>1 DEF IInv, PlaceInv, Acts
  <2>3. QED
    BY <2>1, <2>2, MaskQuiet
<1>5. CASE Handler \/ (\E c \in Chans : Finish(c)) \/ UNCHANGED vars
  <2>1. UNCHANGED <<mask, active, part, line, step, cur, ch>>
    BY <1>5 DEF Handler, irq_dispatch, IsrRead, IsrReread, IsrWrite, IsrNotify,
                Finish, vars
  <2>2. QED
    BY <2>1, MaskQuiet
<1>6. QED
    BY <1>2, <1>3, <1>4, <1>5, MaskEnable, MaskWrites DEF Next, Driver

(***************************************************************************)
(* The loop-back tests                                                     *)
(***************************************************************************)
\* Where they reset the flag, enable the receive channel and wait for it.
LEMMA PairPlaces ==
    ASSUME IInv, cur = "pair", part = "run"
    PROVE  /\ line \in 1 .. 9 /\ Size = 9
           /\ line = 1 <=> Op = "reset"
           /\ line = 9 <=> Op = "wait"
           /\ Op = "enable" /\ Of = Rx => line = 8
           /\ Op = "fill" => Of = Rx
<1>1. line \in 1 .. 9 /\ Size = 9
    BY SizeIs DEF IInv, PlaceInv, Acts, Size, Tests
<1>2. /\ line \in {3, 4, 7} => Of = Tx
      /\ line = 2 => Of = Rx
      /\ line = 1 => Op = "reset"
      /\ line = 2 => Op = "fill"
      /\ line \in {3, 5} => Op = "disable"
      /\ line \in {4, 6} => Op = "setup"
      /\ line \in {7, 8} => Op = "enable"
      /\ line = 9 => Op = "wait"
    BY <1>1 DEF Op, Of, Script, Run, RunPair
<1>3. Tx # Rx
    BY HdmaAssumption DEF HdmaAssumption
<1>4. QED
    BY <1>1, <1>2, <1>3

\* Calls go on in place or at the next line.
LEMMA Moves ==
    ASSUME IInv, Acts, NEW s \in Steps, Go(s), cur' = cur, ch' = ch
    PROVE  UNCHANGED <<part, line>> \/ NextPlace
BY GoesOn, StaysInCall

\* Steps of the main thread that neither start the receive channel nor touch
\* its flag.
LEMMA PairQuiet ==
    ASSUME IInv, PairInv, Acts, Op \notin {"reset", "wait"},
           UNCHANGED <<part, line>> \/ NextPlace,
           UNCHANGED <<cur, expired, leaked, flag, isr, ich, istat>>,
           flags' \subseteq flags, con'[Rx] = "run" => con[Rx] = "run",
           active'[Rx] => active[Rx] \/ part # "enter"
    PROVE  PairInv'
<1> SUFFICES ASSUME cur = "pair", ~expired, Rx \notin leaked
             PROVE  PairInv'
    BY DEF PairInv
<1>1. Told(Rx)' => Told(Rx)
    BY DEF Told
<1>2. Rx \in Chans /\ line \in Nat
    BY HdmaAssumption DEF HdmaAssumption, IInv, TypeOK
<1>3. CASE part = "enter"
  <2>1. ~active[Rx]
    BY <1>3 DEF PairInv
  <2>2. step \notin DisableSteps
    BY <1>3, WhereNow DEF IInv, PlaceInv, Where
  <2>3. con[Rx] = "off"
    BY <1>2, <2>1, <2>2 DEF IInv, ActiveInv, Live, Quiet, DisableSteps
  <2>4. part' \in {"enter", "menu"} /\ ~active'[Rx] /\ con'[Rx] # "run"
    BY <1>3, <2>1, <2>3 DEF NextPlace
  <2>5. QED
    BY <2>4 DEF PairInv
<1>4. CASE part = "run"
  <2>1. line \in 2 .. 8
    BY <1>4, PairPlaces
  <2>2. part' = "run" /\ (line' = line \/ line' = line + 1)
    BY <1>4, <2>1, PairPlaces DEF NextPlace
  <2>3. ~Told(Rx) /\ con[Rx] # "run"
    BY <1>4, <2>1 DEF PairInv
  <2>4. QED
    BY <1>1, <2>2, <2>3 DEF PairInv
<1>5. CASE part = "leave"
  <2>1. part' \in {"leave", "idle"}
    BY <1>5 DEF NextPlace
  <2>2. QED
    BY <2>1 DEF PairInv
<1>6. QED
    BY <1>3, <1>4, <1>5 DEF Acts

LEMMA PairDriverStep ==
    ASSUME IInv, PairInv, NEW c \in Chans, Driver(c) \/ Setup(c) \/ Fill(c),
           ~Unlock(c), step # "start"
    PROVE  PairInv'
<1> USE DEF chan, shared, hw, irqcx, client
<1> DEFINE Calls == \/ sq_request_dma(c) \/ sq_free_dma(c) \/ sq_enable_dma(c)
                    \/ sq_disable_dma(c) \/ Setup(c) \/ Fill(c)
           Steps2 == \/ panther7_hdma_request_irq(c) \/ panther7_hdma_free_irq(c)
                     \/ ReadStatus(c) \/ panther7_hdma_enable(c)
                     \/ panther7_hdma_disable(c)
<1>1. Calls \/ Steps2
    BY DEF Driver
<1>2. /\ Acts /\ (step = "none" => Op \notin {"reset", "wait"})
      /\ UNCHANGED <<cur, ch, expired, leaked, flag, isr, ich, istat>>
  <2>1. CASE Calls
    BY <2>1 DEF sq_request_dma, sq_free_dma, sq_enable_dma, sq_disable_dma, Setup,
                Fill, Call, Main, At, Acts, Op
  <2>2. CASE Steps2
    BY <2>2 DEF panther7_hdma_request_irq, panther7_hdma_free_irq, ReadStatus,
                panther7_hdma_enable, panther7_hdma_disable, Do, Main, In, Acts
  <2>3. QED
    BY <1>1, <2>1, <2>2
<1>3. Op \notin {"reset", "wait"}
  <2>1. step # "none" => Op \in {"request", "free", "enable", "disable"}
    BY DEF IInv, TypeOK, PlaceInv, Steps, RequestSteps, FreeSteps, EnableSteps,
           DisableSteps
  <2>2. QED
    BY <1>2, <2>1
<1>4. \E s \in Steps : Go(s)
  <2>1. CASE Calls
    BY <2>1 DEF sq_request_dma, sq_free_dma, sq_enable_dma, sq_disable_dma, Setup,
                Fill, Call, Steps
  <2>2. CASE Steps2
    BY <2>2 DEF panther7_hdma_request_irq, panther7_hdma_free_irq, ReadStatus,
                panther7_hdma_enable, panther7_hdma_disable, Do, Steps
  <2>3. QED
    BY <1>1, <2>1, <2>2
<1>5. UNCHANGED <<part, line>> \/ NextPlace
    BY <1>2, <1>4, Moves
<1>6. flags' \subseteq flags /\ (con'[Rx] = "run" => con[Rx] = "run")
  <2>1. CASE Calls
    BY <2>1 DEF sq_request_dma, sq_free_dma, sq_enable_dma, sq_disable_dma, Setup,
                Fill
  <2>2. CASE panther7_hdma_request_irq(c) \/ panther7_hdma_free_irq(c)
             \/ ReadStatus(c) \/ panther7_hdma_enable(c)
    BY <2>2 DEF panther7_hdma_request_irq, panther7_hdma_free_irq, ReadStatus,
                panther7_hdma_enable, Do, In
  <2>3. CASE panther7_hdma_disable(c)
    <3>1. con' = con \/ con' = [con EXCEPT ![c] = "off"]
      BY <2>3 DEF panther7_hdma_disable
    <3>2. con'[Rx] = "run" => con[Rx] = "run"
      BY <3>1, HdmaAssumption DEF HdmaAssumption, IInv, TypeOK
    <3>3. flags' \subseteq flags
      BY <2>3 DEF panther7_hdma_disable
    <3>4. QED
      BY <3>2, <3>3
  <2>4. QED
    BY <1>1, <2>1, <2>2, <2>3
<1>7. active'[Rx] => active[Rx] \/ part # "enter"
  <2>1. CASE sq_request_dma(c) \/ sq_disable_dma(c)
    BY <2>1, HdmaAssumption
       DEF sq_request_dma, sq_disable_dma, HdmaAssumption, IInv, TypeOK
  <2>2. CASE sq_enable_dma(c)
    <3>1. Op = "enable"
      BY <2>2 DEF sq_enable_dma, Call, At, Op
    <3>2. QED
      BY <1>2, <3>1, WhereNow DEF Where
  <2>3. CASE sq_free_dma(c) \/ Setup(c) \/ Fill(c) \/ Steps2
    BY <2>3 DEF sq_free_dma, Setup, Fill, panther7_hdma_request_irq,
                panther7_hdma_free_irq, ReadStatus, panther7_hdma_enable,
                panther7_hdma_disable
  <2>4. QED
    BY <1>1, <2>1, <2>2, <2>3
<1> HIDE DEF Calls, Steps2
<1>8. QED
    BY <1>2, <1>3, <1>5, <1>6, <1>7, PairQuiet

\* The start of the transmit or of the receive channel.
LEMMA PairStartStep ==
    ASSUME IInv, PairInv, NEW c \in Chans, panther7_hdma_enable(c),
           step = "start"
    PROVE  PairInv'
<1> USE DEF chan, shared, hw, irqcx, client
<1>1. /\ Acts /\ Of = c /\ con' = [con EXCEPT ![c] = "run"] /\ Go("none")
      /\ UNCHANGED <<cur, ch, expired, leaked, flag, isr, ich, istat, flags,
                     active>>
    BY DEF panther7_hdma_enable, Do, Main, In, Acts, Of
<1>2. Op = "enable" /\ part = "run"
    BY <1>1, WhereNow DEF IInv, PlaceInv, EnableSteps, Where
<1>3. NextPlace
    BY <1>1, GoesOn
<1>4. CASE c # Rx
  <2>1. con'[Rx] = con[Rx]
    BY <1>1, <1>4, HdmaAssumption DEF HdmaAssumption, IInv, TypeOK
  <2>2. QED
    BY <1>1, <1>2, <1>3, <2>1, PairQuiet
<1>5. CASE c = Rx
  <2> SUFFICES ASSUME cur = "pair", ~expired, Rx \notin leaked
               PROVE  PairInv'
    BY <1>1 DEF PairInv
  <2>1. line = 8 /\ Size = 9
    BY <1>1, <1>2, <1>5, PairPlaces
  <2>2. part' = "run" /\ line' = 9
    BY <1>2, <1>3, <2>1 DEF NextPlace
  <2>3. ~Told(Rx)
    BY <1>2, <2>1 DEF PairInv
  <2>4. Told(Rx)' = Told(Rx)
    BY <1>1 DEF Told
  <2>5. QED
    BY <2>2, <2>3, <2>4 DEF PairInv
<1>6. QED
    BY <1>4, <1>5

\* The flag is reset while nothing of the receive channel is on its way.
LEMMA PairResetStep ==
    ASSUME IInv, MaskInv, PairInv, NEW c \in Chans, Reset(c)
    PROVE  PairInv'
<1> USE DEF chan, shared, hw, irqcx
<1>1. /\ Acts /\ Op = "reset" /\ step = "none" /\ Go("none")
      /\ isr = "none" /\ ~Pending
      /\ flag' = [flag EXCEPT ![cur] = [d \in Chans |-> 0]]
      /\ UNCHANGED <<cur, ch, expired, leaked, isr, ich, istat, flags, con>>
    BY DEF Reset, Call, Main, At, Acts, Op
<1> SUFFICES ASSUME cur = "pair", ~expired, Rx \notin leaked
             PROVE  PairInv'
    BY <1>1 DEF PairInv
<1>2. part = "run" /\ Rx \in Chans /\ cur \in Clients
    BY <1>1, WhereNow DEF Where
<1>3. line = 1 /\ Size = 9 /\ NextPlace
    BY <1>1, <1>2, PairPlaces, GoesOn
<1>4. part' = "run" /\ line' = 2
    BY <1>2, <1>3 DEF NextPlace
<1>5. con[Rx] # "run"
    BY <1>2, <1>3 DEF PairInv
<1>6. flags \cap FlagsOf(Rx) = {}
  <2>1. CASE ~active[Rx]
    BY <1>1, <1>2, <2>1 DEF IInv, ActiveInv, Live, Quiet
  <2>2. CASE active[Rx]
    <3>1. Rx \notin mask /\ IECR
      BY <1>1, <1>2, <2>2 DEF MaskInv, IInv, LineInv
    <3>2. \A f \in FlagsOf(Rx) : f[1] = Rx
      BY DEF FlagsOf
    <3>3. QED
      BY <1>1, <3>1, <3>2 DEF Pending
  <2>3. QED
    BY <2>1, <2>2
<1>7. flag'[cur][Rx] = 0
    BY <1>1, <1>2 DEF IInv, TypeOK
<1>8. ~Told(Rx)'
    BY <1>1, <1>6, <1>7 DEF Told
<1>9. QED
    BY <1>1, <1>4, <1>5, <1>8 DEF PairInv

\* The wait ends because the flag is set, gives up, or polls again.
LEMMA PairWaitStep ==
    ASSUME IInv, PairInv, NEW c \in Chans, sq_wait_for_int(c)
    PROVE  PairInv'
<1> USE DEF chan, shared, hw, irqcx, place
<1>0. t \in Nat /\ Threshold \in Nat
    BY HdmaAssumption DEF IInv, TypeOK, HdmaAssumption
<1>1. /\ Acts /\ Op = "wait" /\ Of = c
      /\ UNCHANGED <<cur, ch, isr, ich, istat, flags, con>>
    BY DEF sq_wait_for_int, Main, At, Acts, Op, Of
<1> SUFFICES ASSUME cur = "pair", ~expired', Rx \notin leaked'
             PROVE  PairInv'
    BY <1>1 DEF PairInv
<1>2. /\ part = "run" /\ line = 9 /\ c = Rx /\ Size = 9
    BY <1>1, WhereNow, PairPlaces DEF Where
<1>3. CASE flag[cur][c] = 1
  <2>1. Go("none") /\ UNCHANGED <<leaked, expired>>
    BY <1>0, <1>3 DEF sq_wait_for_int
  <2>2. part' = "menu"
    BY <1>1, <1>2, <2>1, GoesOn DEF NextPlace
  <2>3. con[Rx] = "done"
    BY <1>2, <1>3, <2>1 DEF PairInv, Told
  <2>4. QED
    BY <1>1, <2>2, <2>3 DEF PairInv
<1>4. CASE flag[cur][c] # 1
  <2>1. UNCHANGED <<flag, leaked, expired, part, line>>
    BY <1>0, <1>4 DEF sq_wait_for_int
  <2>2. Told(Rx)' = Told(Rx)
    BY <1>1, <2>1 DEF Told
  <2>3. QED
    BY <1>1, <1>2, <2>1, <2>2 DEF PairInv
<1>5. QED
    BY <1>3, <1>4

\* A visit begins, a run begins, or the user leaves.
LEMMA PairUserStep ==
    ASSUME IInv, PairInv, User
    PROVE  PairInv'
<1> USE DEF chan, shared, hw, irqcx, client
<1>1. CASE \E cl \in Clients, c \in Chans : Begin(cl, c)
  <2>1. /\ part = "idle" /\ part' = "enter"
        /\ UNCHANGED <<leaked, active>>
    BY <1>1 DEF Begin
  <2>2. Rx \notin leaked => ~active[Rx]
    BY <2>1, HdmaAssumption
       DEF HdmaAssumption, IInv, OwnerInv, OwnerOK, Phase
  <2>3. QED
    BY <2>1, <2>2 DEF PairInv
<1>2. CASE Menu
    BY <1>2 DEF Menu, PairInv
<1>3. QED
    BY <1>1, <1>2 DEF User

\* The handler reports what a flag has told it, and the channel tells of its
\* end when it is done.
LEMMA PairHandlerStep ==
    ASSUME IInv, PairInv, Handler \/ \E c \in Chans : Finish(c)
    PROVE  PairInv'
<1> USE DEF chan, shared, hw, irqcx, place, client
<1>1. UNCHANGED <<part, line, cur, expired, leaked, active>>
    BY DEF Handler, irq_dispatch, IsrRead, IsrReread, IsrWrite, IsrNotify, Finish
<1> SUFFICES ASSUME cur = "pair", part # "idle"
             PROVE  /\ con'[Rx] = "run" => con[Rx] = "run"
                    /\ Told(Rx)' => Told(Rx) \/ (con[Rx] = "run" /\ con'[Rx] = "done")
                    /\ con[Rx] = "done" => con'[Rx] = "done"
  <2>1. CASE cur # "pair" \/ part = "idle"
    BY <1>1, <2>1 DEF PairInv
  <2>2. QED
    BY <1>1, <2>1 DEF PairInv
<1>2. Rx \in Chans /\ cur \in Clients
    BY HdmaAssumption DEF HdmaAssumption, IInv, PlaceInv
<1>3. CASE irq_dispatch \/ IsrRead \/ IsrReread \/ IsrWrite
  <2>1. con' = con /\ flag' = flag /\ flags' \subseteq flags
    BY <1>3 DEF irq_dispatch, IsrRead, IsrReread, IsrWrite
  <2>2. isr' \in {"reread", "write", "notify"} /\ ich' = Rx /\ istat' # {}
          => Told(Rx)
    BY <1>3 DEF irq_dispatch, IsrRead, IsrReread, IsrWrite, NextChannel, Told
  <2>3. QED
    BY <1>1, <2>1, <2>2 DEF Told
<1>4. CASE IsrNotify
  <2>1. /\ con' = con /\ flags' = flags /\ isr' \in {"read", "none"}
        /\ isr = "notify"
        /\ flag' = flag \/ (istat # {} /\ flag' = [flag EXCEPT ![notifier[ich]][ich] = 1])
    BY <1>4 DEF IsrNotify, NextChannel
  <2>2. ich \in Chans /\ flag \in [Clients -> [Chans -> {0, 1}]]
    BY DEF IInv, TypeOK
  <2>3. ASSUME flag'[cur][Rx] = 1 PROVE Told(Rx)
    <3>1. CASE ich = Rx /\ istat # {}
      BY <2>1, <3>1 DEF Told
    <3>2. CASE ~(ich = Rx /\ istat # {})
      <4>1. flag'[cur][Rx] = flag[cur][Rx]
        BY <1>2, <2>1, <2>2, <3>2
      <4>2. QED
        BY <2>3, <4>1 DEF Told
    <3>3. QED
      BY <3>1, <3>2
  <2>4. QED
    BY <1>1, <2>1, <2>3 DEF Told
<1>5. ASSUME NEW c \in Chans, Finish(c)
      PROVE  /\ con'[Rx] = "run" => con[Rx] = "run"
             /\ Told(Rx)' => Told(Rx) \/ (con[Rx] = "run" /\ con'[Rx] = "done")
             /\ con[Rx] = "done" => con'[Rx] = "done"
  <2>1. /\ con[c] = "run" /\ con' = [con EXCEPT ![c] = "done"]
        /\ flags' \subseteq flags \cup FlagsOf(c)
        /\ UNCHANGED <<flag, isr, ich, istat>>
    BY <1>5, FlagFacts DEF Finish
  <2>2. con \in [Chans -> {"off", "run", "done"}]
    BY DEF IInv, TypeOK
  <2>3. CASE c = Rx
    BY <1>2, <2>1, <2>2, <2>3
  <2>4. CASE c # Rx
    <3>1. con'[Rx] = con[Rx]
      BY <1>2, <2>1, <2>2, <2>4
    <3>2. FlagsOf(c) \cap FlagsOf(Rx) = {}
      BY <1>2, <2>4, FlagFacts
    <3>3. flags' \cap FlagsOf(Rx) \subseteq flags \cap FlagsOf(Rx)
      BY <2>1, <3>2
    <3>4. QED
      BY <1>1, <2>1, <3>1, <3>3 DEF Told
  <2>5. QED
    BY <2>3, <2>4
<1>6. QED
    BY <1>3, <1>4, <1>5 DEF Handler

LEMMA NextPair == IInv /\ MaskInv /\ PairInv /\ [Next]_vars => PairInv'
<1> SUFFICES ASSUME IInv, MaskInv, PairInv, [Next]_vars PROVE PairInv'
    OBVIOUS
<1>1. ASSUME NEW c \in Chans, Driver(c) \/ Test(c) PROVE PairInv'
  <2>1. CASE Unlock(c)
    <3>1. Acts /\ step = "unlock" /\ Go("uncdma") /\ UNCHANGED <<cur, ch>>
      BY <2>1 DEF Unlock, Do, Main, In, Acts
    <3>2. part = "leave" /\ part' = part
      BY <3>1, WhereNow, StaysInCall
         DEF IInv, PlaceInv, FreeSteps, Where, Steps
    <3>3. QED
      BY <3>2 DEF PairInv
  <2>2. CASE Driver(c) /\ step = "start"
    <3>1. panther7_hdma_enable(c)
      BY <2>2 DEF Driver, sq_request_dma, panther7_hdma_request_irq, sq_free_dma,
                  Unlock, panther7_hdma_free_irq, sq_enable_dma, sq_disable_dma,
                  ReadStatus, panther7_hdma_disable, Call, Do, At, In
    <3>2. QED
      BY <2>2, <3>1, PairStartStep
  <2>3. CASE (Driver(c) \/ Setup(c) \/ Fill(c)) /\ ~Unlock(c) /\ step # "start"
    BY <2>3, PairDriverStep
  <2>4. CASE Setup(c) \/ Fill(c)
    <3>1. step = "none"
      BY <2>4 DEF Setup, Fill, Call, At
    <3>2. ~Unlock(c)
      BY <3>1 DEF Unlock, Do, In
    <3>3. QED
      BY <2>3, <2>4, <3>1, <3>2
  <2>5. CASE Reset(c)
    BY <2>5, PairResetStep
  <2>6. CASE sq_wait_for_int(c)
    BY <2>6, PairWaitStep
  <2>7. CASE WaitSent(c)
    <3>1. Acts /\ Op = "sent" /\ cur' = cur
      BY <2>7 DEF WaitSent, At, Acts, Op
    <3>2. cur' # "pair"
      BY <3>1, WhereNow DEF Where
    <3>3. QED
      BY <3>2 DEF PairInv
  <2>8. QED
    BY <1>1, <2>1, <2>2, <2>3, <2>4, <2>5, <2>6, <2>7 DEF Test
<1>2. CASE UNCHANGED vars
    BY <1>2 DEF vars, chan, shared, hw, irqcx, place, client, PairInv, Told
<1>3. QED
    BY <1>1, <1>2, PairUserStep, PairHandlerStep DEF Next

\* The state the DMA service, its driver, the tests and the handler share
\* satisfies the inductive invariant at every step of every sequence of
\* tests, time-outs and interrupts; in the loop-back tests only until a wait
\* gives up is a report always of the transfer that is waited for.
THEOREM Invariance == Spec => [](IInv /\ MaskInv /\ PairInv)
<1>1. Init => PairInv
    BY DEF Init, PairInv
<1>2. QED
    BY InitInv, NextInv, MaskInit, NextMask, NextPair, <1>1, PTL DEF Spec

(***************************************************************************)
(* What follows from it                                                    *)
(***************************************************************************)
\* At a call of op for channel c, what the lemmas say of Op and Of.
LEMMA AtCall ==
    ASSUME IInv, NEW op, NEW c \in Chans, At(op, c)
    PROVE  Acts /\ step = "none" /\ Op = op /\ Of = c /\ Where
<1>1. Acts /\ step = "none" /\ Op = op /\ Of = c
    BY DEF At, Acts, Op, Of
<1>2. Where
    BY <1>1, WhereIs, HdmaAssumption
     DEF IInv, TypeOK, PlaceInv, Acts, HdmaAssumption
<1>3. QED
    BY <1>1, <1>2

\* panther7_hdma_isr never calls an isr or a notifier that is not set,
\* whatever channels the slave test has left behind.
LEMMA NoNullCallHolds == IInv => NoNullCall
<1> SUFFICES ASSUME IInv PROVE NoNullCall
  OBVIOUS
<1>1. ich \in Chans /\ OwnerOK(ich)
    BY DEF IInv, TypeOK, OwnerInv
<1>2. ASSUME isr = "read", cdma[ich], ~cisr[ich] PROVE FALSE
  <2>1. Phase(ich) = "asking" /\ step = "cisr"
    BY <1>1, <1>2 DEF OwnerOK, Phase, IInv, TypeOK
  <2>2. PICK e \in Chans : IECR /\ active[e]
    BY <1>2, <2>1 DEF IInv, HandlerInv, Live
  <2>3. part = "enter"
    BY <2>1 DEF Phase, IInv, TypeOK, Parts
  <2>4. QED
    BY <1>1, <2>1, <2>2, <2>3 DEF IInv, LineInv
<1>3. ASSUME isr = "notify", istat # {} PROVE notifier[ich] # NULL
  <2>1. Live(ich)
    BY <1>3 DEF IInv, HandlerInv
  <2>2. CASE active[ich]
    BY <1>1, <2>2 DEF OwnerOK
  <2>3. CASE step \in {"stop", "clearrd", "clearwr"} /\ Of = ich
    <3>1. Op = "disable" /\ Acts
      BY <2>3 DEF IInv, PlaceInv, DisableSteps
    <3>2. Where
      BY <3>1, WhereIs, HdmaAssumption
         DEF IInv, TypeOK, PlaceInv, HdmaAssumption, Acts
    <3>3. Phase(ich) = "own"
      BY <1>1, <2>3, <3>1, <3>2, HdmaAssumption
         DEF Where, Phase, Mine, AskedAt, FreedAt, First, IInv, PlaceInv, Acts,
             HdmaAssumption, Tests, Chans
    <3>4. QED
      BY <1>1, <3>3 DEF OwnerOK
  <2>4. QED
    BY <2>1, <2>2, <2>3 DEF Live
<1>4. QED
    BY <1>2, <1>3 DEF NoNullCall

\* A free gives up the line of both channels: nothing is live then, so that
\* no flag is raised.
LEMMA NoStormHolds == IInv => NoStorm
<1> SUFFICES ASSUME IInv, leaked = {}, IECR, flags # {} PROVE vec
    BY DEF NoStorm, LineIsHandled, Pending
<1>1. CASE step # "irqdis"
    BY <1>1 DEF IInv, LineInv
<1>2. CASE step = "irqdis"
  <2>1. Op = "free" /\ Acts
    BY <1>2 DEF IInv, PlaceInv, FreeSteps
  <2>2. Of \in Chans /\ Where /\ cur \in Tests
    BY <2>1, WhereIs, HdmaAssumption
       DEF IInv, TypeOK, PlaceInv, HdmaAssumption, Acts
  <2>3. ASSUME NEW d \in Chans PROVE ~active[d]
    <3>1. OwnerOK(d) /\ (Stopped(d) => ~active[d])
      BY DEF IInv, OwnerInv, ActiveInv
    <3>2. Stopped(d) \/ Phase(d) = "out"
      BY <2>1, <2>2, HdmaAssumption
         DEF Where, Stopped, Phase, Mine, AskedAt, FreedAt, First, Acts, Chans,
             Tests, HdmaAssumption
    <3>3. QED
      BY <3>1, <3>2 DEF OwnerOK
  <2>4. PICK d \in Chans : Live(d)
    BY FlagOfLive
  <2>5. QED
    BY <1>2, <2>3, <2>4 DEF Live
<1>3. QED
    BY <1>1, <1>2

\* A test that waits has its channel, its notifier and its line, although it
\* has ignored the result of sq_request_dma.
LEMMA OwnsChannelHolds == IInv => OwnsChannel
<1> SUFFICES ASSUME IInv, NEW c \in Chans, leaked = {}, At("wait", c)
             PROVE  notifier[c] = cur /\ cdma[c] /\ cisr[c] /\ vec /\ IECR
    BY DEF OwnsChannel, Waiting
<1>1. step = "none" /\ Op = "wait" /\ Of = c /\ Where
    BY AtCall
<1>2. part = "run" /\ Phase(c) = "own"
    BY <1>1 DEF Where, Phase, Mine
<1>3. notifier[c] = cur /\ cdma[c] /\ cisr[c]
    BY <1>2 DEF IInv, OwnerInv, OwnerOK
<1>4. vec /\ IECR
    BY <1>1, <1>2 DEF IInv, LineInv
<1>5. QED
    BY <1>3, <1>4

\* The DMA tests share a line, a container and two locks and know nothing of
\* each other; yet the handler finds what it calls, no interrupt is left
\* without it while nothing has been left behind, and a test has the channel
\* it waits for, in every sequence of tests and time-outs.
THEOREM SharingHolds == Spec => []SharingIsSafe
<1>1. IInv => SharingIsSafe
    BY NoNullCallHolds, NoStormHolds, OwnsChannelHolds DEF SharingIsSafe, IInv
<1>2. QED
    BY <1>1, Invariance, PTL

\* panther7_hdma_software_dma_tranfer and sq_spi_slave_pure_hdma_run disable
\* their channels before they fill the buffers: no transfer that timed out
\* earlier still writes them.  sq_uart_hwdma_panther7_hdma and
\* sq_spi_master_internal_hdma_run fill first: the receive channel is still
\* only if no wait of the visit has given up and the channel is their own.
THEOREM FillsQuiet == Spec => []FillsQuietBuffers
<1>1. IInv /\ PairInv => FillsQuietBuffers
  <2> SUFFICES ASSUME IInv, PairInv, NEW c \in Chans, NEW d \in Filled(c),
                      At("fill", c), con[d] = "run"
               PROVE  cur = "pair" /\ (expired \/ d \in leaked)
    BY DEF FillsQuietBuffers
  <2>1. step = "none" /\ Op = "fill" /\ Of = c /\ Where /\ Acts
    BY AtCall DEF At, Acts
  <2>2. part = "run" /\ d \in Chans
    BY <2>1 DEF Where, Filled
  <2>3. CASE cur # "pair"
    <3>1. Stopped(d)
      BY <2>1, <2>2, <2>3 DEF Where, Stopped, Filled, Chans
    <3>2. Quiet(d)
      BY <2>1, <2>2, <3>1 DEF IInv, ActiveInv, Live
    <3>3. QED
      BY <3>2 DEF Quiet
  <2>4. CASE cur = "pair"
    <3>1. line \in 1 .. 9 /\ line # 9
      BY <2>1, <2>2, <2>4, PairPlaces
    <3>2. c = Rx
      BY <2>1, <2>2, <2>4, PairPlaces
    <3>3. d = Rx
      BY <2>4, <3>2 DEF Filled
    <3>4. QED
      BY <2>2, <2>4, <3>1, <3>3 DEF PairInv
  <2>5. QED
    BY <2>3, <2>4
<1>2. QED
    BY <1>1, Invariance, PTL

\* The self test and the slave test take a flag for the end of the transfer
\* they started last only when it has ended, whatever they left unfinished
\* before: every flag, and every interrupt on its way, is of that transfer.
THEOREM CompletionCurrent == Spec => []CompletionIsCurrent
<1>1. IInv => CompletionIsCurrent
  <2> SUFFICES ASSUME IInv, NEW c \in Chans, cur \in {"self", "slave"},
                      At("wait", c), flag[cur][c] = 1
               PROVE  con[c] = "done"
    BY DEF CompletionIsCurrent, Current, Waiting
  <2>1. step = "none" /\ Op = "wait" /\ Of = c /\ Where
    BY AtCall
  <2>2. Expects(c)
    BY <2>1 DEF Where, Expects
  <2>3. QED
    BY <2>2 DEF IInv, ReportInv
<1>2. QED
    BY <1>1, Invariance, PTL

\* The read-modify-writes of the status register in the driver and in
\* panther7_hdma_isr never lose the end of the transfer that is waited for.
THEOREM NothingLost == Spec => []NoLostCompletion
<1>1. IInv => NoLostCompletion
  <2> SUFFICES ASSUME IInv, NEW c \in Chans, cur # "pair", leaked = {},
                      At("wait", c), con[c] = "done"
               PROVE  \/ flag[cur][c] = 1
                      \/ <<c, Watched(cur)>> \in flags
                      \/ /\ isr # "none" /\ ich = c
                         /\ <<c, Watched(cur)>> \in istat
    BY DEF NoLostCompletion, Waiting
  <2>1. step = "none" /\ Op = "wait" /\ Of = c /\ Where
    BY AtCall
  <2>2. Awaits(c)
    BY <2>1 DEF Where, Awaits
  <2>3. Reported(c)
    BY <2>2 DEF IInv, WaitInv
  <2>4. QED
    BY <2>3 DEF Reported
<1>2. QED
    BY <1>1, Invariance, PTL
====
