-------------------------- MODULE SpiSlave_proofs ---------------------------
(***************************************************************************)
(* Proofs about the two boards of the slave test, for every size of the    *)
(* pattern and of the FIFO and every number of polls.                      *)
(***************************************************************************)
EXTENDS SpiSlave, TLAPS

USE DEF CMD_READ, CMD_WRITE, CMD_DMARD, CMD_DMAWR, CMD_EXIT, Data, Reading,
        STA_CMD, STA_GET_ADDR_HI, STA_GET_ADDR_LOW, STA_GET_SIZE_HI,
        STA_GET_SIZE_LOW, States, Storage

(***************************************************************************)
(* What the invariant speaks of                                            *)
(***************************************************************************)
\* The bytes on their way to the slave's program: those in its FIFO and those
\* the master has still to shift, in this order.
Bytes   == Len(rxfifo) + Len(out)
Wire(j) == IF j <= Len(rxfifo) THEN rxfifo[j] ELSE out[j - Len(rxfifo)]

\* Where the master is: it sends a header, or the exit command; it has got
\* READY and has not left the run yet; and what it does then.
Sends     == pc = "shift" /\ phase \in {"write", "read"} /\ i = 0
SendsExit == pc = "shift" /\ phase = "exit"
Mid       == \/ pc \in {"shift", "rdfs", "block"}
             \/ pc = "ready" /\ phase \in {"read", "exit"}
Writing   == Mid /\ (phase = "write" \/ (phase = "read" /\ pc = "ready"))
Reads     == Mid /\ ~(phase = "write" \/ (phase = "read" /\ pc = "ready"))
Due       == IF Writing THEN IF type = "normal" THEN CMD_WRITE ELSE CMD_DMAWR
             ELSE IF type = "normal" THEN CMD_READ ELSE CMD_DMARD

\* Where the handler is in a header: how many bytes are left, and what the
\* r-th of them from the end is.
InHeader   == state \in 16 .. 19
Rest       == 20 - state
HByte(r, b) == /\ r \in {3, 4} => b = 0
               /\ r = 2 => b = PATTERN_BUF_SIZE \div 256
               /\ r = 1 => b = PATTERN_BUF_SIZE % 256

\* The place in the storage of the next byte of the wire, and what a byte for
\* the place q is like: of this run inside the storage, 0 behind it.
Base == IF InHeader THEN state - 20
        ELSE IF state = CMD_WRITE /\ spc \in {"arm", "wait"} THEN count
        ELSE IF state = CMD_DMAWR /\ spc = "wait" THEN dma.n ELSE 0
For(q, c) == /\ 0 <= q /\ q < PATTERN_BUF_SIZE => c.fresh = TRUE
             /\ q >= PATTERN_BUF_SIZE => c.b = 0
Early == spc \in {"loop", "clear", "arm", "dma", "wait", "rearm", "ready"}

\* How many bytes a reading command has put in the transmit FIFO.
Cnt == IF state = CMD_READ /\ spc \in {"fill", "put", "empty", "wait_empty"}
         THEN count
       ELSE IF state = CMD_DMARD /\ spc \in {"wait", "undma"} THEN dma.n
       ELSE IF state = CMD_DMARD /\ spc \in {"empty", "wait_empty"}
         THEN PATTERN_BUF_SIZE ELSE 0

Stored == \A k \in Storage : storage[k].fresh = TRUE

(***************************************************************************)
(* The invariant                                                           *)
(***************************************************************************)
\* The master's control, and the blocks of half a FIFO it counts in.
MasterInv ==
    /\ pc \in {"reset_en", "reseten", "reset"} => phase = "reset"
    /\ pc \in {"shift", "rdfs", "block"} => phase # "reset"
    /\ pc \in {"rdfs", "block"} => phase \in {"write", "read"}
    /\ pc \in {"rdfs", "block"} => i < PATTERN_BUF_SIZE
    /\ pc = "idle" => phase = "write"
    /\ pc # "shift" => out = <<>>
    /\ phase = "read" /\ pc = "ready" => i >= PATTERN_BUF_SIZE
    /\ phase = "exit" => i >= PATTERN_BUF_SIZE
    /\ pc = "block" => stat > 0
    /\ phase = "read" /\ pc = "shift" /\ i > 0 => out = <<>>
    /\ SendsExit => Len(out) <= 1
    /\ Writing => \E a \in Nat : i = a * Half
    /\ phase = "write" /\ pc # "idle" => \A k \in Storage : cmpr[k].b = 0

\* The main program's control, and the command it is in.
SlaveInv ==
    /\ spc = "off" => start = 0
    /\ start = 0 => state = STA_CMD /\ rxfifo = <<>> /\ (Mid => SendsExit /\ out = <<>>)
    /\ state \notin Data => spc \in {"off", "loop", "rearm", "ready"}
    /\ spc \notin {"off", "loop", "rearm", "ready"} => op = state
    /\ spc = "arm" => op = CMD_WRITE
    /\ spc \in {"fill", "put"} => op = CMD_READ
    /\ spc \in {"dma", "undma"} => op \in {CMD_DMARD, CMD_DMAWR}
    /\ spc \in {"empty", "wait_empty"} => op \in Reading
    /\ spc = "wait" => op # CMD_READ

\* The DMA channel is set up while a DMA command waits for it.
DmaInv ==
    /\ dma \in [dir : {"off", "rx", "tx"}, n : 0 .. PATTERN_BUF_SIZE]
    /\ spc \notin {"wait", "undma"} \/ op = CMD_WRITE => dma = NoDma /\ dma_req = FALSE
    /\ spc \in {"wait", "undma"} /\ op = CMD_DMAWR => dma.dir = "rx"
    /\ spc \in {"wait", "undma"} /\ op = CMD_DMARD => dma.dir = "tx"
    /\ spc = "wait" /\ op # CMD_WRITE /\ recovering = FALSE => dma_req = TRUE

\* A flag is set when what it stands for has come, and not before; a reset
\* sets them all, and what they stand for has then to be given up.
FlagInv ==
    /\ recovering = FALSE =>
         /\ op = CMD_WRITE /\ spc \in {"arm", "wait"} /\ rx_complete = 1 =>
              count >= PATTERN_BUF_SIZE
         /\ op = CMD_DMAWR /\ spc = "dma" => rx_complete = 0
         /\ op = CMD_DMAWR /\ spc = "wait" /\ rx_complete = 1 =>
              dma.n = PATTERN_BUF_SIZE
         /\ spc = "fill" /\ tx_complete = 1 => count = PATTERN_BUF_SIZE
         /\ spc = "put" => tx_complete = 0
         /\ op = CMD_DMARD /\ spc = "dma" => tx_complete = 0
         /\ op = CMD_DMARD /\ spc = "wait" /\ tx_complete = 1 =>
              dma.n = PATTERN_BUF_SIZE
         /\ op \in Reading
            /\ spc \in {"fill", "put", "dma", "wait", "undma", "empty"} =>
              tx_finish = 0
         /\ spc = "wait_empty" /\ tx_finish = 1 => txfifo = <<>>
    /\ spc = "put" => count < PATTERN_BUF_SIZE
    /\ spc = "fill" /\ tx_complete = 0 => count < PATTERN_BUF_SIZE
    /\ state = CMD_WRITE /\ spc \in {"arm", "wait", "flush", "free"} =>
         count + Bytes <= PATTERN_BUF_SIZE + Half

\* The registers the two boards and the handler share.
RegInv ==
    /\ tx_reg0 = "READY" =>
         state = STA_CMD /\ "RXAVAIL" \in ier /\ spc \in {"loop", "rearm", "ready"}
    /\ Mid => recovering = FALSE /\ ~(rx_reg0 = "RESET" /\ tx_reg0 = "RESET_EN")
    /\ recovering = TRUE => tx_reg0 = "RESET_EN" /\ rxfifo = <<>> /\ start = 1
    /\ state = STA_CMD /\ spc \in {"loop", "ready"} => "RXAVAIL" \in ier
    /\ InHeader => "RXAVAIL" \in ier
    /\ state = STA_CMD /\ Sends => "RXAVAIL" \in ier
    /\ SendsExit /\ out # <<>> => "RXAVAIL" \in ier
    /\ state \in Data /\ recovering = FALSE
         /\ (state # CMD_WRITE \/ spc \in {"loop", "clear", "arm", "rearm", "ready"}) =>
           "RXAVAIL" \notin ier
    /\ state = CMD_WRITE /\ spc \in {"wait", "flush", "free"} => "RXAVAIL" \in ier
    /\ "TXFIFO_EMPTY" \in ier =>
         \/ state = STA_CMD /\ ~(Sends /\ Len(out) < 5)
         \/ spc \in {"wait_empty", "flush", "free"}

\* The FIFO has room for what is on its way.
RoomInv ==
    /\ Len(rxfifo) <= FIFO_SIZE
    /\ pc = "shift" /\ i > 0 /\ phase = "write" => Bytes <= FIFO_SIZE
    /\ pc = "block" /\ phase = "write" => Len(rxfifo) + stat <= FIFO_SIZE

\* A slave that waits for a command finds zeros, which it ignores, and then
\* a whole header, or the exit command as the last byte of a run.
IdleInv ==
    /\ state = STA_CMD /\ Sends =>
         /\ Len(out) \in 1 .. 5 /\ Bytes >= 5
         /\ \A j \in 1 .. Bytes :
              /\ j + 4 < Bytes => Wire(j).b = 0
              /\ j + 4 = Bytes => Wire(j).b = Command
              /\ j + 4 > Bytes => HByte(Bytes + 1 - j, Wire(j).b)
    /\ state = STA_CMD /\ ~Sends =>
         \A j \in 1 .. Bytes :
           \/ Wire(j).b = 0
           \/ j = Bytes /\ Wire(j).b = CMD_EXIT /\ (Mid => SendsExit)

\* A slave inside a header finds the rest of it.
HeaderInv ==
    /\ SendsExit => state = STA_CMD
    /\ InHeader =>
         /\ tx_reg0 # "READY" /\ command \in Data
         /\ Sends => Bytes = Rest
         /\ ~Sends => Len(rxfifo) >= Rest
         /\ \A j \in 1 .. Bytes : j <= Rest => HByte(Rest + 1 - j, Wire(j).b)
         /\ state # STA_GET_ADDR_HI => temp_addr = 0
         /\ state = STA_GET_SIZE_LOW => temp_size = 256 * (PATTERN_BUF_SIZE \div 256)
         /\ Mid => Serving /\ command = Command

\* A slave in a command has the whole of it, and it is the one the run asks
\* for.
DataInv ==
    state \in Data =>
        /\ temp_addr = 0 /\ temp_size = PATTERN_BUF_SIZE
        /\ Mid => state = Due

\* While a run writes, the wire carries what is still to be stored, in order.
WriteInv ==
    /\ Writing /\ Early /\ state # STA_CMD =>
         /\ Base + Bytes = i
         /\ \A j \in 1 .. Bytes : For(Base + j - 1, Wire(j))
         /\ \A k \in Storage : k < Base => storage[k].fresh = TRUE
    /\ Writing /\ (~Early \/ (state = STA_CMD /\ ~Sends)) =>
         i >= PATTERN_BUF_SIZE /\ Stored
    /\ (Writing /\ ~Early) \/ spc = "free" => \A j \in 1 .. Bytes : Wire(j).b = 0
    /\ Writing /\ ~Early /\ state = CMD_WRITE => count >= PATTERN_BUF_SIZE
    /\ Writing /\ spc = "undma" => dma.n = PATTERN_BUF_SIZE

\* While a run reads, what the command has put is in the transmit FIFO or in
\* the compare buffer.
ReadInv ==
    /\ txfifo # <<>> =>
         /\ state \in Reading
         /\ spc \in {"fill", "put", "wait", "undma", "empty", "wait_empty",
                     "flush"}
    /\ Reads /\ phase = "read" => Stored
    /\ Reads => \A k \in Storage : k < i => cmpr[k].fresh = TRUE
    /\ Reads /\ InHeader => Bytes = Rest /\ i = 0
    /\ Reads /\ state = STA_CMD /\ ~Sends => i >= PATTERN_BUF_SIZE
    /\ Reads /\ state \in Data => rxfifo = <<>> /\ out = <<>>
    /\ Reads /\ state \in Data /\ spc \notin {"flush", "free"} =>
         /\ i + Len(txfifo) = Cnt /\ Cnt <= PATTERN_BUF_SIZE
         /\ \A j \in 1 .. Len(txfifo) : txfifo[j].fresh = TRUE
         /\ spc \in {"undma", "empty", "wait_empty"} => Cnt = PATTERN_BUF_SIZE
    /\ Reads /\ spc \in {"flush", "free"} => i = PATTERN_BUF_SIZE
    /\ Reads /\ pc = "block" => stat <= Len(txfifo)

\* What a run that passed has compared.
PassInv == pc = "idle" /\ ret = "pass" => \A k \in Storage : cmpr[k] = Byte(k)

Inv == /\ MasterInv /\ SlaveInv /\ DmaInv /\ FlagInv /\ RegInv /\ RoomInv
       /\ IdleInv /\ HeaderInv /\ DataInv /\ WriteInv /\ ReadInv /\ PassInv

IInv == TypeOK /\ (~crossed => Inv)

(***************************************************************************)
(* Numbers and sequences                                                   *)
(***************************************************************************)
\* The FIFO is two halves, and the pattern a number of FIFOs.
LEMMA Sizes ==
    /\ PATTERN_BUF_SIZE \in Nat \ {0} /\ FIFO_SIZE \in Nat \ {0}
    /\ Half \in Nat \ {0}
    /\ FIFO_SIZE = Half + Half /\ FIFO_SIZE <= PATTERN_BUF_SIZE
    /\ MaxRetry \in Nat /\ Backlog \in 1 .. 4 /\ Backlog <= FIFO_SIZE
    /\ PATTERN_BUF_SIZE \div 256 \in 0 .. 255
    /\ PATTERN_BUF_SIZE % 256 \in 0 .. 255
    /\ 256 * (PATTERN_BUF_SIZE \div 256) + (PATTERN_BUF_SIZE % 256)
         = PATTERN_BUF_SIZE
    /\ \E m \in Nat : PATTERN_BUF_SIZE = m * Half
<1>1. /\ PATTERN_BUF_SIZE \in Nat \ {0} /\ FIFO_SIZE \in Nat \ {0}
      /\ MaxRetry \in Nat /\ Backlog \in 1 .. 4 /\ Backlog <= FIFO_SIZE
      /\ PATTERN_BUF_SIZE <= 65535
  BY SpiAssumption DEF SpiAssumption
<1>2. FIFO_SIZE = Half + Half /\ Half \in Nat \ {0}
  BY SpiAssumption, <1>1 DEF SpiAssumption, Half
<1>3. /\ PATTERN_BUF_SIZE \div 256 \in 0 .. 255
      /\ PATTERN_BUF_SIZE % 256 \in 0 .. 255
      /\ 256 * (PATTERN_BUF_SIZE \div 256) + (PATTERN_BUF_SIZE % 256)
           = PATTERN_BUF_SIZE
  BY <1>1
<1> DEFINE q == PATTERN_BUF_SIZE \div FIFO_SIZE
<1>4. q \in Int /\ PATTERN_BUF_SIZE = q * FIFO_SIZE
  BY SpiAssumption, <1>1 DEF SpiAssumption
<1>5. q \in Nat /\ q >= 1
  BY <1>1, <1>4
<1>6. FIFO_SIZE <= PATTERN_BUF_SIZE
  BY <1>1, <1>4, <1>5
<1>7. q + q \in Nat /\ PATTERN_BUF_SIZE = (q + q) * Half
  BY <1>2, <1>4, <1>5
<1>8. \E m \in Nat : PATTERN_BUF_SIZE = m * Half
  BY <1>7, Zenon
<1>9. QED
  BY <1>1, <1>2, <1>3, <1>6, <1>8

\* What is counted in halves and below the end of the pattern is a half below.
LEMMA HalfBelow ==
    ASSUME NEW a \in Nat, a * Half < PATTERN_BUF_SIZE
    PROVE  a * Half + Half <= PATTERN_BUF_SIZE
<1>1. PICK m \in Nat : PATTERN_BUF_SIZE = m * Half
  BY Sizes
<1>2. a + 1 <= m
  BY <1>1, Sizes
<1>3. (a + 1) * Half <= m * Half
  BY <1>2, Sizes
<1>4. QED
  BY <1>1, <1>3, Sizes

LEMMA TailIs ==
    ASSUME NEW S, NEW s \in Seq(S), s # <<>>
    PROVE  /\ Head(s) = s[1] /\ s[1] \in S /\ Len(s) \in Nat /\ Len(s) >= 1
           /\ Tail(s) \in Seq(S) /\ Len(Tail(s)) = Len(s) - 1
           /\ \A j \in 1 .. Len(s) - 1 : Tail(s)[j] = s[j + 1]
OBVIOUS

LEMMA AppendIs ==
    ASSUME NEW S, NEW s \in Seq(S), NEW e \in S
    PROVE  /\ Append(s, e) \in Seq(S) /\ Len(Append(s, e)) = Len(s) + 1
           /\ \A j \in 1 .. Len(s) : Append(s, e)[j] = s[j]
           /\ Append(s, e)[Len(s) + 1] = e
OBVIOUS

LEMMA RestIs ==
    ASSUME NEW S, NEW s \in Seq(S), NEW n \in 0 .. Len(s)
    PROVE  /\ SubSeq(s, n + 1, Len(s)) \in Seq(S)
           /\ Len(SubSeq(s, n + 1, Len(s))) = Len(s) - n
           /\ \A j \in 1 .. Len(s) - n : SubSeq(s, n + 1, Len(s))[j] = s[j + n]
OBVIOUS

LEMMA EmptyIs ==
    ASSUME NEW S, NEW s \in Seq(S)
    PROVE  Len(s) \in Nat /\ (s = <<>> <=> Len(s) = 0) /\ <<>> \in Seq(S)
OBVIOUS

\* The wire is made of bytes.
LEMMA WireType ==
    ASSUME TypeOK
    PROVE  /\ Len(rxfifo) \in Nat /\ Len(out) \in Nat /\ Len(txfifo) \in Nat
           /\ Bytes \in Nat /\ Bytes = Len(rxfifo) + Len(out)
           /\ rxfifo = <<>> <=> Len(rxfifo) = 0
           /\ out = <<>> <=> Len(out) = 0
           /\ txfifo = <<>> <=> Len(txfifo) = 0
           /\ \A j \in 1 .. Len(rxfifo) : Wire(j) = rxfifo[j]
           /\ \A j \in 1 .. Bytes : Wire(j) \in Cells
<1>1. rxfifo \in Seq(Cells) /\ out \in Seq(Cells) /\ txfifo \in Seq(Cells)
  BY DEF TypeOK
<1>2. /\ Len(rxfifo) \in Nat /\ Len(out) \in Nat /\ Len(txfifo) \in Nat
      /\ rxfifo = <<>> <=> Len(rxfifo) = 0
      /\ out = <<>> <=> Len(out) = 0
      /\ txfifo = <<>> <=> Len(txfifo) = 0
  BY <1>1, EmptyIs
<1>3. \A j \in 1 .. Len(rxfifo) : Wire(j) = rxfifo[j]
  BY <1>2 DEF Wire
<1>4. \A j \in 1 .. Bytes : Wire(j) \in Cells
  BY <1>1, <1>2 DEF Wire, Bytes
<1>5. QED
  BY <1>2, <1>3, <1>4 DEF Bytes

\* How the wire changes.
LEMMA WireStays ==
    ASSUME UNCHANGED <<rxfifo, out>>
    PROVE  Bytes' = Bytes /\ \A j \in 1 .. Bytes : Wire(j)' = Wire(j)
BY DEF Bytes, Wire

LEMMA WireShifts ==
    ASSUME TypeOK, out # <<>>, out' = Tail(out),
           rxfifo' = Append(rxfifo, Head(out))
    PROVE  /\ rxfifo' \in Seq(Cells) /\ out' \in Seq(Cells)
           /\ Len(rxfifo') = Len(rxfifo) + 1 /\ Len(out') = Len(out) - 1
           /\ Bytes' = Bytes /\ \A j \in 1 .. Bytes : Wire(j)' = Wire(j)
<1>1. rxfifo \in Seq(Cells) /\ out \in Seq(Cells)
  BY DEF TypeOK
<1>2. /\ Head(out) = out[1] /\ out[1] \in Cells
      /\ out' \in Seq(Cells) /\ Len(out') = Len(out) - 1
      /\ \A j \in 1 .. Len(out) - 1 : out'[j] = out[j + 1]
  BY <1>1, TailIs
<1>3. /\ rxfifo' \in Seq(Cells) /\ Len(rxfifo') = Len(rxfifo) + 1
      /\ \A j \in 1 .. Len(rxfifo) : rxfifo'[j] = rxfifo[j]
      /\ rxfifo'[Len(rxfifo) + 1] = out[1]
  BY <1>1, <1>2, AppendIs
<1>4. Len(rxfifo) \in Nat /\ Len(out) \in Nat
  BY WireType
<1>5. \A j \in 1 .. Bytes : Wire(j)' = Wire(j)
  <2> SUFFICES ASSUME NEW j \in 1 .. Bytes PROVE Wire(j)' = Wire(j)
    OBVIOUS
  <2>1. CASE j <= Len(rxfifo)
    BY <1>3, <1>4, <2>1 DEF Wire
  <2>2. CASE j = Len(rxfifo) + 1
    BY <1>3, <1>4, <2>2 DEF Wire
  <2>3. CASE j > Len(rxfifo) + 1
    <3>1. /\ j - (Len(rxfifo) + 1) \in 1 .. Len(out) - 1
          /\ j - Len(rxfifo) = (j - (Len(rxfifo) + 1)) + 1
      BY <1>4, <2>3 DEF Bytes
    <3>2. Wire(j)' = out'[j - (Len(rxfifo) + 1)]
      <4>1. Len(rxfifo') = Len(rxfifo) + 1 /\ ~(j <= Len(rxfifo'))
        BY <1>3, <1>4, <2>3
      <4>2. Wire(j)' = out'[j - Len(rxfifo')]
        BY <4>1 DEF Wire
      <4>3. QED
        BY <4>1, <4>2
    <3>3. Wire(j) = out[j - Len(rxfifo)]
      BY <1>4, <2>3 DEF Wire
    <3>4. QED
      BY <1>2, <1>4, <3>1, <3>2, <3>3
  <2>4. QED
    BY <1>4, <2>1, <2>2, <2>3 DEF Bytes
<1>6. QED
  BY <1>2, <1>3, <1>4, <1>5 DEF Bytes

LEMMA WireTakes ==
    ASSUME TypeOK, NEW n \in 0 .. Len(rxfifo), out' = out,
           rxfifo' = SubSeq(rxfifo, n + 1, Len(rxfifo))
    PROVE  /\ rxfifo' \in Seq(Cells) /\ Len(rxfifo') = Len(rxfifo) - n
           /\ Bytes' = Bytes - n
           /\ \A j \in 1 .. Bytes - n : Wire(j)' = Wire(j + n)
<1>1. rxfifo \in Seq(Cells) /\ Len(rxfifo) \in Nat /\ Len(out) \in Nat
  BY WireType DEF TypeOK
<1>2. /\ rxfifo' \in Seq(Cells) /\ Len(rxfifo') = Len(rxfifo) - n
      /\ \A j \in 1 .. Len(rxfifo) - n : rxfifo'[j] = rxfifo[j + n]
  BY <1>1, RestIs
<1>3. \A j \in 1 .. Bytes - n : Wire(j)' = Wire(j + n)
  <2> SUFFICES ASSUME NEW j \in 1 .. Bytes - n PROVE Wire(j)' = Wire(j + n)
    OBVIOUS
  <2>1. CASE j <= Len(rxfifo) - n
    BY <1>1, <1>2, <2>1 DEF Wire, Bytes
  <2>2. CASE j > Len(rxfifo) - n
    <3>1. j - (Len(rxfifo) - n) = (j + n) - Len(rxfifo) /\ j + n > Len(rxfifo)
      BY <1>1, <2>2 DEF Bytes
    <3>2. Wire(j)' = out[j - (Len(rxfifo) - n)]
      BY <1>1, <1>2, <2>2 DEF Wire, Bytes
    <3>3. Wire(j + n) = out[(j + n) - Len(rxfifo)]
      BY <1>1, <3>1 DEF Wire, Bytes
    <3>4. QED
      BY <3>1, <3>2, <3>3
  <2>3. QED
    BY <1>1, <2>1, <2>2 DEF Bytes
<1>4. Bytes' = Bytes - n
  BY <1>1, <1>2 DEF Bytes
<1>5. QED
  BY <1>2, <1>3, <1>4

LEMMA WireTakesOne ==
    ASSUME TypeOK, rxfifo # <<>>, out' = out, rxfifo' = Tail(rxfifo)
    PROVE  /\ rxfifo' \in Seq(Cells) /\ Len(rxfifo') = Len(rxfifo) - 1
           /\ Head(rxfifo) = Wire(1) /\ Len(rxfifo) >= 1
           /\ Bytes' = Bytes - 1
           /\ \A j \in 1 .. Bytes - 1 : Wire(j)' = Wire(j + 1)
<1>1. /\ rxfifo \in Seq(Cells) /\ Len(rxfifo) \in Nat /\ Len(out) \in Nat
      /\ Len(rxfifo) >= 1
  BY WireType DEF TypeOK
<1>2. /\ rxfifo' \in Seq(Cells) /\ Len(rxfifo') = Len(rxfifo) - 1
      /\ \A j \in 1 .. Len(rxfifo) - 1 : rxfifo'[j] = rxfifo[j + 1]
      /\ Head(rxfifo) = rxfifo[1]
  BY <1>1, TailIs
<1>3. \A j \in 1 .. Bytes - 1 : Wire(j)' = Wire(j + 1)
  <2> SUFFICES ASSUME NEW j \in 1 .. Bytes - 1 PROVE Wire(j)' = Wire(j + 1)
    OBVIOUS
  <2>1. CASE j <= Len(rxfifo) - 1
    BY <1>1, <1>2, <2>1 DEF Wire, Bytes
  <2>2. CASE j > Len(rxfifo) - 1
    <3>1. j - (Len(rxfifo) - 1) = (j + 1) - Len(rxfifo) /\ j + 1 > Len(rxfifo)
      BY <1>1, <2>2 DEF Bytes
    <3>2. Wire(j)' = out[j - (Len(rxfifo) - 1)]
      BY <1>1, <1>2, <2>2 DEF Wire, Bytes
    <3>3. Wire(j + 1) = out[(j + 1) - Len(rxfifo)]
      BY <1>1, <3>1 DEF Wire, Bytes
    <3>4. QED
      BY <3>1, <3>2, <3>3
  <2>3. QED
    BY <1>1, <2>1, <2>2 DEF Bytes
<1>4. QED
  BY <1>1, <1>2, <1>3 DEF Bytes, Wire

LEMMA WireClears ==
    ASSUME TypeOK, out' = out, rxfifo' = <<>>
    PROVE  /\ rxfifo' \in Seq(Cells) /\ Len(rxfifo') = 0
           /\ Bytes' = Len(out)
           /\ \A j \in 1 .. Len(out) : Wire(j)' = Wire(j + Len(rxfifo))
<1>1. /\ rxfifo \in Seq(Cells) /\ Len(rxfifo) \in Nat /\ Len(out) \in Nat
      /\ rxfifo' \in Seq(Cells) /\ Len(rxfifo') = 0
  BY WireType, EmptyIs DEF TypeOK
<1>2. \A j \in 1 .. Len(out) : Wire(j)' = Wire(j + Len(rxfifo))
  BY <1>1 DEF Wire
<1>3. Bytes' = Len(out)
  <2>1. Bytes' = Len(rxfifo') + Len(out')
    BY DEF Bytes
  <2>2. Len(out') = Len(out)
    OBVIOUS
  <2>3. QED
    BY <1>1, <2>1, <2>2
<1>4. QED
  BY <1>1, <1>2, <1>3

LEMMA WireLoads ==
    ASSUME TypeOK, out = <<>>, out' \in Seq(Cells), rxfifo' = rxfifo
    PROVE  /\ Bytes' = Len(rxfifo) + Len(out') /\ Len(out') \in Nat
           /\ Bytes = Len(rxfifo)
           /\ \A j \in 1 .. Len(rxfifo) : Wire(j)' = Wire(j)
           /\ \A j \in Len(rxfifo) + 1 .. Len(rxfifo) + Len(out') :
                Wire(j)' = out'[j - Len(rxfifo)]
<1>1. Len(rxfifo) \in Nat /\ Len(out) = 0 /\ Len(out') \in Nat
  BY WireType, EmptyIs
<1>2. Bytes' = Len(rxfifo) + Len(out') /\ Bytes = Len(rxfifo)
  <2>1. Bytes' = Len(rxfifo') + Len(out') /\ Bytes = Len(rxfifo) + Len(out)
    BY DEF Bytes
  <2>2. Len(rxfifo') = Len(rxfifo)
    OBVIOUS
  <2>3. QED
    BY <1>1, <2>1, <2>2
<1>3. \A j \in 1 .. Len(rxfifo) : Wire(j)' = Wire(j)
  BY <1>1 DEF Wire
<1>4. \A j \in Len(rxfifo) + 1 .. Len(rxfifo) + Len(out') :
        Wire(j)' = out'[j - Len(rxfifo)]
  BY <1>1 DEF Wire
<1>5. QED
  BY <1>1, <1>2, <1>3, <1>4

LEMMA WireDrops ==
    ASSUME TypeOK, out' = <<>>, rxfifo' = rxfifo
    PROVE  /\ out' \in Seq(Cells) /\ Len(out') = 0
           /\ Bytes' = Len(rxfifo)
           /\ \A j \in 1 .. Len(rxfifo) : Wire(j)' = Wire(j)
<1>1. Len(rxfifo) \in Nat /\ Len(out') = 0 /\ out' \in Seq(Cells)
  BY WireType, EmptyIs
<1>2. Bytes' = Len(rxfifo)
  <2>1. Bytes' = Len(rxfifo') + Len(out')
    BY DEF Bytes
  <2>2. Len(rxfifo') = Len(rxfifo)
    OBVIOUS
  <2>3. QED
    BY <1>1, <2>1, <2>2
<1>3. \A j \in 1 .. Len(rxfifo) : Wire(j)' = Wire(j)
  BY <1>1 DEF Wire
<1>4. QED
  BY <1>1, <1>2, <1>3

\* What does not change with the other board.
LEMMA MasterStays ==
    ASSUME UNCHANGED <<pc, type, phase, i>>
    PROVE  /\ Sends' <=> Sends
           /\ SendsExit' <=> SendsExit
           /\ Mid' <=> Mid
           /\ Writing' <=> Writing
           /\ Reads' <=> Reads
           /\ Serving' <=> Serving
           /\ Due' = Due /\ Command' = Command
BY DEF Sends, SendsExit, Mid, Writing, Reads, Serving, Due, Command

LEMMA SlaveStays ==
    ASSUME UNCHANGED <<state, spc, count, dma>>
    PROVE  /\ InHeader' <=> InHeader
           /\ Early' <=> Early
           /\ Rest' = Rest /\ Base' = Base /\ Cnt' = Cnt
BY DEF InHeader, Early, Rest, Base, Cnt

LEMMA Counters ==
    ASSUME TypeOK, DmaInv
    PROVE  Base \in Int /\ Cnt \in Int /\ Rest \in Int /\ dma.n \in 0 .. PATTERN_BUF_SIZE
<1>1. dma.n \in 0 .. PATTERN_BUF_SIZE /\ count \in Nat /\ state \in Int
  BY Sizes DEF TypeOK, DmaInv
<1>2. QED
  BY <1>1, Sizes DEF Base, Cnt, Rest, InHeader

LEMMA BlockIs ==
    ASSUME NEW S, NEW n \in Nat, NEW s \in [1 .. n -> S]
    PROVE  s \in Seq(S) /\ Len(s) = n
OBVIOUS

\* What earlier runs left keeps its values.
LEMMA AgedIs ==
    ASSUME NEW c \in Cells
    PROVE  Aged(c) \in Cells /\ Aged(c).b = c.b
BY DEF Aged, Cells

LEMMA AgedSeqIs ==
    ASSUME NEW s \in Seq(Cells), NEW s2, s2 = [k \in DOMAIN s |-> Aged(s[k])]
    PROVE  /\ s2 \in Seq(Cells) /\ Len(s2) = Len(s)
           /\ \A j \in 1 .. Len(s) : s2[j].b = s[j].b
<1>1. DOMAIN s = 1 .. Len(s) /\ Len(s) \in Nat /\ \A k \in 1 .. Len(s) : s[k] \in Cells
  OBVIOUS
<1>2. \A k \in 1 .. Len(s) : Aged(s[k]) \in Cells /\ Aged(s[k]).b = s[k].b
  BY <1>1, AgedIs
<1>3. s2 = [k \in 1 .. Len(s) |-> Aged(s[k])]
  BY <1>1
<1>4. s2 \in Seq(Cells)
  BY <1>2, <1>3, <1>1, BlockIs
<1>5. Len(s2) = Len(s)
  BY <1>1, <1>3, <1>2, BlockIs
<1>6. \A j \in 1 .. Len(s) : s2[j].b = s[j].b
  BY <1>2, <1>3
<1>7. QED
  BY <1>4, <1>5, <1>6

LEMMA StoredStays ==
    ASSUME UNCHANGED storage
    PROVE  Stored' <=> Stored
BY DEF Stored

\* The sizes and the counters as the arithmetic of a step needs them.
LEMMA Numbers ==
    ASSUME TypeOK, Inv
    PROVE  /\ PATTERN_BUF_SIZE \in Nat \ {0} /\ FIFO_SIZE \in Nat \ {0}
           /\ Half \in Nat \ {0} /\ FIFO_SIZE = Half + Half
           /\ FIFO_SIZE <= PATTERN_BUF_SIZE /\ MaxRetry \in Nat
           /\ Base \in Int /\ Cnt \in Int /\ Rest \in Int
           /\ dma.n \in 0 .. PATTERN_BUF_SIZE
BY Sizes, Counters DEF Inv

\* A header is five bytes.
LEMMA HeaderIs ==
    /\ Header \in Seq(Cells) /\ Len(Header) = 5 /\ Command \in Data
    /\ Header[1].b = Command /\ Header[2].b = 0 /\ Header[3].b = 0
    /\ Header[4].b = PATTERN_BUF_SIZE \div 256
    /\ Header[5].b = PATTERN_BUF_SIZE % 256
<1>1. Command \in Data /\ Command \in 0 .. 255
  BY DEF Command
<1>2. \A b \in 0 .. 255 : Plain(b) \in Cells /\ Plain(b).b = b
  BY DEF Plain, Cells
<1>3. /\ Plain(Command) \in Cells /\ Plain(0) \in Cells
      /\ Plain(PATTERN_BUF_SIZE \div 256) \in Cells
      /\ Plain(PATTERN_BUF_SIZE % 256) \in Cells
      /\ Plain(Command).b = Command /\ Plain(0).b = 0
      /\ Plain(PATTERN_BUF_SIZE \div 256).b = PATTERN_BUF_SIZE \div 256
      /\ Plain(PATTERN_BUF_SIZE % 256).b = PATTERN_BUF_SIZE % 256
  <2>1. /\ PATTERN_BUF_SIZE \div 256 \in 0 .. 255
        /\ PATTERN_BUF_SIZE % 256 \in 0 .. 255
        /\ 0 \in 0 .. 255
    BY Sizes
  <2>2. QED
    BY <1>1, <1>2, <2>1, ZenonT(30)
<1>4. Header \in Seq(Cells)
  BY <1>3 DEF Header
<1>5. /\ Len(Header) = 5 /\ Header[1] = Plain(Command) /\ Header[2] = Plain(0)
      /\ Header[3] = Plain(0) /\ Header[4] = Plain(PATTERN_BUF_SIZE \div 256)
      /\ Header[5] = Plain(PATTERN_BUF_SIZE % 256)
  BY DEF Header
<1>6. QED
  BY <1>1, <1>3, <1>4, <1>5

\* A byte of the storage or of the compare buffer.
LEMMA CellIs ==
    /\ \A b \in 0 .. 255 : Plain(b) \in Cells /\ Plain(b).b = b
    /\ Empty \in [0 .. PATTERN_BUF_SIZE - 1 -> Cells]
    /\ Empty \in [Storage -> Cells]
    /\ \A k \in Storage : Empty[k].b = 0
<1>1. \A b \in 0 .. 255 : Plain(b) \in Cells /\ Plain(b).b = b
  BY DEF Plain, Cells
<1>2. Plain(0) \in Cells /\ Plain(0).b = 0
  BY <1>1
<1>3. QED
  BY <1>1, <1>2 DEF Empty

LEMMA WireBegin ==
    ASSUME TypeOK, out = <<>>, out' = <<>>, Len(rxfifo') = Len(rxfifo),
           \A j \in 1 .. Len(rxfifo) : rxfifo'[j].b = rxfifo[j].b
    PROVE  /\ Bytes' = Bytes /\ Bytes = Len(rxfifo)
           /\ \A j \in 1 .. Bytes : Wire(j)'.b = Wire(j).b
<1>1. Len(rxfifo) \in Nat /\ Len(out) = 0 /\ Len(out') = 0
  BY WireType, EmptyIs
<1>2. Bytes' = Len(rxfifo') + Len(out') /\ Bytes = Len(rxfifo) + Len(out)
  BY DEF Bytes
<1>3. Bytes' = Bytes /\ Bytes = Len(rxfifo)
  BY <1>1, <1>2
<1>4. \A j \in 1 .. Bytes : Wire(j)'.b = Wire(j).b
  BY <1>1, <1>3 DEF Wire
<1>5. QED
  BY <1>3, <1>4

\* What the handler does with a byte of a header.
LEMMA RxFacts ==
    ASSUME TypeOK, RxHeader, NEW b, b = Head(rxfifo).b
    PROVE  /\ rxfifo # <<>> /\ rxfifo' = Tail(rxfifo) /\ b \in 0 .. 255
           /\ spc # "off" /\ "RXAVAIL" \in ier
           /\ state \in {0} \cup 16 .. 19
           /\ UNCHANGED <<pc, type, phase, i, stat, out, retry, cmpr, ret, spc,
                          count, op, rx_complete, tx_complete, tx_finish,
                          storage, rx_reg0, txfifo, dma_req, dma, recovering,
                          crossed>>
           /\ state = 0 =>
                /\ command' = b /\ UNCHANGED <<temp_addr, temp_size, ier>>
                /\ b = 15 => start' = 0 /\ UNCHANGED <<tx_reg0, state>>
                /\ b \in Data => state' = 16 /\ tx_reg0' = "BUSY" /\ start' = start
                /\ b \notin Data \cup {15} => UNCHANGED <<start, tx_reg0, state>>
           /\ state # 0 => UNCHANGED <<command, start, tx_reg0>>
           /\ state \in 16 .. 18 => state' = state + 1 /\ ier' = ier
           /\ state \in {16, 18, 19} => temp_addr' = (IF state = 16 THEN 256 * b ELSE temp_addr)
           /\ state = 17 => temp_addr' = temp_addr + b
           /\ state \in {16, 17} => temp_size' = temp_size
           /\ state = 18 => temp_size' = 256 * b
           /\ state = 19 => /\ temp_size' = temp_size + b /\ state' = command
                            /\ ier' = ier \ {"RXAVAIL"}
<1>1. RunState /\ RxAvail /\ state \notin Data
  BY DEF RxHeader
<1>2. UNCHANGED <<pc, type, phase, i, stat, out, retry, cmpr, ret, spc, count,
                  op, rx_complete, tx_complete, tx_finish, storage, rx_reg0,
                  txfifo, dma_req, dma, recovering, crossed>>
  BY DEF RxHeader, master, flags, hist
<1>3. rxfifo # <<>> /\ spc # "off" /\ "RXAVAIL" \in ier
  BY <1>1 DEF RxAvail
<1>4. b \in 0 .. 255
  <2>1. rxfifo[1] \in Cells /\ Head(rxfifo) = rxfifo[1]
    BY <1>3, TailIs DEF TypeOK
  <2>2. QED
    BY <2>1 DEF Cells
<1>5. state \in {0} \cup 16 .. 19
  BY <1>1 DEF TypeOK
<1>6. /\ rxfifo' = Tail(rxfifo)
      /\ command' = IF state = 0 THEN b ELSE command
      /\ start'   = IF state = 0 /\ b = 15 THEN 0 ELSE start
      /\ tx_reg0' = IF state = 0 /\ b \in Data THEN "BUSY" ELSE tx_reg0
      /\ ier'     = IF state = 19 THEN ier \ {"RXAVAIL"} ELSE ier
  BY <1>1 DEF RunState
<1>7. /\ temp_addr' = CASE state = 16 -> 256 * b
                        [] state = 17 -> temp_addr + b
                        [] OTHER      -> temp_addr
      /\ temp_size' = CASE state = 18 -> 256 * b
                        [] state = 19 -> temp_size + b
                        [] OTHER      -> temp_size
      /\ state' = CASE state = 0 -> IF b \in Data THEN 16 ELSE 0
                    [] state = 19 -> command
                    [] OTHER      -> state + 1
  BY <1>1 DEF RunState
<1>8. state = 0 =>
        /\ command' = b /\ UNCHANGED <<temp_addr, temp_size, ier>>
        /\ b = 15 => start' = 0 /\ UNCHANGED <<tx_reg0, state>>
        /\ b \in Data => state' = 16 /\ tx_reg0' = "BUSY" /\ start' = start
        /\ b \notin Data \cup {15} => UNCHANGED <<start, tx_reg0, state>>
  BY <1>6, <1>7
<1>9. state # 0 => UNCHANGED <<command, start, tx_reg0>>
  BY <1>6
<1>10. /\ state \in 16 .. 18 => state' = state + 1 /\ ier' = ier
       /\ state \in {16, 18, 19} => temp_addr' = (IF state = 16 THEN 256 * b ELSE temp_addr)
       /\ state = 17 => temp_addr' = temp_addr + b
       /\ state \in {16, 17} => temp_size' = temp_size
       /\ state = 18 => temp_size' = 256 * b
       /\ state = 19 => /\ temp_size' = temp_size + b /\ state' = command
                        /\ ier' = ier \ {"RXAVAIL"}
  BY <1>6, <1>7
<1>11. QED
  BY <1>2, <1>3, <1>4, <1>5, <1>6, <1>8, <1>9, <1>10

\* What a block read takes from the FIFO.
Offered == IF Len(txfifo) < stat THEN Len(txfifo) ELSE stat

(***************************************************************************)
(* The steps                                                               *)
(*                                                                         *)
(* One lemma for each action.  Its lettered steps say what the action      *)
(* changes (<1>a) and what that means for the numbers (z), the place of    *)
(* the master (m) and of the slave (s, k), the storage (q) and the bytes   *)
(* on the wire (t, w); the numbered ones are the parts of the invariant.   *)
(***************************************************************************)

\* A run begins.
LEMMA BeginStep ==
    ASSUME TypeOK, Inv, ~crossed, NEW t \in {"normal", "hdma", "reset"},
           Begin(t)
    PROVE  TypeOK' /\ Inv'
<1>a. /\ pc = "idle" /\ i' = 0 /\ stat' = 0 /\ out' = <<>> /\ retry' = 0
      /\ ret' = "none"
      /\ type' \in {"normal", "hdma", "reset"}
      /\ \/ pc' = "reset_en" /\ phase' = "reset"
         \/ pc' = "ready" /\ phase' = "write"
      /\ cmpr' = Empty
      /\ storage' = [k \in Storage |-> Aged(storage[k])]
      /\ rxfifo' = [k \in DOMAIN rxfifo |-> Aged(rxfifo[k])]
      /\ txfifo' = [k \in DOMAIN txfifo |-> Aged(txfifo[k])]
      /\ UNCHANGED <<spc, start, state, command, temp_addr, temp_size, count,
                     op, rx_complete, tx_complete, tx_finish, ier, tx_reg0,
                     rx_reg0, dma_req, dma, recovering, crossed>>
  BY DEF Begin, soft, flags, hist
<1>m. /\ ~Sends /\ ~SendsExit /\ ~Mid /\ ~Writing /\ ~Reads /\ ~Serving
      /\ ~Sends' /\ ~SendsExit' /\ ~Mid' /\ ~Writing' /\ ~Reads' /\ ~Serving'
  BY <1>a DEF Sends, SendsExit, Mid, Writing, Reads, Serving
<1>e. /\ rxfifo' \in Seq(Cells) /\ Len(rxfifo') = Len(rxfifo)
      /\ \A j \in 1 .. Len(rxfifo) : rxfifo'[j].b = rxfifo[j].b
  BY <1>a, AgedSeqIs DEF TypeOK
<1>f. txfifo' \in Seq(Cells) /\ Len(txfifo') = Len(txfifo)
  BY <1>a, AgedSeqIs DEF TypeOK
<1>w. /\ out = <<>> /\ Bytes' = Bytes /\ Bytes = Len(rxfifo)
      /\ \A j \in 1 .. Bytes : Wire(j)'.b = Wire(j).b
  BY <1>a, <1>e, WireType, WireBegin DEF Inv, MasterInv
<1>1. TypeOK'
  <2>1. /\ type' \in {"normal", "hdma", "reset"}
        /\ phase' \in {"write", "read", "exit", "reset"}
        /\ pc' \in {"idle", "ready", "shift", "rdfs", "block", "reset_en",
                    "reseten", "reset"}
        /\ stat' \in {0, Half, FIFO_SIZE}
        /\ out' \in Seq(Cells)
        /\ ret' \in {"none", "pass", "fail", "error", "reset"}
        /\ storage' \in [Storage -> Cells]
    BY <1>a, AgedIs DEF TypeOK
  <2>2. /\ i' \in 0 .. PATTERN_BUF_SIZE + Half
        /\ retry' \in 0 .. MaxRetry + 1
    BY <1>a, Numbers
  <2>3. cmpr' \in [0 .. PATTERN_BUF_SIZE - 1 -> Cells]
    BY <1>a, CellIs
  <2>4. rxfifo' \in Seq(Cells)
    BY <1>e
  <2>5. txfifo' \in Seq(Cells)
    BY <1>f
  <2>6. QED
    BY <1>a, <2>1, <2>2, <2>3, <2>4, <2>5 DEF TypeOK
<1>2. MasterInv'
  BY <1>a, <1>m, CellIs DEF Inv, MasterInv
<1>3. SlaveInv'
  BY <1>a, <1>m DEF Inv, SlaveInv
<1>4. DmaInv'
  BY <1>a DEF Inv, DmaInv
<1>5. FlagInv'
  BY <1>a, <1>w DEF Inv, FlagInv
<1>6. RegInv'
  BY <1>a, <1>m, SlaveStays DEF Inv, RegInv
<1>7. RoomInv'
  BY <1>a, <1>m, <1>e DEF Inv, RoomInv
<1>8. IdleInv'
  BY <1>a, <1>m, <1>w DEF Inv, IdleInv
<1>9. HeaderInv'
  BY <1>a, <1>m, <1>w, SlaveStays DEF Inv, HeaderInv
<1>10. DataInv'
  BY <1>a, <1>m DEF Inv, DataInv
<1>11. WriteInv'
  BY <1>a, <1>m, <1>w DEF Inv, WriteInv
<1>12. ReadInv'
  BY <1>a, <1>m DEF Inv, ReadInv
<1>13. PassInv'
  BY <1>a DEF Inv, PassInv
<1>14. QED
  BY <1>1, <1>2, <1>3, <1>4, <1>5, <1>6, <1>7, <1>8, <1>9, <1>10, <1>11, <1>12,
     <1>13
     DEF Inv

\* The slave is READY after a reset: the run ends.
LEMMA PollResetType ==
    ASSUME TypeOK, Inv, ~crossed, PollReady, tx_reg0 = "READY", phase = "reset"
    PROVE  TypeOK'
<1>a. /\ pc = "ready" /\ pc' = "idle" /\ phase' = "write" /\ type' = "normal"
      /\ i' = 0 /\ stat' = 0 /\ out' = <<>> /\ retry' = 0 /\ ret' = "reset"
      /\ cmpr' = cmpr
      /\ UNCHANGED <<spc, start, state, command, temp_addr, temp_size, count,
                     op, rx_complete, tx_complete, tx_finish, storage, ier,
                     tx_reg0, rx_reg0, rxfifo, txfifo, dma_req, dma,
                     recovering>>
  BY DEF PollReady, Leave, soft, flags, hard
<1>1. type' \in {"normal", "hdma", "reset"}
  BY <1>a
<1>2. phase' \in {"write", "read", "exit", "reset"}
  BY <1>a
<1>3. pc' \in {"idle", "ready", "shift", "rdfs", "block", "reset_en",
               "reseten", "reset"}
  BY <1>a
<1>4. i' \in 0 .. PATTERN_BUF_SIZE + Half
  BY <1>a, Numbers
<1>5. stat' \in {0, Half, FIFO_SIZE}
  BY <1>a
<1>6. out' \in Seq(Cells)
  BY <1>a
<1>7. retry' \in 0 .. MaxRetry + 1
  BY <1>a, Numbers
<1>8. ret' \in {"none", "pass", "fail", "error", "reset"}
  BY <1>a
<1>9. cmpr' \in [0 .. PATTERN_BUF_SIZE - 1 -> Cells]
  BY <1>a DEF TypeOK
<1>10. crossed' \in BOOLEAN
  BY Zenon DEF TypeOK, PollReady, Exiting
<1>11. QED
  BY <1>a, <1>1, <1>2, <1>3, <1>4, <1>5, <1>6, <1>7, <1>8, <1>9, <1>10
     DEF TypeOK

LEMMA PollResetStep ==
    ASSUME TypeOK, Inv, ~crossed, PollReady, tx_reg0 = "READY",
           phase = "reset", ~crossed'
    PROVE  Inv'
<1>a. /\ pc = "ready" /\ pc' = "idle" /\ phase' = "write" /\ type' = "normal"
      /\ i' = 0 /\ stat' = 0 /\ out' = <<>> /\ retry' = 0 /\ ret' = "reset"
      /\ cmpr' = cmpr
      /\ UNCHANGED <<spc, start, state, command, temp_addr, temp_size, count,
                     op, rx_complete, tx_complete, tx_finish, storage, ier,
                     tx_reg0, rx_reg0, rxfifo, txfifo, dma_req, dma,
                     recovering>>
  BY DEF PollReady, Leave, soft, flags, hard
<1>m. /\ ~Sends /\ ~SendsExit /\ ~Mid /\ ~Writing /\ ~Reads /\ ~Serving
      /\ ~Sends' /\ ~SendsExit' /\ ~Mid' /\ ~Writing' /\ ~Reads' /\ ~Serving'
  BY <1>a DEF Sends, SendsExit, Mid, Writing, Reads, Serving
<1>w. /\ out = <<>> /\ Bytes' = Bytes /\ Bytes = Len(rxfifo)
      /\ \A j \in 1 .. Bytes : Wire(j)' = Wire(j)
  BY <1>a, WireType, WireDrops DEF Inv, MasterInv
<1>1. MasterInv'
  BY <1>a, <1>m DEF Inv, MasterInv
<1>2. SlaveInv'
  BY <1>a, <1>m DEF Inv, SlaveInv
<1>3. DmaInv'
  BY <1>a DEF Inv, DmaInv
<1>4. FlagInv'
  BY <1>a, <1>w DEF Inv, FlagInv
<1>5. RegInv'
  BY <1>a, <1>m DEF Inv, RegInv
<1>6. RoomInv'
  BY <1>a DEF Inv, RoomInv
<1>7. IdleInv'
  BY <1>a, <1>m, <1>w DEF Inv, IdleInv
<1>8. HeaderInv'
  BY <1>a, <1>m, SlaveStays DEF Inv, HeaderInv
<1>9. DataInv'
  BY <1>a, <1>m DEF Inv, DataInv
<1>10. WriteInv'
  BY <1>a, <1>m, <1>w DEF Inv, WriteInv
<1>11. ReadInv'
  BY <1>a, <1>m DEF Inv, ReadInv
<1>12. PassInv'
  BY <1>a DEF Inv, PassInv
<1>13. QED
  BY <1>1, <1>2, <1>3, <1>4, <1>5, <1>6, <1>7, <1>8, <1>9, <1>10, <1>11, <1>12
     DEF Inv

\* READY before the exit: the command is sent.
LEMMA PollExitType ==
    ASSUME TypeOK, Inv, ~crossed, PollReady, tx_reg0 = "READY", phase = "exit"
    PROVE  TypeOK'
<1>a. /\ pc = "ready" /\ pc' = "shift"
      /\ out' = <<Plain(CMD_EXIT)>>
      /\ tx_reg0 = "READY" /\ phase = "exit"
      /\ UNCHANGED <<type, phase, i, stat, retry, cmpr, ret, spc, start, state,
                     command, temp_addr, temp_size, count, op, rx_complete,
                     tx_complete, tx_finish, storage, ier, tx_reg0, rx_reg0,
                     rxfifo, txfifo, dma_req, dma, recovering>>
  BY DEF PollReady, soft, flags, hard
<1>1. pc' \in {"idle", "ready", "shift", "rdfs", "block", "reset_en",
               "reseten", "reset"}
  BY <1>a
<1>2. out' \in Seq(Cells)
  BY <1>a, CellIs
<1>3. crossed' \in BOOLEAN
  BY Zenon DEF TypeOK, PollReady, Exiting
<1>4. QED
  BY <1>a, <1>1, <1>2, <1>3 DEF TypeOK

LEMMA PollExitStep ==
    ASSUME TypeOK, Inv, ~crossed, PollReady, tx_reg0 = "READY", phase = "exit",
           ~crossed'
    PROVE  Inv'
<1>a. /\ pc = "ready" /\ pc' = "shift"
      /\ out' = <<Plain(CMD_EXIT)>>
      /\ tx_reg0 = "READY" /\ phase = "exit"
      /\ UNCHANGED <<type, phase, i, stat, retry, cmpr, ret, spc, start, state,
                     command, temp_addr, temp_size, count, op, rx_complete,
                     tx_complete, tx_finish, storage, ier, tx_reg0, rx_reg0,
                     rxfifo, txfifo, dma_req, dma, recovering>>
  BY DEF PollReady, soft, flags, hard
<1>m. /\ Mid /\ Reads /\ ~Writing /\ ~Sends /\ ~SendsExit /\ ~Serving
      /\ Mid' /\ Reads' /\ ~Writing' /\ ~Sends' /\ SendsExit' /\ ~Serving'
      /\ Due' = Due /\ Command' = Command
  BY <1>a DEF Sends, SendsExit, Mid, Writing, Reads, Serving, Due, Command
<1>w. /\ out = <<>> /\ Bytes = Len(rxfifo) /\ Bytes' = Len(rxfifo) + 1
      /\ Len(out') = 1
      /\ out' # <<>> /\ out' \in Seq(Cells)
      /\ \A j \in 1 .. Len(rxfifo) : Wire(j)' = Wire(j)
      /\ Wire(Len(rxfifo) + 1)'.b = CMD_EXIT
  <2>1. Plain(CMD_EXIT) \in Cells /\ Plain(CMD_EXIT).b = CMD_EXIT
    BY CellIs
  <2>2. /\ out' \in Seq(Cells) /\ Len(out') = 1 /\ out'[1] = Plain(CMD_EXIT)
        /\ out' # <<>>
    BY <1>a, <2>1
  <2>3. out = <<>> /\ rxfifo' = rxfifo
    BY <1>a DEF Inv, MasterInv
  <2>4. /\ Bytes = Len(rxfifo) /\ Bytes' = Len(rxfifo) + 1
        /\ \A j \in 1 .. Len(rxfifo) : Wire(j)' = Wire(j)
        /\ \A j \in Len(rxfifo) + 1 .. Len(rxfifo) + 1 :
             Wire(j)' = out'[j - Len(rxfifo)]
    BY <2>2, <2>3, WireLoads
  <2>5. Wire(Len(rxfifo) + 1)' = out'[1]
    <3>1. PICK n \in Nat : n = Len(rxfifo)
      BY WireType
    <3>2. Len(rxfifo') = n /\ Wire(n + 1)' = out'[n + 1 - n]
      BY <2>3, <2>4, <3>1, WireType
    <3>3. Wire(Len(rxfifo) + 1)' = Wire(n + 1)'
      BY <2>3, <3>1
    <3>4. QED
      BY <3>2, <3>3
  <2>6. QED
    BY <2>1, <2>2, <2>3, <2>4, <2>5
<1>1. MasterInv'
  BY <1>a, <1>m DEF Inv, MasterInv
<1>2. SlaveInv'
  BY <1>a, <1>m DEF Inv, SlaveInv
<1>3. DmaInv'
  BY <1>a DEF Inv, DmaInv
<1>4. FlagInv'
  BY <1>a DEF Inv, FlagInv, RegInv
<1>5. RegInv'
  BY <1>a, <1>m DEF Inv, RegInv
<1>6. RoomInv'
  BY <1>a DEF Inv, RoomInv
<1>7. IdleInv'
  BY <1>a, <1>m, <1>w DEF Inv, IdleInv
<1>8. HeaderInv'
  BY <1>a, SlaveStays DEF Inv, HeaderInv, RegInv
<1>9. DataInv'
  BY <1>a, <1>m DEF Inv, DataInv
<1>10. WriteInv'
  BY <1>a, <1>m DEF Inv, WriteInv, RegInv
<1>11. ReadInv'
  BY <1>a, <1>m, SlaveStays DEF Inv, ReadInv, RegInv, HeaderInv
<1>12. PassInv'
  BY <1>a DEF Inv, PassInv
<1>13. QED
  BY <1>1, <1>2, <1>3, <1>4, <1>5, <1>6, <1>7, <1>8, <1>9, <1>10, <1>11, <1>12
     DEF Inv

\* READY before a command: its header is sent.
LEMMA PollGoType ==
    ASSUME TypeOK, Inv, ~crossed, PollReady, tx_reg0 = "READY",
           phase \in {"write", "read"}
    PROVE  TypeOK'
<1>a. /\ pc = "ready" /\ pc' = "shift" /\ i' = 0
      /\ out' = Header
      /\ tx_reg0 = "READY" /\ phase \in {"write", "read"}
      /\ UNCHANGED <<type, phase, stat, retry, cmpr, ret, spc, start, state,
                     command, temp_addr, temp_size, count, op, rx_complete,
                     tx_complete, tx_finish, storage, ier, tx_reg0, rx_reg0,
                     rxfifo, txfifo, dma_req, dma, recovering>>
  BY DEF PollReady, soft, flags, hard
<1>1. pc' \in {"idle", "ready", "shift", "rdfs", "block", "reset_en",
               "reseten", "reset"}
  BY <1>a
<1>2. i' \in 0 .. PATTERN_BUF_SIZE + Half
  BY <1>a, Numbers
<1>3. out' \in Seq(Cells)
  BY <1>a, HeaderIs
<1>4. crossed' \in BOOLEAN
  BY Zenon DEF TypeOK, PollReady, Exiting
<1>5. QED
  BY <1>a, <1>1, <1>2, <1>3, <1>4 DEF TypeOK

LEMMA PollGoStep ==
    ASSUME TypeOK, Inv, ~crossed, PollReady, tx_reg0 = "READY",
           phase \in {"write", "read"}, ~crossed'
    PROVE  Inv'
<1>a. /\ pc = "ready" /\ pc' = "shift" /\ i' = 0
      /\ out' = Header
      /\ tx_reg0 = "READY" /\ phase \in {"write", "read"}
      /\ UNCHANGED <<type, phase, stat, retry, cmpr, ret, spc, start, state,
                     command, temp_addr, temp_size, count, op, rx_complete,
                     tx_complete, tx_finish, storage, ier, tx_reg0, rx_reg0,
                     rxfifo, txfifo, dma_req, dma, recovering>>
  BY DEF PollReady, soft, flags, hard
<1>x. ~Exiting
  BY <1>a DEF PollReady, soft, flags, hard
<1>m. /\ ~Sends /\ ~SendsExit /\ ~Serving /\ ~Reads /\ (Mid <=> phase = "read")
      /\ (Writing <=> phase = "read")
      /\ Mid' /\ Sends' /\ ~SendsExit' /\ Serving' /\ (Writing' <=> phase = "write")
      /\ (Reads' <=> phase = "read") /\ Due' = Command' /\ Command' = Command
  BY <1>a DEF Sends, SendsExit, Mid, Writing, Reads, Serving, Due, Command
<1>w. /\ out = <<>> /\ Bytes = Len(rxfifo) /\ Bytes' = Len(rxfifo) + 5
      /\ Len(out') = 5
      /\ \A j \in 1 .. Len(rxfifo) : Wire(j)' = Wire(j)
      /\ \A j \in Len(rxfifo) + 1 .. Len(rxfifo) + 5 :
           Wire(j)' = Header[j - Len(rxfifo)]
      /\ Command \in Data /\ Header[1].b = Command /\ Header[2].b = 0
      /\ Header[3].b = 0 /\ Header[4].b = PATTERN_BUF_SIZE \div 256
      /\ Header[5].b = PATTERN_BUF_SIZE % 256
  BY <1>a, WireLoads, HeaderIs DEF Inv, MasterInv
<1>k. /\ state = STA_CMD /\ state' = STA_CMD
      /\ spc \in {"loop", "rearm", "ready"}
      /\ Early /\ Early'
  BY <1>a DEF Inv, RegInv, Early
<1>1. MasterInv'
  BY <1>a, <1>m, Numbers DEF Inv, MasterInv
<1>2. SlaveInv'
  BY <1>a, <1>x DEF Inv, SlaveInv, Exiting
<1>3. DmaInv'
  BY <1>a DEF Inv, DmaInv
<1>4. FlagInv'
  BY <1>a DEF Inv, FlagInv, RegInv
<1>5. RegInv'
  BY <1>a, <1>w DEF Inv, RegInv
<1>6. RoomInv'
  BY <1>a DEF Inv, RoomInv
<1>7. IdleInv'
  <2>1. (state = STA_CMD /\ Sends =>
          /\ Len(out) \in 1 .. 5 /\ Bytes >= 5)'
    BY <1>a, <1>m, <1>w, SlaveStays
  <2>2. (state = STA_CMD /\ Sends =>
          /\ \A j \in 1 .. Bytes :
               /\ j + 4 < Bytes => Wire(j).b = 0
               /\ j + 4 = Bytes => Wire(j).b = Command
               /\ j + 4 > Bytes => HByte(Bytes + 1 - j, Wire(j).b))'
    <3>1. state = STA_CMD /\ state' = STA_CMD /\ Sends'
      BY <1>a, <1>m DEF Inv, RegInv
    <3>2. \A j \in 1 .. Len(rxfifo) : Wire(j).b = 0
      <4>1. rxfifo \in Seq(Cells) /\ DOMAIN rxfifo = 1 .. Len(rxfifo)
        BY DEF TypeOK
      <4>2. \A j \in 1 .. Len(rxfifo) : rxfifo[j].b # CMD_EXIT
        BY <1>x, <4>1 DEF Exiting
      <4>3. QED
        BY <1>m, <1>w, <3>1, <4>2, WireType DEF Inv, IdleInv
    <3>3. SUFFICES ASSUME NEW j \in 1 .. Bytes'
                   PROVE  /\ j + 4 < Bytes' => Wire(j)'.b = 0
                          /\ j + 4 = Bytes' => Wire(j)'.b = Command'
                          /\ j + 4 > Bytes' => HByte(Bytes' + 1 - j, Wire(j)'.b)
      BY DEF HByte
    <3>4. CASE j <= Len(rxfifo)
      BY <1>w, <3>2, <3>4, WireType
    <3>5. CASE j > Len(rxfifo)
      <4>1. PICK h \in 1 .. 5 : h = j - Len(rxfifo) /\ j = Len(rxfifo) + h
        BY <1>w, <3>5, WireType, SMTT(20)
      <4>2. Wire(j)' = Header[h] /\ Bytes' + 1 - j = 6 - h /\ (j + 4 = Bytes' <=> h = 1)
            /\ ~(j + 4 < Bytes') /\ (j + 4 > Bytes' <=> h > 1)
        BY <1>w, <4>1, WireType
      <4>3. Command' = Command
        BY <1>m
      <4>4. h = 1 \/ h = 2 \/ h = 3 \/ h = 4 \/ h = 5
        BY <4>1
      <4>5. QED
        BY <1>w, <4>2, <4>3, <4>4, SMTT(20) DEF HByte
    <3>6. QED
      BY <1>w, <3>4, <3>5, WireType
  <2>3. (state = STA_CMD /\ ~Sends =>
          \A j \in 1 .. Bytes :
            \/ Wire(j).b = 0
            \/ j = Bytes /\ Wire(j).b = CMD_EXIT /\ (Mid => SendsExit))'
    BY <1>a, <1>m DEF Inv, IdleInv
  <2>4. QED
    BY <2>1, <2>2, <2>3 DEF IdleInv
<1>8. HeaderInv'
  BY <1>a, <1>m, SlaveStays DEF Inv, HeaderInv
<1>9. DataInv'
  BY <1>a, <1>m, <1>k DEF Inv, DataInv
<1>10. WriteInv'
  BY <1>a, <1>k, <1>m DEF WriteInv
<1>11. ReadInv'
  <2>1. /\ (txfifo # <<>> =>
             /\ state \in Reading)'
        /\ (txfifo # <<>> =>
             /\ spc \in {"fill", "put", "wait", "undma", "empty",
                         "wait_empty", "flush"})'
        /\ (Reads => \A k \in Storage : k < i => cmpr[k].fresh = TRUE)'
        /\ (Reads /\ pc = "block" => stat <= Len(txfifo))'
        /\ (Reads /\ state = STA_CMD /\ ~Sends => i >= PATTERN_BUF_SIZE)'
        /\ (Reads /\ state \in Data => rxfifo = <<>> /\ out = <<>>)'
        /\ (Reads /\ state \in Data /\ spc \notin {"flush", "free"} =>
             /\ i + Len(txfifo) = Cnt /\ Cnt <= PATTERN_BUF_SIZE)'
        /\ (Reads /\ state \in Data /\ spc \notin {"flush", "free"} =>
             /\ \A j \in 1 .. Len(txfifo) : txfifo[j].fresh = TRUE)'
        /\ (Reads /\ state \in Data /\ spc \notin {"flush", "free"} =>
            /\ spc \in {"undma", "empty", "wait_empty"} => Cnt = PATTERN_BUF_SIZE)'
        /\ (Reads /\ spc \in {"flush", "free"} => i = PATTERN_BUF_SIZE)'
    BY <1>a, <1>m, <1>k DEF Inv, ReadInv
  <2>2. (Reads /\ phase = "read" => Stored)'
    BY <1>a, <1>m, StoredStays DEF Inv, RegInv, WriteInv
  <2>3. (Reads /\ InHeader => Bytes = Rest /\ i = 0)'
    BY <1>a, SlaveStays DEF Inv, HeaderInv
  <2>4. QED
    BY <2>1, <2>2, <2>3 DEF ReadInv
<1>12. PassInv'
  BY <1>a DEF Inv, PassInv
<1>13. QED
  BY <1>1, <1>2, <1>3, <1>4, <1>5, <1>6, <1>7, <1>8, <1>9, <1>10, <1>11, <1>12
     DEF Inv

\* A run is given up: a poll too many, or a wait that timed out.
LEMMA LeaveStep ==
    ASSUME TypeOK, Inv, ~crossed, Leave("error"),
           pc # "idle" /\ ~Sends /\ ~SendsExit,
           UNCHANGED <<spc, soft, count, flags, storage, hard, hist>>
    PROVE  TypeOK' /\ Inv'
<1>a. /\ pc # "idle" /\ ~Sends /\ ~SendsExit /\ pc' = "idle"
      /\ phase' = "write" /\ type' = "normal"
      /\ i' = 0 /\ stat' = 0 /\ out' = <<>> /\ retry' = 0 /\ ret' = "error"
      /\ cmpr' = Empty
      /\ UNCHANGED <<spc, start, state, command, temp_addr, temp_size, count,
                     op, rx_complete, tx_complete, tx_finish, storage, ier,
                     tx_reg0, rx_reg0, rxfifo, txfifo, dma_req, dma,
                     recovering, crossed>>
  BY DEF Leave, soft, flags, hard, hist
<1>t. /\ Len(rxfifo) \in Nat /\ Len(out) \in Nat /\ Len(txfifo) \in Nat
      /\ Bytes \in Nat /\ Bytes = Len(rxfifo) + Len(out)
      /\ rxfifo = <<>> <=> Len(rxfifo) = 0
      /\ out = <<>> <=> Len(out) = 0
      /\ txfifo = <<>> <=> Len(txfifo) = 0
      /\ \A j \in 1 .. Len(rxfifo) : Wire(j) = rxfifo[j]
      /\ \A j \in 1 .. Bytes : Wire(j) \in Cells
  BY WireType
<1>z. /\ PATTERN_BUF_SIZE \in Nat \ {0} /\ FIFO_SIZE \in Nat \ {0}
      /\ Half \in Nat \ {0} /\ FIFO_SIZE = Half + Half
      /\ FIFO_SIZE <= PATTERN_BUF_SIZE /\ MaxRetry \in Nat
      /\ Base \in Int /\ Cnt \in Int /\ Rest \in Int
      /\ dma.n \in 0 .. PATTERN_BUF_SIZE
  BY Sizes, Counters DEF Inv
<1>s. /\ InHeader' <=> InHeader
      /\ Early' <=> Early
      /\ Rest' = Rest /\ Base' = Base /\ Cnt' = Cnt
  BY <1>a, SlaveStays
<1>m. ~Sends' /\ ~SendsExit' /\ ~Mid' /\ ~Writing' /\ ~Reads' /\ ~Serving'
  BY <1>a DEF Sends, SendsExit, Mid, Writing, Reads, Serving
<1>w. /\ out' \in Seq(Cells) /\ Len(out') = 0 /\ Bytes' = Len(rxfifo)
      /\ \A j \in 1 .. Len(rxfifo) : Wire(j)' = Wire(j)
      /\ ~Mid => Bytes' = Bytes
  BY <1>a, <1>t, WireDrops DEF Inv, MasterInv, Mid
<1>1. TypeOK'
  <2>1. /\ type' \in {"normal", "hdma", "reset"}
        /\ phase' \in {"write", "read", "exit", "reset"}
        /\ pc' \in {"idle", "ready", "shift", "rdfs", "block", "reset_en",
                    "reseten", "reset"}
        /\ stat' \in {0, Half, FIFO_SIZE}
        /\ ret' \in {"none", "pass", "fail", "error", "reset"}
        /\ out' \in Seq(Cells)
    BY <1>a, <1>m, <1>w
  <2>2. /\ i' \in 0 .. PATTERN_BUF_SIZE + Half
        /\ retry' \in 0 .. MaxRetry + 1
    BY <1>a, <1>z
  <2>3. cmpr' \in [0 .. PATTERN_BUF_SIZE - 1 -> Cells]
    BY <1>a, CellIs
  <2>4. QED
    BY <1>a, <2>1, <2>2, <2>3 DEF TypeOK
<1>2. MasterInv'
  BY <1>a, <1>m DEF Inv, MasterInv
<1>3. SlaveInv'
  BY <1>a, <1>m DEF Inv, SlaveInv
<1>4. DmaInv'
  BY <1>a DEF Inv, DmaInv
<1>5. FlagInv'
  BY <1>a, <1>t, <1>z, <1>s, <1>w DEF TypeOK, Inv, FlagInv
<1>6. RegInv'
  BY <1>a, <1>s, <1>m DEF Inv, RegInv
<1>7. RoomInv'
  BY <1>a DEF Inv, RoomInv
<1>8. IdleInv'
  BY <1>a, <1>t, <1>m, <1>w DEF Inv, IdleInv
<1>9. HeaderInv'
  BY <1>a, <1>t, <1>s, <1>m, <1>w DEF Inv, HeaderInv
<1>10. DataInv'
  BY <1>a, <1>m DEF Inv, DataInv
<1>11. WriteInv'
  BY <1>t, <1>m, <1>w DEF Inv, WriteInv
<1>12. ReadInv'
  BY <1>a, <1>m DEF Inv, ReadInv
<1>13. PassInv'
  BY <1>a DEF Inv, PassInv
<1>14. QED
  BY <1>1, <1>2, <1>3, <1>4, <1>5, <1>6, <1>7, <1>8, <1>9, <1>10, <1>11, <1>12,
     <1>13
     DEF Inv

\* A poll that finds another status.
LEMMA RetryStep ==
    ASSUME TypeOK, Inv, ~crossed, retry <= MaxRetry, retry' = retry + 1,
           UNCHANGED <<pc, type, phase, i, stat, out, cmpr, ret, spc, soft,
                       count, flags, storage, hard, hist>>
    PROVE  TypeOK' /\ Inv'
<1>a. /\ retry <= MaxRetry /\ retry' = retry + 1
      /\ UNCHANGED <<pc, type, phase, i, stat, out, cmpr, ret, spc, start,
                     state, command, temp_addr, temp_size, count, op,
                     rx_complete, tx_complete, tx_finish, storage, ier,
                     tx_reg0, rx_reg0, rxfifo, txfifo, dma_req, dma,
                     recovering, crossed>>
  BY DEF soft, flags, hard, hist
<1>1. TypeOK'
  <2>1. retry' \in 0 .. MaxRetry + 1
    BY <1>a, Numbers DEF TypeOK
  <2>2. QED
    BY <1>a, <2>1 DEF TypeOK
<1>2. MasterInv'
  BY <1>a, MasterStays DEF Inv, MasterInv
<1>3. SlaveInv'
  BY <1>a, MasterStays DEF Inv, SlaveInv
<1>4. DmaInv'
  BY <1>a DEF Inv, DmaInv
<1>5. FlagInv'
  BY <1>a, WireStays DEF Inv, FlagInv
<1>6. RegInv'
  BY <1>a, MasterStays, SlaveStays DEF Inv, RegInv
<1>7. RoomInv'
  BY <1>a, WireStays DEF Inv, RoomInv
<1>8. IdleInv'
  BY <1>a, MasterStays, WireStays DEF Inv, IdleInv
<1>9. HeaderInv'
  BY <1>a, MasterStays, SlaveStays, WireStays DEF Inv, HeaderInv
<1>10. DataInv'
  BY <1>a, MasterStays DEF Inv, DataInv
<1>11. WriteInv'
  BY <1>a, MasterStays, SlaveStays, StoredStays, WireStays DEF Inv, WriteInv
<1>12. ReadInv'
  BY <1>a, MasterStays, SlaveStays, StoredStays, WireStays DEF Inv, ReadInv
<1>13. PassInv'
  BY <1>a DEF Inv, PassInv
<1>14. QED
  BY <1>1, <1>2, <1>3, <1>4, <1>5, <1>6, <1>7, <1>8, <1>9, <1>10, <1>11, <1>12,
     <1>13
     DEF Inv

\* The exit command is sent: the run ends with the comparison.
LEMMA SentExitStep ==
    ASSUME TypeOK, Inv, ~crossed, Sent, phase = "exit"
    PROVE  TypeOK' /\ Inv'
<1>a. /\ pc = "shift" /\ phase = "exit" /\ out = <<>>
      /\ pc' = "idle" /\ phase' = "write" /\ type' = "normal"
      /\ i' = 0 /\ stat' = 0 /\ out' = <<>> /\ retry' = 0
      /\ ret' = Compare /\ ret' \in {"pass", "fail"} /\ cmpr' = cmpr
      /\ UNCHANGED <<spc, start, state, command, temp_addr, temp_size, count,
                     op, rx_complete, tx_complete, tx_finish, storage, ier,
                     tx_reg0, rx_reg0, rxfifo, txfifo, dma_req, dma,
                     recovering, crossed>>
  BY DEF Sent, Leave, Compare, soft, flags, hard, hist
<1>z. /\ PATTERN_BUF_SIZE \in Nat \ {0} /\ FIFO_SIZE \in Nat \ {0}
      /\ Half \in Nat \ {0} /\ FIFO_SIZE = Half + Half
      /\ FIFO_SIZE <= PATTERN_BUF_SIZE /\ MaxRetry \in Nat
      /\ Base \in Int /\ Cnt \in Int /\ Rest \in Int
      /\ dma.n \in 0 .. PATTERN_BUF_SIZE
  BY Sizes, Counters DEF Inv
<1>m. /\ Mid /\ Reads /\ ~Writing /\ ~Sends /\ SendsExit /\ ~Serving
      /\ ~Sends' /\ ~SendsExit' /\ ~Mid' /\ ~Writing' /\ ~Reads' /\ ~Serving'
  BY <1>a DEF Sends, SendsExit, Mid, Writing, Reads, Serving
<1>w. /\ out = <<>> /\ Bytes' = Bytes /\ Bytes = Len(rxfifo)
      /\ \A j \in 1 .. Bytes : Wire(j)' = Wire(j)
  BY <1>a, WireType, WireDrops DEF Inv, MasterInv
<1>1. TypeOK'
  BY <1>a, <1>z DEF TypeOK
<1>2. MasterInv'
  BY <1>a, <1>m DEF Inv, MasterInv
<1>3. SlaveInv'
  BY <1>a, <1>m DEF Inv, SlaveInv
<1>4. DmaInv'
  BY <1>a DEF Inv, DmaInv
<1>5. FlagInv'
  BY <1>a, <1>w DEF Inv, FlagInv
<1>6. RegInv'
  BY <1>a, <1>m, SlaveStays DEF Inv, RegInv
<1>7. RoomInv'
  BY <1>a DEF Inv, RoomInv
<1>8. IdleInv'
  BY <1>a, <1>m, <1>w DEF Inv, IdleInv
<1>9. HeaderInv'
  BY <1>a, <1>m, SlaveStays DEF Inv, HeaderInv
<1>10. DataInv'
  BY <1>a, <1>m DEF Inv, DataInv
<1>11. WriteInv'
  BY <1>a, <1>m, <1>w DEF Inv, WriteInv
<1>12. ReadInv'
  BY <1>a, <1>m DEF Inv, ReadInv
<1>13. PassInv'
  <2>1. SUFFICES ASSUME Compare = "pass", NEW k \in Storage
                 PROVE  cmpr[k] = Byte(k)
    BY <1>a DEF PassInv
  <2>2. /\ cmpr[k] \in Cells /\ k \in DOMAIN cmpr /\ k < PATTERN_BUF_SIZE
        /\ k \in Nat /\ i \in Nat
    BY <1>z DEF TypeOK, Storage
  <2>3. cmpr[k].b = k % 256
    BY <2>1, <2>2 DEF Compare
  <2>4. cmpr[k].fresh = TRUE
    BY <1>m, <1>z, <2>2 DEF Inv, MasterInv, ReadInv
  <2>5. QED
    BY <2>2, <2>3, <2>4 DEF Cells, Byte
<1>14. QED
  BY <1>1, <1>2, <1>3, <1>4, <1>5, <1>6, <1>7, <1>8, <1>9, <1>10, <1>11, <1>12,
     <1>13
     DEF Inv

\* A block is sent, and more is to come.
LEMMA SentBlockStep ==
    ASSUME TypeOK, Inv, ~crossed, Sent, phase # "exit", i < PATTERN_BUF_SIZE
    PROVE  TypeOK' /\ Inv'
<1>a. /\ pc = "shift" /\ out = <<>> /\ pc' = "rdfs"
      /\ phase \in {"write", "read"} /\ i < PATTERN_BUF_SIZE
      /\ UNCHANGED <<type, phase, i, stat, out, retry, cmpr, ret, spc, start,
                     state, command, temp_addr, temp_size, count, op,
                     rx_complete, tx_complete, tx_finish, storage, ier,
                     tx_reg0, rx_reg0, rxfifo, txfifo, dma_req, dma,
                     recovering, crossed>>
  BY Sizes DEF TypeOK, Sent, soft, flags, hard, hist
<1>m. /\ Mid /\ Mid' /\ (Sends <=> i = 0) /\ ~Sends' /\ ~SendsExit /\ ~SendsExit'
      /\ (Writing' <=> Writing) /\ (Reads' <=> Reads) /\ Serving /\ Serving'
      /\ Due' = Due /\ Command' = Command
  BY <1>a DEF Sends, SendsExit, Mid, Writing, Reads, Serving, Due, Command
<1>h. state # STA_CMD
  <2>1. state = STA_CMD => ~Sends
    BY <1>a, WireType DEF Inv, IdleInv
  <2>2. Writing \/ Reads
    BY <1>m DEF Writing, Reads
  <2>3. i \in Int /\ i < PATTERN_BUF_SIZE
    BY <1>a, Numbers DEF TypeOK
  <2>4. ~(i >= PATTERN_BUF_SIZE)
    BY <2>3, Numbers
  <2>5. QED
    BY <2>1, <2>2, <2>4 DEF Inv, WriteInv, ReadInv
<1>1. TypeOK'
  BY <1>a DEF TypeOK
<1>2. MasterInv'
  BY <1>a, <1>m DEF Inv, MasterInv
<1>3. SlaveInv'
  BY <1>a, <1>m DEF Inv, SlaveInv
<1>4. DmaInv'
  BY <1>a DEF Inv, DmaInv
<1>5. FlagInv'
  BY <1>a, WireStays DEF Inv, FlagInv
<1>6. RegInv'
  BY <1>a, <1>m, SlaveStays DEF Inv, RegInv
<1>7. RoomInv'
  BY <1>a DEF Inv, RoomInv
<1>8. IdleInv'
  BY <1>a, <1>h DEF IdleInv
<1>9. HeaderInv'
  BY <1>a, <1>m, WireType, SlaveStays, WireStays DEF Inv, HeaderInv
<1>10. DataInv'
  BY <1>a, <1>m DEF Inv, DataInv
<1>11. WriteInv'
  BY <1>a, <1>m, <1>h, SlaveStays, StoredStays, WireStays DEF Inv, WriteInv
<1>12. ReadInv'
  BY <1>a, <1>m, <1>h, SlaveStays, StoredStays, WireStays DEF Inv, ReadInv
<1>13. PassInv'
  BY <1>a DEF Inv, PassInv
<1>14. QED
  BY <1>1, <1>2, <1>3, <1>4, <1>5, <1>6, <1>7, <1>8, <1>9, <1>10, <1>11, <1>12,
     <1>13
     DEF Inv

\* The last block of a phase is sent.
LEMMA SentPhaseStep ==
    ASSUME TypeOK, Inv, ~crossed, Sent, phase # "exit", i >= PATTERN_BUF_SIZE
    PROVE  TypeOK' /\ Inv'
<1>a. /\ pc = "shift" /\ out = <<>> /\ pc' = "ready" /\ retry' = 0
      /\ i >= PATTERN_BUF_SIZE
      /\ \/ phase = "write" /\ phase' = "read"
         \/ phase = "read" /\ phase' = "exit"
      /\ UNCHANGED <<type, i, stat, out, cmpr, ret, spc, start, state, command,
                     temp_addr, temp_size, count, op, rx_complete, tx_complete,
                     tx_finish, storage, ier, tx_reg0, rx_reg0, rxfifo, txfifo,
                     dma_req, dma, recovering, crossed>>
  BY Sizes DEF TypeOK, Sent, Next_phase, soft, flags, hard, hist
<1>t. /\ Len(rxfifo) \in Nat /\ Len(out) \in Nat /\ Len(txfifo) \in Nat
      /\ Bytes \in Nat /\ Bytes = Len(rxfifo) + Len(out)
      /\ rxfifo = <<>> <=> Len(rxfifo) = 0
      /\ out = <<>> <=> Len(out) = 0
      /\ txfifo = <<>> <=> Len(txfifo) = 0
      /\ \A j \in 1 .. Len(rxfifo) : Wire(j) = rxfifo[j]
      /\ \A j \in 1 .. Bytes : Wire(j) \in Cells
  BY WireType
<1>z. /\ PATTERN_BUF_SIZE \in Nat \ {0} /\ FIFO_SIZE \in Nat \ {0}
      /\ Half \in Nat \ {0} /\ FIFO_SIZE = Half + Half
      /\ FIFO_SIZE <= PATTERN_BUF_SIZE /\ MaxRetry \in Nat
      /\ Base \in Int /\ Cnt \in Int /\ Rest \in Int
      /\ dma.n \in 0 .. PATTERN_BUF_SIZE
  BY Sizes, Counters DEF Inv
<1>m. /\ Mid /\ Mid' /\ ~Sends /\ ~Sends' /\ ~SendsExit /\ ~SendsExit'
      /\ (Writing' <=> Writing) /\ (Reads' <=> Reads) /\ Serving /\ ~Serving'
      /\ Due' = Due /\ (phase = "write" => ~Reads)
  BY <1>a, <1>z DEF Sends, SendsExit, Mid, Writing, Reads, Serving, Due
<1>h. ~InHeader
  BY <1>a, <1>m, <1>t, <1>z
     DEF TypeOK, Inv, SlaveInv, RoomInv, WriteInv, ReadInv, Writing, Reads,
         Base, Early, InHeader
<1>1. TypeOK'
  BY <1>a, <1>z DEF TypeOK
<1>2. MasterInv'
  BY <1>a, <1>m DEF Inv, MasterInv
<1>3. SlaveInv'
  BY <1>a, <1>m DEF Inv, SlaveInv
<1>4. DmaInv'
  BY <1>a DEF Inv, DmaInv
<1>5. FlagInv'
  BY <1>a, WireStays DEF Inv, FlagInv
<1>6. RegInv'
  BY <1>a, <1>m, SlaveStays DEF Inv, RegInv
<1>7. RoomInv'
  BY <1>a DEF Inv, RoomInv
<1>8. IdleInv'
  BY <1>a, <1>m, WireStays DEF Inv, IdleInv
<1>9. HeaderInv'
  BY <1>a, <1>m, <1>h, SlaveStays, WireStays DEF Inv, HeaderInv
<1>10. DataInv'
  BY <1>a, <1>m DEF Inv, DataInv
<1>11. WriteInv'
  BY <1>a, <1>m, SlaveStays, StoredStays, WireStays DEF Inv, WriteInv
<1>12. ReadInv'
  BY <1>a, <1>m, <1>h, SlaveStays DEF Inv, ReadInv
<1>13. PassInv'
  BY <1>a DEF Inv, PassInv
<1>14. QED
  BY <1>1, <1>2, <1>3, <1>4, <1>5, <1>6, <1>7, <1>8, <1>9, <1>10, <1>11, <1>12,
     <1>13
     DEF Inv

\* The master reads how much the slave can take, or offers.
LEMMA ReadStatusStep ==
    ASSUME TypeOK, Inv, ~crossed, ReadStatus
    PROVE  TypeOK' /\ Inv'
<1>a. /\ pc = "rdfs" /\ pc' \in {"rdfs", "block"}
      /\ (pc' = "block" => stat' # 0)
      /\ stat' = IF phase = "write" THEN RxRoom ELSE TxOffer
      /\ UNCHANGED <<type, phase, i, out, retry, cmpr, ret, spc, start, state,
                     command, temp_addr, temp_size, count, op, rx_complete,
                     tx_complete, tx_finish, storage, ier, tx_reg0, rx_reg0,
                     rxfifo, txfifo, dma_req, dma, recovering, crossed>>
  BY DEF ReadStatus, soft, flags, hard, hist
<1>m. /\ Mid /\ Mid' /\ ~Sends /\ ~Sends' /\ ~SendsExit /\ ~SendsExit'
      /\ (Writing' <=> Writing) /\ (Reads' <=> Reads) /\ Serving /\ Serving'
      /\ Due' = Due /\ Command' = Command
      /\ (Reads => phase = "read")
  BY <1>a
     DEF Inv, MasterInv, Sends, SendsExit, Mid, Writing, Reads, Serving, Due,
         Command
<1>r. /\ stat' \in {0, Half, FIFO_SIZE} /\ (pc' = "block" => stat' > 0)
      /\ pc' = "block" /\ phase = "write" => Len(rxfifo) + stat' <= FIFO_SIZE
      /\ pc' = "block" /\ phase = "read" => stat' <= Len(txfifo)
  BY <1>a, WireType, Numbers DEF RxRoom, TxOffer
<1>1. TypeOK'
  BY <1>a DEF RxRoom, TxOffer, TypeOK
<1>2. MasterInv'
  BY <1>a, <1>m, <1>r DEF Inv, MasterInv
<1>3. SlaveInv'
  BY <1>a, <1>m DEF Inv, SlaveInv
<1>4. DmaInv'
  BY <1>a DEF Inv, DmaInv
<1>5. FlagInv'
  BY <1>a, WireStays DEF Inv, FlagInv
<1>6. RegInv'
  BY <1>a, <1>m, SlaveStays DEF Inv, RegInv
<1>7. RoomInv'
  BY <1>a, <1>m, <1>r DEF Inv, RoomInv
<1>8. IdleInv'
  BY <1>a, <1>m, WireStays DEF Inv, IdleInv
<1>9. HeaderInv'
  BY <1>a, <1>m, SlaveStays, WireStays DEF Inv, HeaderInv
<1>10. DataInv'
  BY <1>a, <1>m DEF Inv, DataInv
<1>11. WriteInv'
  BY <1>a, <1>m, SlaveStays, StoredStays, WireStays DEF Inv, WriteInv
<1>12. ReadInv'
  BY <1>a, <1>m, <1>r, SlaveStays, WireStays, StoredStays DEF Inv, ReadInv
<1>13. PassInv'
  BY <1>a DEF Inv, PassInv
<1>14. QED
  BY <1>1, <1>2, <1>3, <1>4, <1>5, <1>6, <1>7, <1>8, <1>9, <1>10, <1>11, <1>12,
     <1>13
     DEF Inv

\* A block of the pattern is written.
LEMMA WriteBlockStep ==
    ASSUME TypeOK, Inv, ~crossed, WriteBlock
    PROVE  TypeOK' /\ Inv'
<1>a. /\ pc = "block" /\ phase = "write" /\ pc' = "shift" /\ i' = i + stat
      /\ out' = [k \in 1 .. stat |-> Pattern(i + k - 1)]
      /\ UNCHANGED <<type, phase, stat, retry, cmpr, ret, spc, start, state,
                     command, temp_addr, temp_size, count, op, rx_complete,
                     tx_complete, tx_finish, storage, ier, tx_reg0, rx_reg0,
                     rxfifo, txfifo, dma_req, dma, recovering, crossed>>
  BY DEF WriteBlock, soft, flags, hard, hist
<1>t. /\ Len(rxfifo) \in Nat /\ Len(out) \in Nat /\ Len(txfifo) \in Nat
      /\ Bytes \in Nat /\ Bytes = Len(rxfifo) + Len(out)
      /\ rxfifo = <<>> <=> Len(rxfifo) = 0
      /\ out = <<>> <=> Len(out) = 0
      /\ txfifo = <<>> <=> Len(txfifo) = 0
      /\ \A j \in 1 .. Len(rxfifo) : Wire(j) = rxfifo[j]
      /\ \A j \in 1 .. Bytes : Wire(j) \in Cells
  BY WireType
<1>z. /\ PATTERN_BUF_SIZE \in Nat \ {0} /\ FIFO_SIZE \in Nat \ {0}
      /\ Half \in Nat \ {0} /\ FIFO_SIZE = Half + Half
      /\ FIFO_SIZE <= PATTERN_BUF_SIZE /\ MaxRetry \in Nat
      /\ Base \in Int /\ Cnt \in Int /\ Rest \in Int
      /\ dma.n \in 0 .. PATTERN_BUF_SIZE
  BY Sizes, Counters DEF Inv
<1>s. /\ InHeader' <=> InHeader
      /\ Early' <=> Early
      /\ Rest' = Rest /\ Base' = Base /\ Cnt' = Cnt
  BY <1>a, SlaveStays
<1>q. Stored' <=> Stored
  BY <1>a DEF Stored
<1>m. i \in Nat /\ stat \in Nat /\ stat > 0 /\ i' > 0 /\ i < PATTERN_BUF_SIZE
  BY <1>a, <1>z DEF TypeOK, Inv, MasterInv
<1>n. /\ Writing /\ Writing' /\ ~Reads /\ ~Reads'
      /\ Mid /\ Mid' /\ ~Sends /\ ~Sends' /\ ~SendsExit /\ ~SendsExit'
      /\ Serving /\ Serving'
      /\ Due' = Due /\ Command' = Command
  BY <1>a, <1>m
     DEF Sends, SendsExit, Mid, Writing, Reads, Serving, Due, Command
<1>o. /\ out = <<>> /\ Len(out) = 0 /\ \A k \in Storage : cmpr[k].b = 0
      /\ i + stat <= PATTERN_BUF_SIZE + Half /\ \E a \in Nat : i + stat = a * Half
  <2>1. PICK a \in Nat : i = a * Half
    BY <1>n DEF Inv, MasterInv
  <2>2. i + Half <= PATTERN_BUF_SIZE
    BY <1>m, <2>1, HalfBelow
  <2>3. stat = Half \/ stat = Half + Half
    BY <1>m, <1>z DEF TypeOK
  <2>4. i + Half = (a + 1) * Half /\ i + (Half + Half) = (a + 2) * Half
    BY <1>z, <2>1
  <2>5. \E b \in Nat : i + stat = b * Half
    BY <2>3, <2>4, <2>1
  <2>6. i + stat <= PATTERN_BUF_SIZE + Half
    BY <1>m, <1>z, <2>2, <2>3
  <2>7. out = <<>> /\ Len(out) = 0 /\ \A k \in Storage : cmpr[k].b = 0
    BY <1>a, <1>t DEF Inv, MasterInv
  <2>8. QED
    BY <2>5, <2>6, <2>7
<1>p. /\ out' \in Seq(Cells) /\ Len(out') = stat
      /\ \A h \in 1 .. stat : For(i + h - 1, out'[h])
  <2>1. \A h \in 1 .. stat : Pattern(i + h - 1) \in Cells /\ For(i + h - 1, Pattern(i + h - 1))
    <3> SUFFICES ASSUME NEW h \in 1 .. stat
                 PROVE  Pattern(i + h - 1) \in Cells /\ For(i + h - 1, Pattern(i + h - 1))
      OBVIOUS
    <3>1. PICK k \in Nat : k = i + h - 1 /\ k < PATTERN_BUF_SIZE + Half
      BY <1>m, <1>o, <1>z
    <3>2. CASE k < PATTERN_BUF_SIZE
      BY <1>z, <3>1, <3>2 DEF Pattern, For, Byte, Cells
    <3>3. CASE k >= PATTERN_BUF_SIZE
      <4>1. k - PATTERN_BUF_SIZE \in Storage
        BY <1>z, <3>1, <3>3 DEF Storage
      <4>2. cmpr[k - PATTERN_BUF_SIZE].b = 0
        BY <1>o, <4>1
      <4>3. Pattern(k) = Plain(0)
        BY <1>z, <3>1, <3>3, <4>2 DEF Pattern
      <4>4. QED
        <5>1. Plain(0) \in Cells /\ Plain(0).b = 0
          BY CellIs
        <5>2. Pattern(k) \in Cells /\ For(k, Pattern(k))
          BY <1>z, <3>3, <4>3, <5>1 DEF For
        <5>3. QED
          BY <3>1, <5>2
    <3>4. QED
      BY <1>z, <3>1, <3>2, <3>3
  <2>2. out' \in [1 .. stat -> Cells]
    BY <1>a, <2>1
  <2>3. \A h \in 1 .. stat : out'[h] = Pattern(i + h - 1)
    BY <1>a
  <2>4. out' \in Seq(Cells) /\ Len(out') = stat
    BY <1>m, <2>2, BlockIs
  <2>5. QED
    BY <2>1, <2>3, <2>4
<1>w. /\ Bytes = Len(rxfifo) /\ Bytes' = Len(rxfifo) + stat
      /\ \A j \in 1 .. Len(rxfifo) : Wire(j)' = Wire(j)
      /\ \A j \in Len(rxfifo) + 1 .. Len(rxfifo) + stat :
           Wire(j)' = out'[j - Len(rxfifo)]
  BY <1>a, <1>o, <1>p, WireLoads
<1>h. /\ state # STA_CMD /\ Early /\ spc # "free" /\ Base + Bytes = i
      /\ \A j \in 1 .. Bytes : For(Base + j - 1, Wire(j))
  <2>1. ~(i >= PATTERN_BUF_SIZE)
    BY <1>m, <1>z
  <2>2. state # STA_CMD /\ Early
    BY <1>n, <2>1 DEF Inv, WriteInv
  <2>3. QED
    BY <1>n, <2>2 DEF Inv, WriteInv, Early
<1>1. TypeOK'
  BY <1>a, <1>m, <1>o, <1>z, <1>p DEF TypeOK
<1>2. MasterInv'
  BY <1>a, <1>n, <1>o DEF MasterInv
<1>3. SlaveInv'
  BY <1>a, <1>m, <1>n DEF Inv, SlaveInv
<1>4. DmaInv'
  BY <1>a DEF Inv, DmaInv
<1>5. FlagInv'
  <2>1. /\ (recovering = FALSE =>
             /\ op = CMD_WRITE /\ spc \in {"arm", "wait"} /\ rx_complete = 1 =>
                  count >= PATTERN_BUF_SIZE)'
        /\ (recovering = FALSE =>
             /\ op = CMD_DMAWR /\ spc = "dma" => rx_complete = 0)'
        /\ (recovering = FALSE =>
             /\ op = CMD_DMAWR /\ spc = "wait" /\ rx_complete = 1 =>
                  dma.n = PATTERN_BUF_SIZE)'
        /\ (recovering = FALSE =>
             /\ spc = "fill" /\ tx_complete = 1 => count = PATTERN_BUF_SIZE)'
        /\ (recovering = FALSE =>
             /\ spc = "put" => tx_complete = 0)'
        /\ (recovering = FALSE =>
             /\ op = CMD_DMARD /\ spc = "dma" => tx_complete = 0)'
        /\ (recovering = FALSE =>
             /\ op = CMD_DMARD /\ spc = "wait" /\ tx_complete = 1 =>
                  dma.n = PATTERN_BUF_SIZE)'
        /\ (recovering = FALSE =>
             /\ op \in Reading
                /\ spc \in {"fill", "put", "dma", "wait", "undma", "empty"} =>
                  tx_finish = 0)'
        /\ (recovering = FALSE =>
             /\ spc = "wait_empty" /\ tx_finish = 1 => txfifo = <<>>)'
        /\ (spc = "put" => count < PATTERN_BUF_SIZE)'
        /\ (spc = "fill" /\ tx_complete = 0 => count < PATTERN_BUF_SIZE)'
    BY <1>a DEF Inv, FlagInv
  <2>2. (state = CMD_WRITE /\ spc \in {"arm", "wait", "flush", "free"} =>
         count + Bytes <= PATTERN_BUF_SIZE + Half)'
    <3>1. /\ Base' = Base /\ Base + Bytes' = i + stat
          /\ i + stat <= PATTERN_BUF_SIZE + Half
      <4>1. /\ Base + Bytes = i /\ Bytes = Len(rxfifo)
            /\ Bytes' = Len(rxfifo) + stat
            /\ Base \in Int /\ Len(rxfifo) \in Nat /\ stat \in Nat /\ i \in Nat
        BY <1>h, <1>m, <1>t, <1>w, <1>z
      <4>2. QED
        BY <1>o, <1>s, <4>1
    <3>2. state = CMD_WRITE /\ spc \in {"arm", "wait", "flush", "free"} => Base = count
      BY <1>h DEF Base, InHeader, Early
    <3>3. QED
      BY <1>a, <3>1, <3>2
  <2>3. QED
    BY <2>1, <2>2 DEF FlagInv
<1>6. RegInv'
  BY <1>a, <1>s, <1>n DEF Inv, RegInv
<1>7. RoomInv'
  BY <1>a, <1>w DEF Inv, RoomInv
<1>8. IdleInv'
  BY <1>a, <1>m, <1>n, <1>h DEF Inv, IdleInv
<1>9. HeaderInv'
  BY <1>a, <1>z, <1>s, <1>n, <1>w DEF TypeOK, Inv, HeaderInv, HByte, MasterInv
<1>10. DataInv'
  BY <1>a, <1>m, <1>n DEF Inv, DataInv
<1>11. WriteInv'
  <2>1. (Writing /\ Early /\ state # STA_CMD =>
          /\ Base + Bytes = i)'
    <3>1. /\ Base + Bytes = i /\ Bytes = Len(rxfifo) /\ Bytes' = Len(rxfifo) + stat
          /\ Base \in Int /\ Len(rxfifo) \in Nat /\ i \in Nat /\ stat \in Nat
      BY <1>h, <1>m, <1>t, <1>w, <1>z
    <3>2. Base' = Base /\ i' = i + stat
      BY <1>a, <1>s
    <3>3. Base' + Bytes' = i'
      BY <3>1, <3>2
    <3>4. QED
      BY <3>3
  <2>2. (Writing /\ Early /\ state # STA_CMD =>
          /\ \A j \in 1 .. Bytes : For(Base + j - 1, Wire(j)))'
    <3>1. SUFFICES ASSUME NEW j \in 1 .. Bytes'
                   PROVE  For(Base + j - 1, Wire(j)')
      BY <1>s DEF For
    <3>2. CASE j <= Len(rxfifo)
      BY <1>h, <1>t, <1>w, <3>2
    <3>3. CASE j > Len(rxfifo)
      <4>1. PICK h \in 1 .. stat : h = j - Len(rxfifo)
        <5>1. Bytes' = Len(rxfifo) + stat /\ Len(rxfifo) \in Nat /\ stat \in Nat
          BY <1>m, <1>t, <1>w
        <5>2. QED
          BY <3>3, <5>1
      <4>2. Wire(j)' = out'[h]
        BY <1>m, <1>t, <1>w, <3>3, <4>1
      <4>3. Base + j - 1 = i + h - 1
        <5>1. /\ Base + Bytes = i /\ Bytes = Len(rxfifo) /\ Base \in Int
              /\ Len(rxfifo) \in Nat /\ i \in Nat
          BY <1>h, <1>m, <1>t, <1>w, <1>z
        <5>2. j \in Int
          BY <1>t, <1>w, <1>m
        <5>3. QED
          BY <4>1, <5>1, <5>2
      <4>4. QED
        BY <1>p, <4>1, <4>2, <4>3
    <3>4. QED
      BY <1>t, <1>w, <3>2, <3>3
  <2>3. /\ (Writing /\ Early /\ state # STA_CMD =>
             /\ \A k \in Storage : k < Base => storage[k].fresh = TRUE)'
        /\ (Writing /\ spc = "undma" => dma.n = PATTERN_BUF_SIZE)'
    BY <1>a, <1>s, <1>n DEF Inv, WriteInv
  <2>4. /\ (Writing /\ (~Early \/ (state = STA_CMD /\ ~Sends)) =>
             i >= PATTERN_BUF_SIZE /\ Stored)'
        /\ ((Writing /\ ~Early) \/ spc = "free" => \A j \in 1 .. Bytes : Wire(j).b = 0)'
        /\ (Writing /\ ~Early /\ state = CMD_WRITE => count >= PATTERN_BUF_SIZE)'
    BY <1>a, <1>s, <1>h
  <2>5. QED
    BY <2>1, <2>2, <2>3, <2>4 DEF WriteInv
<1>12. ReadInv'
  BY <1>a, <1>m, <1>n DEF Inv, ReadInv
<1>13. PassInv'
  BY <1>a DEF Inv, PassInv
<1>14. QED
  BY <1>1, <1>2, <1>3, <1>4, <1>5, <1>6, <1>7, <1>8, <1>9, <1>10, <1>11, <1>12,
     <1>13
     DEF Inv

\* A block is read back.
LEMMA ReadBlockStep ==
    ASSUME TypeOK, Inv, ~crossed, ReadBlock
    PROVE  TypeOK' /\ Inv'
<1>a. /\ pc = "block" /\ phase = "read" /\ pc' = "shift" /\ i' = i + stat
      /\ cmpr' = [k \in DOMAIN cmpr |->
            IF k >= i /\ k < i + Offered THEN txfifo[k - i + 1] ELSE cmpr[k]]
      /\ txfifo' = SubSeq(txfifo, Offered + 1, Len(txfifo))
      /\ UNCHANGED <<type, phase, stat, out, retry, ret, spc, start, state,
                     command, temp_addr, temp_size, count, op, rx_complete,
                     tx_complete, tx_finish, storage, ier, tx_reg0, rx_reg0,
                     rxfifo, dma_req, dma, recovering, crossed>>
  BY DEF ReadBlock, Offered, soft, flags, hist
<1>t. /\ Len(rxfifo) \in Nat /\ Len(out) \in Nat /\ Len(txfifo) \in Nat
      /\ Bytes \in Nat /\ Bytes = Len(rxfifo) + Len(out)
      /\ rxfifo = <<>> <=> Len(rxfifo) = 0
      /\ out = <<>> <=> Len(out) = 0
      /\ txfifo = <<>> <=> Len(txfifo) = 0
      /\ \A j \in 1 .. Len(rxfifo) : Wire(j) = rxfifo[j]
      /\ \A j \in 1 .. Bytes : Wire(j) \in Cells
  BY WireType
<1>z. /\ PATTERN_BUF_SIZE \in Nat \ {0} /\ FIFO_SIZE \in Nat \ {0}
      /\ Half \in Nat \ {0} /\ FIFO_SIZE = Half + Half
      /\ FIFO_SIZE <= PATTERN_BUF_SIZE /\ MaxRetry \in Nat
      /\ Base \in Int /\ Cnt \in Int /\ Rest \in Int
      /\ dma.n \in 0 .. PATTERN_BUF_SIZE
  BY Sizes, Counters DEF Inv
<1>m. i \in Nat /\ stat \in Nat /\ stat > 0 /\ i' > 0 /\ i < PATTERN_BUF_SIZE
  BY <1>a, <1>z DEF TypeOK, Inv, MasterInv
<1>n. /\ ~Writing /\ ~Writing' /\ Reads /\ Reads'
      /\ Mid /\ Mid' /\ ~Sends /\ ~Sends' /\ ~SendsExit /\ ~SendsExit'
      /\ Serving /\ Serving'
      /\ Due' = Due /\ Command' = Command
  BY <1>a, <1>m
     DEF Sends, SendsExit, Mid, Writing, Reads, Serving, Due, Command
<1>o. /\ Offered = stat /\ stat <= Len(txfifo) /\ i + stat <= PATTERN_BUF_SIZE
      /\ state \in Reading /\ state \in Data /\ spc \notin {"flush", "free"}
      /\ i + Len(txfifo) = Cnt /\ Cnt <= PATTERN_BUF_SIZE
      /\ \A j \in 1 .. Len(txfifo) : txfifo[j].fresh = TRUE
  <2>1. stat <= Len(txfifo) /\ txfifo # <<>>
    BY <1>a, <1>m, <1>n DEF Inv, ReadInv
  <2>2. state \in Reading /\ state \in Data
    BY <2>1 DEF Inv, ReadInv
  <2>3. spc \notin {"flush", "free"}
    BY <1>m, <1>n, <1>z DEF Inv, ReadInv
  <2>4. QED
    BY <1>m, <1>n, <1>t, <1>z, <2>1, <2>2, <2>3 DEF Inv, ReadInv, Offered
<1>r. /\ txfifo' \in Seq(Cells) /\ Len(txfifo') = Len(txfifo) - stat
      /\ \A j \in 1 .. Len(txfifo) - stat : txfifo'[j] = txfifo[j + stat]
  BY <1>m, <1>o, <1>t, <1>a, RestIs DEF TypeOK
<1>c. /\ cmpr' \in [0 .. PATTERN_BUF_SIZE - 1 -> Cells]
      /\ \A k \in Storage : k < i + stat =>
           \/ k < i /\ cmpr'[k] = cmpr[k]
           \/ \E j \in 1 .. Len(txfifo) : cmpr'[k] = txfifo[j]
  <2>1. /\ txfifo \in Seq(Cells)
        /\ cmpr \in [0 .. PATTERN_BUF_SIZE - 1 -> Cells]
        /\ \A j \in 1 .. Len(txfifo) : txfifo[j] \in Cells
    BY DEF TypeOK
  <2>2. \A k \in 0 .. PATTERN_BUF_SIZE - 1 :
          k >= i /\ k < i + stat => k - i + 1 \in 1 .. Len(txfifo)
    BY <1>m, <1>o, <1>t, <1>z
  <2>3. cmpr' = [k \in 0 .. PATTERN_BUF_SIZE - 1 |->
                   IF k >= i /\ k < i + stat THEN txfifo[k - i + 1] ELSE cmpr[k]]
    BY <1>a, <1>o, <2>1
  <2>4. cmpr' \in [0 .. PATTERN_BUF_SIZE - 1 -> Cells]
    BY <2>1, <2>2, <2>3
  <2>5. ASSUME NEW k \in Storage, k < i + stat
        PROVE  \/ k < i /\ cmpr'[k] = cmpr[k]
               \/ \E j \in 1 .. Len(txfifo) : cmpr'[k] = txfifo[j]
    <3>1. k \in 0 .. PATTERN_BUF_SIZE - 1 /\ k \in Int
      BY <1>z DEF Storage
    <3>2. CASE k < i
      BY <1>m, <2>3, <2>5, <3>1, <3>2
    <3>3. CASE k >= i
      <4>1. cmpr'[k] = txfifo[k - i + 1] /\ k - i + 1 \in 1 .. Len(txfifo)
        BY <2>2, <2>3, <2>5, <3>1, <3>3
      <4>2. QED
        BY <4>1
    <3>4. QED
      BY <1>m, <3>1, <3>2, <3>3
  <2>6. QED
    BY <2>4, <2>5
<1>1. TypeOK'
  <2>1. pc' = "shift" /\ i' \in 0 .. PATTERN_BUF_SIZE + Half
    BY <1>a, <1>m, <1>o, <1>z
  <2>2. /\ cmpr' \in [0 .. PATTERN_BUF_SIZE - 1 -> Cells]
        /\ txfifo' \in Seq(Cells)
    BY <1>c, <1>r
  <2>3. QED
    BY <1>a, <2>1, <2>2 DEF TypeOK
<1>2. MasterInv'
  BY <1>a, <1>m, <1>n DEF Inv, MasterInv
<1>3. SlaveInv'
  BY <1>a, <1>m, <1>n DEF Inv, SlaveInv
<1>4. DmaInv'
  BY <1>a DEF Inv, DmaInv
<1>5. FlagInv'
  BY <1>a, <1>m, <1>o DEF Inv, FlagInv
<1>6. RegInv'
  BY <1>a, <1>n, SlaveStays DEF Inv, RegInv
<1>7. RoomInv'
  BY <1>a DEF Inv, RoomInv
<1>8. IdleInv'
  BY <1>a, <1>o DEF IdleInv
<1>9. HeaderInv'
  BY <1>a, <1>n, <1>o, SlaveStays, WireStays DEF Inv, HeaderInv
<1>10. DataInv'
  BY <1>a, <1>m, <1>n DEF Inv, DataInv
<1>11. WriteInv'
  BY <1>a, <1>n, <1>o DEF WriteInv
<1>12. ReadInv'
  <2>1. /\ (txfifo # <<>> =>
             /\ state \in Reading)'
        /\ (txfifo # <<>> =>
             /\ spc \in {"fill", "put", "wait", "undma", "empty",
                         "wait_empty", "flush"})'
        /\ (Reads /\ pc = "block" => stat <= Len(txfifo))'
        /\ (Reads => \A k \in Storage : k < i => cmpr[k].fresh = TRUE)'
    BY <1>a, <1>n, <1>o, <1>c DEF Inv, ReadInv
  <2>2. (Reads /\ phase = "read" => Stored)'
    BY <1>a, <1>n, StoredStays DEF Inv, ReadInv
  <2>3. (Reads /\ InHeader => Bytes = Rest /\ i = 0)'
    BY <1>a, <1>n, <1>o, SlaveStays DEF Inv, RegInv
  <2>4. /\ (Reads /\ state = STA_CMD /\ ~Sends => i >= PATTERN_BUF_SIZE)'
        /\ (Reads /\ state \in Data => rxfifo = <<>> /\ out = <<>>)'
        /\ (Reads /\ spc \in {"flush", "free"} => i = PATTERN_BUF_SIZE)'
    BY <1>a, <1>m, <1>n DEF Inv, ReadInv
  <2>5. (Reads /\ state \in Data /\ spc \notin {"flush", "free"} =>
          /\ i + Len(txfifo) = Cnt /\ Cnt <= PATTERN_BUF_SIZE)'
    <3>1. i' + Len(txfifo') = i + Len(txfifo)
      <4>1. i' = i + stat
        BY <1>a
      <4>2. QED
        BY <1>m, <1>r, <1>t, <4>1
    <3>2. QED
      BY <1>a, <1>o, <3>1, SlaveStays
  <2>6. (Reads /\ state \in Data /\ spc \notin {"flush", "free"} =>
          /\ \A j \in 1 .. Len(txfifo) : txfifo[j].fresh = TRUE)'
    BY <1>a, <1>m, <1>o DEF Inv, ReadInv
  <2>7. (Reads /\ state \in Data /\ spc \notin {"flush", "free"} =>
         /\ spc \in {"undma", "empty", "wait_empty"} => Cnt = PATTERN_BUF_SIZE)'
    BY <1>a, <1>n, SlaveStays DEF Inv, ReadInv
  <2>8. QED
    BY <2>1, <2>2, <2>3, <2>4, <2>5, <2>6, <2>7 DEF ReadInv
<1>13. PassInv'
  BY <1>a DEF Inv, PassInv
<1>14. QED
  BY <1>1, <1>2, <1>3, <1>4, <1>5, <1>6, <1>7, <1>8, <1>9, <1>10, <1>11, <1>12,
     <1>13
     DEF Inv

\* The reset is announced.
LEMMA WriteResetEnStep ==
    ASSUME TypeOK, Inv, ~crossed, WriteReg("reset_en", "RESET_EN", "reseten")
    PROVE  TypeOK' /\ Inv'
<1>a. /\ pc = "reset_en" /\ pc' = "reseten" /\ retry' = 0
      /\ rx_reg0' \in {rx_reg0, "RESET_EN"}
      /\ UNCHANGED <<type, phase, i, stat, out, cmpr, ret, spc, start, state,
                     command, temp_addr, temp_size, count, op, rx_complete,
                     tx_complete, tx_finish, storage, ier, tx_reg0, rxfifo,
                     txfifo, dma_req, dma, recovering, crossed>>
  BY DEF WriteReg, soft, flags, hist
<1>m. /\ ~Sends /\ ~SendsExit /\ ~Mid /\ ~Writing /\ ~Reads /\ ~Serving
      /\ ~Sends' /\ ~SendsExit' /\ ~Mid' /\ ~Writing' /\ ~Reads' /\ ~Serving'
  BY <1>a DEF Sends, SendsExit, Mid, Writing, Reads, Serving
<1>1. TypeOK'
  <2>1. /\ pc' \in {"idle", "ready", "shift", "rdfs", "block", "reset_en",
                    "reseten", "reset"}
        /\ retry' \in 0 .. MaxRetry + 1
    BY <1>a, Numbers
  <2>2. rx_reg0' \in {"none", "RESET_EN", "RESET"}
    BY <1>a DEF TypeOK
  <2>3. QED
    BY <1>a, <2>1, <2>2 DEF TypeOK
<1>2. MasterInv'
  BY <1>a, <1>m DEF Inv, MasterInv
<1>3. SlaveInv'
  BY <1>a, <1>m DEF Inv, SlaveInv
<1>4. DmaInv'
  BY <1>a DEF Inv, DmaInv
<1>5. FlagInv'
  BY <1>a, WireStays DEF Inv, FlagInv
<1>6. RegInv'
  BY <1>a, <1>m, SlaveStays DEF Inv, RegInv
<1>7. RoomInv'
  BY <1>a DEF Inv, RoomInv
<1>8. IdleInv'
  BY <1>a, <1>m, WireStays DEF Inv, IdleInv
<1>9. HeaderInv'
  BY <1>a, <1>m, SlaveStays, WireStays DEF Inv, HeaderInv
<1>10. DataInv'
  BY <1>a, <1>m DEF Inv, DataInv
<1>11. WriteInv'
  BY <1>a, <1>m, WireStays DEF Inv, WriteInv
<1>12. ReadInv'
  BY <1>a, <1>m DEF Inv, ReadInv
<1>13. PassInv'
  BY <1>a DEF Inv, PassInv
<1>14. QED
  BY <1>1, <1>2, <1>3, <1>4, <1>5, <1>6, <1>7, <1>8, <1>9, <1>10, <1>11, <1>12,
     <1>13
     DEF Inv

\* The slave knows of it.
LEMMA ResetEnSeenStep ==
    ASSUME TypeOK, Inv, ~crossed, PollResetEn, tx_reg0 = "RESET_EN"
    PROVE  TypeOK' /\ Inv'
<1>a. /\ pc = "reseten" /\ pc' = "reset"
      /\ UNCHANGED <<type, phase, i, stat, out, retry, cmpr, ret, spc, start,
                     state, command, temp_addr, temp_size, count, op,
                     rx_complete, tx_complete, tx_finish, storage, ier,
                     tx_reg0, rx_reg0, rxfifo, txfifo, dma_req, dma,
                     recovering, crossed>>
  BY DEF PollResetEn, soft, flags, hard, hist
<1>m. /\ ~Sends /\ ~SendsExit /\ ~Mid /\ ~Writing /\ ~Reads /\ ~Serving
      /\ ~Sends' /\ ~SendsExit' /\ ~Mid' /\ ~Writing' /\ ~Reads' /\ ~Serving'
  BY <1>a DEF Sends, SendsExit, Mid, Writing, Reads, Serving
<1>1. TypeOK'
  BY <1>a DEF TypeOK
<1>2. MasterInv'
  BY <1>a, <1>m DEF Inv, MasterInv
<1>3. SlaveInv'
  BY <1>a, <1>m DEF Inv, SlaveInv
<1>4. DmaInv'
  BY <1>a DEF Inv, DmaInv
<1>5. FlagInv'
  BY <1>a, WireStays DEF Inv, FlagInv
<1>6. RegInv'
  BY <1>a, <1>m, SlaveStays DEF Inv, RegInv
<1>7. RoomInv'
  BY <1>a DEF Inv, RoomInv
<1>8. IdleInv'
  BY <1>a, <1>m, WireStays DEF Inv, IdleInv
<1>9. HeaderInv'
  BY <1>a, <1>m, SlaveStays, WireStays DEF Inv, HeaderInv
<1>10. DataInv'
  BY <1>a, <1>m DEF Inv, DataInv
<1>11. WriteInv'
  BY <1>a, <1>m, WireStays DEF Inv, WriteInv
<1>12. ReadInv'
  BY <1>a, <1>m DEF Inv, ReadInv
<1>13. PassInv'
  BY <1>a DEF Inv, PassInv
<1>14. QED
  BY <1>1, <1>2, <1>3, <1>4, <1>5, <1>6, <1>7, <1>8, <1>9, <1>10, <1>11, <1>12,
     <1>13
     DEF Inv

\* The reset is commanded.
LEMMA WriteResetStep ==
    ASSUME TypeOK, Inv, ~crossed, WriteReg("reset", "RESET", "ready")
    PROVE  TypeOK' /\ Inv'
<1>a. /\ pc = "reset" /\ pc' = "ready" /\ retry' = 0
      /\ rx_reg0' \in {rx_reg0, "RESET"}
      /\ UNCHANGED <<type, phase, i, stat, out, cmpr, ret, spc, start, state,
                     command, temp_addr, temp_size, count, op, rx_complete,
                     tx_complete, tx_finish, storage, ier, tx_reg0, rxfifo,
                     txfifo, dma_req, dma, recovering, crossed>>
  BY DEF WriteReg, soft, flags, hist
<1>m. /\ ~Sends /\ ~SendsExit /\ ~Mid /\ ~Writing /\ ~Reads /\ ~Serving
      /\ ~Sends' /\ ~SendsExit' /\ ~Mid' /\ ~Writing' /\ ~Reads' /\ ~Serving'
  BY <1>a DEF Inv, MasterInv, Sends, SendsExit, Mid, Writing, Reads, Serving
<1>1. TypeOK'
  <2>1. /\ pc' \in {"idle", "ready", "shift", "rdfs", "block", "reset_en",
                    "reseten", "reset"}
        /\ retry' \in 0 .. MaxRetry + 1
    BY <1>a, Numbers
  <2>2. rx_reg0' \in {"none", "RESET_EN", "RESET"}
    BY <1>a DEF TypeOK
  <2>3. QED
    BY <1>a, <2>1, <2>2 DEF TypeOK
<1>2. MasterInv'
  BY <1>a, <1>m DEF Inv, MasterInv
<1>3. SlaveInv'
  BY <1>a, <1>m DEF Inv, SlaveInv
<1>4. DmaInv'
  BY <1>a DEF Inv, DmaInv
<1>5. FlagInv'
  BY <1>a, WireStays DEF Inv, FlagInv
<1>6. RegInv'
  BY <1>a, <1>m, SlaveStays DEF Inv, RegInv
<1>7. RoomInv'
  BY <1>a DEF Inv, RoomInv
<1>8. IdleInv'
  BY <1>a, <1>m, WireStays DEF Inv, IdleInv
<1>9. HeaderInv'
  BY <1>a, <1>m, SlaveStays, WireStays DEF Inv, HeaderInv
<1>10. DataInv'
  BY <1>a, <1>m DEF Inv, DataInv
<1>11. WriteInv'
  BY <1>a, <1>m, WireStays DEF Inv, WriteInv
<1>12. ReadInv'
  BY <1>a, <1>m DEF Inv, ReadInv
<1>13. PassInv'
  BY <1>a DEF Inv, PassInv
<1>14. QED
  BY <1>1, <1>2, <1>3, <1>4, <1>5, <1>6, <1>7, <1>8, <1>9, <1>10, <1>11, <1>12,
     <1>13
     DEF Inv

\* A byte goes over the wire.
LEMMA ShiftStep ==
    ASSUME TypeOK, Inv, ~crossed, Shift
    PROVE  TypeOK' /\ Inv'
<1>a. /\ pc = "shift" /\ out # <<>>
      /\ out' = Tail(out) /\ rxfifo' = Append(rxfifo, Head(out))
      /\ RxAvail => Len(rxfifo) < Backlog
      /\ ~TxEmpty /\ spc # "off"
      /\ UNCHANGED <<pc, type, phase, i, stat, retry, cmpr, ret, spc, start,
                     state, command, temp_addr, temp_size, count, op,
                     rx_complete, tx_complete, tx_finish, storage, ier,
                     tx_reg0, rx_reg0, txfifo, dma_req, dma, recovering,
                     crossed>>
  <2>1. spc # "off"
    BY DEF Inv, SlaveInv, Shift, Mid
  <2>2. QED
    BY <2>1 DEF Shift, Hears, master, soft, flags, hard, hist
<1>z. /\ PATTERN_BUF_SIZE \in Nat \ {0} /\ FIFO_SIZE \in Nat \ {0}
      /\ Half \in Nat \ {0} /\ FIFO_SIZE = Half + Half
      /\ FIFO_SIZE <= PATTERN_BUF_SIZE /\ MaxRetry \in Nat
      /\ Base \in Int /\ Cnt \in Int /\ Rest \in Int
      /\ dma.n \in 0 .. PATTERN_BUF_SIZE
  BY Sizes, Counters DEF Inv
<1>w. /\ rxfifo' \in Seq(Cells) /\ out' \in Seq(Cells)
      /\ Len(rxfifo') = Len(rxfifo) + 1 /\ Len(out') = Len(out) - 1
      /\ Bytes' = Bytes /\ \A j \in 1 .. Bytes : Wire(j)' = Wire(j)
  BY <1>a, WireShifts
<1>l. Len(out) \in Nat /\ Len(out) >= 1 /\ Mid /\ phase # "reset" /\ start # 0
  BY <1>a DEF Inv, MasterInv, SlaveInv, Mid
<1>e. "TXFIFO_EMPTY" \in ier => state # STA_CMD
  BY <1>a DEF Inv, ReadInv, TxEmpty
<1>r. Len(rxfifo) + 1 <= FIFO_SIZE
  <2>1. CASE "RXAVAIL" \in ier \/ rxfifo = <<>>
    <3>1. Backlog \in 1 .. 4 /\ Backlog <= FIFO_SIZE
      BY Sizes
    <3>2. rxfifo # <<>> => Len(rxfifo) < Backlog
      BY <1>a, <2>1 DEF RxAvail
    <3>3. QED
      BY <1>z, <3>1, <3>2, WireType
  <2>2. CASE "RXAVAIL" \notin ier
    <3>1. ~SendsExit /\ ~InHeader /\ ~(state = STA_CMD /\ Sends)
      BY <1>a, <2>2 DEF Inv, RegInv
    <3>2. phase \in {"write", "read"} /\ i \in Nat
      BY <1>a, <1>l, <3>1 DEF TypeOK, SendsExit
    <3>3. CASE i > 0
      <4>1. phase = "write"
        BY <1>a, <3>2, <3>3 DEF Inv, MasterInv
      <4>2. QED
        BY <1>a, <1>l, <1>z, <3>3, <4>1, WireType DEF Inv, RoomInv
    <3>4. CASE i = 0
      <4>1. Sends /\ state \in Data
        BY <1>a, <3>1, <3>2, <3>4 DEF Sends, TypeOK, InHeader
      <4>2. ~Reads
        BY <1>a, <4>1 DEF Inv, ReadInv
      <4>3. Writing
        BY <1>l, <4>2 DEF Writing, Reads
      <4>4. Early
        BY <1>z, <3>4, <4>3 DEF Inv, WriteInv
      <4>5. Base >= 0 /\ Bytes > 0
        BY <1>l, <4>1, WireType DEF Base, InHeader, TypeOK
      <4>6. Base + Bytes = i
        BY <4>1, <4>3, <4>4 DEF Inv, WriteInv
      <4>7. QED
        BY <1>z, <3>4, <4>5, <4>6, WireType
    <3>5. QED
      BY <3>2, <3>3, <3>4
  <2>3. QED
    BY <2>1, <2>2
<1>1. TypeOK'
  BY <1>w, <1>a DEF TypeOK
<1>2. MasterInv'
  BY <1>a, MasterStays DEF Inv, MasterInv
<1>3. SlaveInv'
  BY <1>a, <1>l, MasterStays DEF Inv, SlaveInv
<1>4. DmaInv'
  BY <1>a DEF Inv, DmaInv
<1>5. FlagInv'
  BY <1>a, <1>w DEF Inv, FlagInv
<1>6. RegInv'
  BY <1>a, <1>l, <1>e, MasterStays, SlaveStays DEF Inv, RegInv
<1>7. RoomInv'
  BY <1>a, <1>w, <1>r DEF Inv, RoomInv
<1>8. IdleInv'
  <2>1. (state = STA_CMD /\ Sends =>
          /\ Len(out) \in 1 .. 5 /\ Bytes >= 5)'
    <3>1. SUFFICES ASSUME state = STA_CMD, Sends
                   PROVE  Len(out') \in 1 .. 5 /\ Bytes' >= 5
      BY <1>a, MasterStays
    <3>2. "RXAVAIL" \in ier /\ Len(out) \in 1 .. 5 /\ Bytes >= 5
      BY <3>1 DEF Inv, RegInv, IdleInv
    <3>3. rxfifo # <<>> => Len(rxfifo) < Backlog
      BY <1>a, <3>2 DEF RxAvail
    <3>4. Backlog \in 1 .. 4
      BY Sizes
    <3>5. Len(rxfifo) <= 3
      <4>1. Len(rxfifo) = 0 \/ Len(rxfifo) < Backlog
        BY <3>3, WireType
      <4>2. Len(rxfifo) \in Nat
        BY WireType
      <4>3. QED
        BY <3>4, <4>1, <4>2
    <3>6. PICK n \in 1 .. 5 : n = Len(out)
      BY <3>2
    <3>7. n >= 2
      BY <3>2, <3>5, <3>6, WireType
    <3>8. Len(out') = n - 1 /\ Bytes' >= 5
      BY <1>w, <3>2, <3>6
    <3>9. QED
      BY <3>6, <3>7, <3>8
  <2>2. /\ (state = STA_CMD /\ Sends =>
             /\ \A j \in 1 .. Bytes :
                  /\ j + 4 < Bytes => Wire(j).b = 0
                  /\ j + 4 = Bytes => Wire(j).b = Command
                  /\ j + 4 > Bytes => HByte(Bytes + 1 - j, Wire(j).b))'
        /\ (state = STA_CMD /\ ~Sends =>
             \A j \in 1 .. Bytes :
               \/ Wire(j).b = 0
               \/ j = Bytes /\ Wire(j).b = CMD_EXIT /\ (Mid => SendsExit))'
    BY <1>a, <1>w, MasterStays DEF Inv, IdleInv
  <2>3. QED
    BY <2>1, <2>2 DEF IdleInv
<1>9. HeaderInv'
  BY <1>a, <1>z, <1>w, MasterStays, SlaveStays DEF Inv, HeaderInv
<1>10. DataInv'
  BY <1>a, MasterStays DEF Inv, DataInv
<1>11. WriteInv'
  BY <1>a, <1>w, MasterStays, SlaveStays, StoredStays DEF Inv, WriteInv
<1>12. ReadInv'
  BY <1>a, <1>w, MasterStays, SlaveStays, StoredStays DEF Inv, ReadInv
<1>13. PassInv'
  BY <1>a DEF Inv, PassInv
<1>14. QED
  BY <1>1, <1>2, <1>3, <1>4, <1>5, <1>6, <1>7, <1>8, <1>9, <1>10, <1>11, <1>12,
     <1>13
     DEF Inv

\* The slave's program starts.
LEMMA SlaveStartStep ==
    ASSUME TypeOK, Inv, ~crossed, SlaveStart
    PROVE  TypeOK' /\ Inv'
<1>a. /\ spc = "off" /\ start' = 1 /\ spc' = "ready" /\ op' = 0
      /\ storage' = [k \in Storage |-> Plain(0)]
      /\ rxfifo' = <<>> /\ txfifo' = <<>> /\ dma_req' = FALSE
      /\ ier' = {"RX_REG0", "RXAVAIL"} /\ count' = 0
      /\ rx_complete' = 1 /\ tx_complete' = 1 /\ tx_finish' = 1
      /\ tx_reg0' = "BUSY" /\ rx_reg0' = "none"
      /\ UNCHANGED <<pc, type, phase, i, stat, out, retry, cmpr, ret, state,
                     command, temp_addr, temp_size, dma, recovering, crossed>>
  BY DEF SlaveStart, ProtocolReset, master, hist
<1>s. /\ state = STA_CMD /\ start = 0 /\ recovering = FALSE /\ ~InHeader
      /\ ~InHeader'
      /\ Mid => SendsExit /\ phase = "exit"
      /\ ~Sends /\ ~Writing /\ ~Serving /\ (Reads => phase = "exit")
      /\ out = <<>> /\ rxfifo = <<>> /\ Bytes = 0 /\ Bytes' = 0
  <2>1. start = 0 /\ state = STA_CMD /\ rxfifo = <<>> /\ (Mid => SendsExit /\ out = <<>>)
    BY <1>a DEF Inv, SlaveInv
  <2>2. out = <<>>
    BY <2>1 DEF Inv, MasterInv, Mid
  <2>3. recovering = FALSE
    BY <2>1 DEF TypeOK, Inv, RegInv
  <2>4. ~InHeader /\ ~InHeader'
    BY <1>a, <2>1 DEF InHeader
  <2>5. /\ Mid => SendsExit /\ phase = "exit"
        /\ ~Sends /\ ~Writing /\ ~Serving /\ (Reads => phase = "exit")
    BY <2>1 DEF Mid, SendsExit, Sends, Writing, Serving, Reads
  <2>6. Bytes = 0 /\ Bytes' = 0
    BY <1>a, <2>1, <2>2, WireType, WireClears
  <2>7. QED
    BY <2>1, <2>2, <2>3, <2>4, <2>5, <2>6
<1>1. TypeOK'
  <2>1. /\ start' \in 0 .. 1
        /\ spc' \in {"off", "loop", "clear", "arm", "fill", "put", "empty",
                     "dma", "wait", "undma", "wait_empty", "flush", "free",
                     "rearm", "ready"}
        /\ op' \in Data \cup {0}
        /\ txfifo' \in Seq(Cells)
        /\ ier' \subseteq {"RX_REG0", "RXAVAIL", "TXFIFO_EMPTY"}
        /\ rx_complete' \in 0 .. 1
        /\ tx_complete' \in 0 .. 1
        /\ tx_finish' \in 0 .. 1
        /\ tx_reg0' \in {"BUSY", "READY", "RESET_EN"}
        /\ rx_reg0' \in {"none", "RESET_EN", "RESET"}
        /\ storage' \in [Storage -> Cells]
    BY <1>a, CellIs DEF Storage
  <2>2. rxfifo' \in Seq(Cells)
    BY <1>a, <1>s, WireClears
  <2>3. dma_req' \in BOOLEAN
    BY <1>a, <1>s, WireType, Numbers, MasterStays, WireClears
       DEF Inv, TypeOK, Cells, Plain, NoDma, States, MasterInv, SlaveInv
  <2>4. count' \in 0 .. PATTERN_BUF_SIZE + Half
    BY <1>a, Numbers
  <2>5. QED
    BY <1>a, <2>1, <2>2, <2>3, <2>4 DEF TypeOK
<1>2. MasterInv'
  BY <1>a, MasterStays DEF Inv, MasterInv
<1>3. SlaveInv'
  BY <1>a DEF Inv, SlaveInv
<1>4. DmaInv'
  BY <1>a DEF Inv, DmaInv
<1>5. FlagInv'
  BY <1>a DEF Inv, FlagInv
<1>6. RegInv'
  BY <1>a, <1>s, MasterStays DEF Inv, RegInv
<1>7. RoomInv'
  BY <1>a, <1>s, MasterStays DEF Inv, RoomInv
<1>8. IdleInv'
  BY <1>a, <1>s, MasterStays DEF IdleInv
<1>9. HeaderInv'
  BY <1>a, <1>s DEF HeaderInv
<1>10. DataInv'
  BY <1>a, MasterStays DEF Inv, DataInv
<1>11. WriteInv'
  BY <1>a, <1>s, MasterStays DEF WriteInv
<1>12. ReadInv'
  BY <1>a, <1>s, MasterStays DEF Inv, ReadInv
<1>13. PassInv'
  BY <1>a DEF Inv, PassInv
<1>14. QED
  BY <1>1, <1>2, <1>3, <1>4, <1>5, <1>6, <1>7, <1>8, <1>9, <1>10, <1>11, <1>12,
     <1>13
     DEF Inv

\* The main program takes up a command.
LEMMA DispatchStep ==
    ASSUME TypeOK, Inv, ~crossed, Dispatch
    PROVE  TypeOK' /\ Inv'
<1>a. /\ spc = "loop" /\ start = 1 /\ state \in Data /\ op' = state
      /\ spc' = "clear"
      /\ UNCHANGED <<pc, type, phase, i, stat, out, retry, cmpr, ret, start,
                     state, command, temp_addr, temp_size, count, rx_complete,
                     tx_complete, tx_finish, storage, ier, tx_reg0, rx_reg0,
                     rxfifo, txfifo, dma_req, dma, recovering, crossed>>
  BY DEF Dispatch, master, flags, hard, hist
<1>1. TypeOK'
  BY <1>a DEF TypeOK
<1>2. MasterInv'
  BY <1>a, MasterStays DEF Inv, MasterInv
<1>3. SlaveInv'
  BY <1>a DEF Inv, SlaveInv
<1>4. DmaInv'
  BY <1>a DEF Inv, DmaInv
<1>5. FlagInv'
  BY <1>a DEF Inv, FlagInv
<1>6. RegInv'
  BY <1>a, MasterStays DEF Inv, RegInv, InHeader
<1>7. RoomInv'
  BY <1>a, MasterStays, WireStays DEF Inv, RoomInv
<1>8. IdleInv'
  BY <1>a DEF Inv, IdleInv, HByte
<1>9. HeaderInv'
  BY <1>a, MasterStays DEF Inv, HeaderInv, InHeader
<1>10. DataInv'
  BY <1>a, MasterStays DEF Inv, DataInv
<1>11. WriteInv'
  BY <1>a, MasterStays, WireStays DEF Inv, WriteInv, InHeader, Early, Base
<1>12. ReadInv'
  BY <1>a, MasterStays, StoredStays DEF Inv, ReadInv, InHeader, Rest, Cnt
<1>13. PassInv'
  BY <1>a DEF Inv, PassInv
<1>14. QED
  BY <1>1, <1>2, <1>3, <1>4, <1>5, <1>6, <1>7, <1>8, <1>9, <1>10, <1>11, <1>12,
     <1>13
     DEF Inv

\* The slave's program ends.
LEMMA SlaveStopStep ==
    ASSUME TypeOK, Inv, ~crossed, SlaveStop
    PROVE  TypeOK' /\ Inv'
<1>a. /\ spc = "loop" /\ start = 0 /\ spc' = "off" /\ tx_reg0' = "BUSY"
      /\ UNCHANGED <<pc, type, phase, i, stat, out, retry, cmpr, ret, start,
                     state, command, temp_addr, temp_size, count, op,
                     rx_complete, tx_complete, tx_finish, storage, ier,
                     rx_reg0, rxfifo, txfifo, dma_req, dma, recovering,
                     crossed>>
  BY DEF SlaveStop, master, soft, flags, hist
<1>n. ~Writing
  BY <1>a DEF Inv, SlaveInv, Writing, SendsExit
<1>1. TypeOK'
  BY <1>a DEF TypeOK
<1>2. MasterInv'
  BY <1>a, MasterStays DEF Inv, MasterInv
<1>3. SlaveInv'
  BY <1>a, MasterStays DEF Inv, SlaveInv
<1>4. DmaInv'
  BY <1>a DEF Inv, DmaInv
<1>5. FlagInv'
  BY <1>a DEF Inv, FlagInv
<1>6. RegInv'
  BY <1>a, MasterStays DEF Inv, RegInv, InHeader
<1>7. RoomInv'
  BY <1>a, MasterStays, WireStays DEF Inv, RoomInv
<1>8. IdleInv'
  BY <1>a, MasterStays, WireStays DEF Inv, IdleInv
<1>9. HeaderInv'
  BY <1>a, MasterStays, WireStays
     DEF Inv, HeaderInv, HByte, InHeader, Rest, Base
<1>10. DataInv'
  BY <1>a, MasterStays DEF Inv, DataInv
<1>11. WriteInv'
  BY <1>a, <1>n, MasterStays DEF Inv, WriteInv
<1>12. ReadInv'
  BY <1>a, MasterStays, StoredStays, WireStays
     DEF Inv, ReadInv, InHeader, Rest, Cnt
<1>13. PassInv'
  BY <1>a DEF Inv, PassInv
<1>14. QED
  BY <1>1, <1>2, <1>3, <1>4, <1>5, <1>6, <1>7, <1>8, <1>9, <1>10, <1>11, <1>12,
     <1>13
     DEF Inv

\* A command clears its flags.
LEMMA ClearStep ==
    ASSUME TypeOK, Inv, ~crossed, Clear
    PROVE  TypeOK' /\ Inv'
<1>a. /\ spc = "clear"
      /\ op \in Reading => tx_complete' = 0 /\ tx_finish' = 0 /\ rx_complete' = rx_complete
      /\ op \notin Reading => rx_complete' = 0 /\ tx_complete' = tx_complete /\ tx_finish' = tx_finish
      /\ count' = IF op \in {CMD_WRITE, CMD_READ} THEN 0 ELSE count
      /\ spc' = IF op = CMD_WRITE THEN "arm" ELSE IF op = CMD_READ THEN "fill" ELSE "dma"
      /\ UNCHANGED <<pc, type, phase, i, stat, out, retry, cmpr, ret, start,
                     state, command, temp_addr, temp_size, op, storage, ier,
                     tx_reg0, rx_reg0, rxfifo, txfifo, dma_req, dma,
                     recovering, crossed>>
  <2>1. op \in Data
    BY DEF TypeOK, Inv, SlaveInv, DataInv, Clear
  <2>2. QED
    BY <2>1 DEF Clear, master, soft, flags, hard, hist
<1>s. /\ state \in Data /\ op = state /\ ~InHeader /\ ~InHeader'
  BY <1>a DEF Inv, SlaveInv, InHeader
<1>e. /\ Early /\ (Early' <=> op # CMD_READ) /\ (Writing => op # CMD_READ)
      /\ Base = 0 /\ Base' = 0 /\ Cnt = 0 /\ Cnt' = 0
  BY <1>a, <1>s DEF Early, Base, Cnt, Inv, DataInv, Due, Writing
<1>f. state = CMD_WRITE => Bytes <= PATTERN_BUF_SIZE + Half
  <2>1. SUFFICES ASSUME state = CMD_WRITE
                 PROVE  Bytes <= PATTERN_BUF_SIZE + Half
    OBVIOUS
  <2>2. CASE Mid
    <3>1. Writing
      BY <2>1, <2>2 DEF Inv, DataInv, Due
    <3>2. Base + Bytes = i
      BY <1>s, <1>e, <3>1 DEF Inv, WriteInv
    <3>3. QED
      BY <1>e, <3>2, WireType, Numbers, SMTT(20) DEF TypeOK
  <2>3. CASE ~Mid
    <3>1. out = <<>> /\ Len(rxfifo) <= FIFO_SIZE
      BY <2>3 DEF Inv, MasterInv, RoomInv, Mid
    <3>2. QED
      BY <3>1, WireType, Numbers
  <2>4. QED
    BY <2>2, <2>3
<1>1. TypeOK'
  <2>1. /\ rx_complete' \in 0 .. 1 /\ tx_complete' \in 0 .. 1
        /\ tx_finish' \in 0 .. 1
    BY <1>a DEF TypeOK
  <2>2. count' \in 0 .. PATTERN_BUF_SIZE + Half
    BY <1>a, Numbers DEF TypeOK
  <2>3. spc' \in {"arm", "fill", "dma"}
    BY <1>a
  <2>4. QED
    BY <1>a, <2>1, <2>2, <2>3 DEF TypeOK
<1>2. MasterInv'
  BY <1>a, MasterStays DEF Inv, MasterInv
<1>3. SlaveInv'
  BY <1>a DEF Inv, SlaveInv
<1>4. DmaInv'
  BY <1>a DEF Inv, DmaInv
<1>5. FlagInv'
  BY <1>a, <1>f, Numbers, WireType, WireStays DEF Inv, FlagInv
<1>6. RegInv'
  BY <1>a, <1>s, MasterStays DEF Inv, RegInv
<1>7. RoomInv'
  BY <1>a, WireStays DEF Inv, RoomInv
<1>8. IdleInv'
  BY <1>a, <1>s DEF IdleInv
<1>9. HeaderInv'
  BY <1>a, <1>s, MasterStays DEF Inv, HeaderInv
<1>10. DataInv'
  BY <1>a, MasterStays DEF Inv, DataInv
<1>11. WriteInv'
  BY <1>a, <1>s, <1>e, MasterStays, WireStays DEF Inv, WriteInv
<1>12. ReadInv'
  BY <1>a, <1>s, <1>e, MasterStays, StoredStays DEF Inv, ReadInv
<1>13. PassInv'
  BY <1>a DEF Inv, PassInv
<1>14. QED
  BY <1>1, <1>2, <1>3, <1>4, <1>5, <1>6, <1>7, <1>8, <1>9, <1>10, <1>11, <1>12,
     <1>13
     DEF Inv

\* CMD_WRITE lets the handler take the data.
LEMMA ArmStep ==
    ASSUME TypeOK, Inv, ~crossed, Enable("arm", "RXAVAIL", "wait")
    PROVE  TypeOK' /\ Inv'
<1>a. /\ spc = "arm" /\ spc' = "wait" /\ ier' = ier \cup {"RXAVAIL"}
      /\ UNCHANGED <<pc, type, phase, i, stat, out, retry, cmpr, ret, start,
                     state, command, temp_addr, temp_size, count, op,
                     rx_complete, tx_complete, tx_finish, storage, tx_reg0,
                     rx_reg0, rxfifo, txfifo, dma_req, dma, recovering,
                     crossed>>
  BY DEF Enable, master, soft, flags, hist
<1>s. /\ state \in Data /\ op = state /\ ~InHeader /\ ~InHeader'
  BY <1>a DEF Inv, SlaveInv, InHeader
<1>e. /\ state = CMD_WRITE /\ Early /\ Early' /\ Base = count /\ Base' = count
      /\ Cnt = 0 /\ Cnt' = 0
  BY <1>a, <1>s DEF Inv, SlaveInv, Early, Base, Cnt
<1>1. TypeOK'
  BY <1>a DEF TypeOK
<1>2. MasterInv'
  BY <1>a, MasterStays DEF Inv, MasterInv
<1>3. SlaveInv'
  BY <1>a DEF Inv, SlaveInv
<1>4. DmaInv'
  BY <1>a, <1>s, <1>e DEF Inv, DmaInv
<1>5. FlagInv'
  BY <1>a, <1>s, <1>e, WireStays DEF Inv, FlagInv
<1>6. RegInv'
  BY <1>a, <1>e, MasterStays DEF Inv, RegInv
<1>7. RoomInv'
  BY <1>a, WireStays DEF Inv, RoomInv
<1>8. IdleInv'
  BY <1>a, <1>s DEF IdleInv
<1>9. HeaderInv'
  BY <1>a, <1>s, MasterStays DEF Inv, HeaderInv
<1>10. DataInv'
  BY <1>a, MasterStays DEF Inv, DataInv
<1>11. WriteInv'
  BY <1>a, <1>e, MasterStays, WireStays DEF Inv, WriteInv
<1>12. ReadInv'
  BY <1>a, <1>s, <1>e, MasterStays, StoredStays DEF Inv, ReadInv
<1>13. PassInv'
  BY <1>a DEF Inv, PassInv
<1>14. QED
  BY <1>1, <1>2, <1>3, <1>4, <1>5, <1>6, <1>7, <1>8, <1>9, <1>10, <1>11, <1>12,
     <1>13
     DEF Inv

\* CMD_READ looks at its flag.
LEMMA FillStep ==
    ASSUME TypeOK, Inv, ~crossed, Fill
    PROVE  TypeOK' /\ Inv'
<1>a. /\ spc = "fill" /\ spc' = IF tx_complete = 1 THEN "empty" ELSE "put"
      /\ UNCHANGED <<pc, type, phase, i, stat, out, retry, cmpr, ret, start,
                     state, command, temp_addr, temp_size, count, op,
                     rx_complete, tx_complete, tx_finish, storage, ier,
                     tx_reg0, rx_reg0, rxfifo, txfifo, dma_req, dma,
                     recovering, crossed>>
  BY DEF Fill, master, soft, flags, hard, hist
<1>s. /\ state \in Data /\ op = state /\ ~InHeader /\ ~InHeader'
  BY <1>a DEF Inv, SlaveInv, InHeader
<1>e. /\ state = CMD_READ /\ ~Early /\ ~Early' /\ Cnt = count /\ Cnt' = count
      /\ Reads /\ tx_complete = 1 => count = PATTERN_BUF_SIZE
  BY <1>a DEF Inv, SlaveInv, Early, Cnt, FlagInv, RegInv, Reads
<1>1. TypeOK'
  BY <1>a DEF TypeOK
<1>2. MasterInv'
  BY <1>a, MasterStays DEF Inv, MasterInv
<1>3. SlaveInv'
  BY <1>a DEF Inv, SlaveInv
<1>4. DmaInv'
  BY <1>a DEF Inv, DmaInv
<1>5. FlagInv'
  BY <1>a DEF TypeOK, Inv, FlagInv
<1>6. RegInv'
  BY <1>a, <1>s, MasterStays DEF Inv, RegInv
<1>7. RoomInv'
  BY <1>a, WireStays DEF Inv, RoomInv
<1>8. IdleInv'
  BY <1>a, <1>s DEF IdleInv
<1>9. HeaderInv'
  BY <1>a, <1>s, MasterStays DEF Inv, HeaderInv
<1>10. DataInv'
  BY <1>a, MasterStays DEF Inv, DataInv
<1>11. WriteInv'
  BY <1>a, <1>e, MasterStays, StoredStays, WireStays DEF Inv, WriteInv
<1>12. ReadInv'
  BY <1>a, <1>s, <1>e, MasterStays, StoredStays DEF Inv, ReadInv
<1>13. PassInv'
  BY <1>a DEF Inv, PassInv
<1>14. QED
  BY <1>1, <1>2, <1>3, <1>4, <1>5, <1>6, <1>7, <1>8, <1>9, <1>10, <1>11, <1>12,
     <1>13
     DEF Inv

\* The transmit FIFO is full.
LEMMA FullStep ==
    ASSUME TypeOK, Inv, ~crossed, Put, Len(txfifo) >= FIFO_SIZE
    PROVE  TypeOK' /\ Inv'
<1>a. /\ spc = "put" /\ spc' = "fill"
      /\ UNCHANGED <<pc, type, phase, i, stat, out, retry, cmpr, ret, start,
                     state, command, temp_addr, temp_size, count, op,
                     rx_complete, tx_complete, tx_finish, storage, ier,
                     tx_reg0, rx_reg0, rxfifo, txfifo, dma_req, dma,
                     recovering, crossed>>
  BY Sizes DEF Put, master, soft, hist
<1>s. /\ state \in Data /\ op = state /\ ~InHeader /\ ~InHeader'
  BY <1>a DEF Inv, SlaveInv, InHeader
<1>e. /\ state = CMD_READ /\ ~Early /\ ~Early' /\ Cnt = count /\ Cnt' = count
  BY <1>a DEF Inv, SlaveInv, Early, Cnt
<1>1. TypeOK'
  BY <1>a DEF TypeOK
<1>2. MasterInv'
  BY <1>a, MasterStays DEF Inv, MasterInv
<1>3. SlaveInv'
  BY <1>a DEF Inv, SlaveInv
<1>4. DmaInv'
  BY <1>a DEF Inv, DmaInv
<1>5. FlagInv'
  BY <1>a DEF Inv, FlagInv
<1>6. RegInv'
  BY <1>a, <1>s, MasterStays DEF Inv, RegInv
<1>7. RoomInv'
  BY <1>a, WireStays DEF Inv, RoomInv
<1>8. IdleInv'
  BY <1>a, <1>s DEF IdleInv
<1>9. HeaderInv'
  BY <1>a, <1>s, MasterStays DEF Inv, HeaderInv
<1>10. DataInv'
  BY <1>a, MasterStays DEF Inv, DataInv
<1>11. WriteInv'
  BY <1>a, <1>e, MasterStays, StoredStays, WireStays DEF Inv, WriteInv
<1>12. ReadInv'
  BY <1>a, <1>s, <1>e, MasterStays, StoredStays DEF Inv, ReadInv
<1>13. PassInv'
  BY <1>a DEF Inv, PassInv
<1>14. QED
  BY <1>1, <1>2, <1>3, <1>4, <1>5, <1>6, <1>7, <1>8, <1>9, <1>10, <1>11, <1>12,
     <1>13
     DEF Inv

\* A byte is put in the transmit FIFO.
LEMMA PutStep ==
    ASSUME TypeOK, Inv, ~crossed, Put, Len(txfifo) < FIFO_SIZE
    PROVE  TypeOK' /\ Inv'
<1>a. /\ spc = "put"
      /\ txfifo' = Append(txfifo, storage[temp_addr + count])
      /\ count' = count + 1
      /\ \/ temp_size = count' /\ tx_complete' = 1 /\ spc' = "fill"
         \/ temp_size # count' /\ tx_complete' = tx_complete /\ spc' = spc
      /\ UNCHANGED <<pc, type, phase, i, stat, out, retry, cmpr, ret, start,
                     state, command, temp_addr, temp_size, op, rx_complete,
                     tx_finish, storage, ier, tx_reg0, rx_reg0, rxfifo,
                     dma_req, dma, recovering, crossed>>
  BY Sizes DEF Put, master, soft, hist
<1>t. /\ Len(rxfifo) \in Nat /\ Len(out) \in Nat /\ Len(txfifo) \in Nat
      /\ Bytes \in Nat /\ Bytes = Len(rxfifo) + Len(out)
      /\ rxfifo = <<>> <=> Len(rxfifo) = 0
      /\ out = <<>> <=> Len(out) = 0
      /\ txfifo = <<>> <=> Len(txfifo) = 0
      /\ \A j \in 1 .. Len(rxfifo) : Wire(j) = rxfifo[j]
      /\ \A j \in 1 .. Bytes : Wire(j) \in Cells
  BY WireType
<1>z. /\ PATTERN_BUF_SIZE \in Nat \ {0} /\ FIFO_SIZE \in Nat \ {0}
      /\ Half \in Nat \ {0} /\ FIFO_SIZE = Half + Half
      /\ FIFO_SIZE <= PATTERN_BUF_SIZE /\ MaxRetry \in Nat
      /\ Base \in Int /\ Cnt \in Int /\ Rest \in Int
      /\ dma.n \in 0 .. PATTERN_BUF_SIZE
  BY Sizes, Counters DEF Inv
<1>m. /\ Sends' <=> Sends
      /\ SendsExit' <=> SendsExit
      /\ Mid' <=> Mid
      /\ Writing' <=> Writing
      /\ Reads' <=> Reads
      /\ Serving' <=> Serving
      /\ Due' = Due /\ Command' = Command
  BY <1>a, MasterStays
<1>s. /\ state \in Data /\ op = state /\ ~InHeader /\ ~InHeader'
  BY <1>a DEF Inv, SlaveInv, InHeader
<1>e. /\ state = CMD_READ /\ ~Early /\ ~Early' /\ Cnt = count
      /\ Cnt' = count + 1
      /\ count \in Nat /\ count < PATTERN_BUF_SIZE /\ temp_addr = 0
      /\ temp_size = PATTERN_BUF_SIZE
  BY <1>a DEF Inv, SlaveInv, FlagInv, DataInv, TypeOK, Early, Cnt
<1>f. /\ storage[count] \in Cells
      /\ storage[temp_addr + count] = storage[count] /\ count \in Storage
  BY <1>e, <1>z DEF TypeOK, Storage
<1>g. /\ txfifo' \in Seq(Cells) /\ Len(txfifo') = Len(txfifo) + 1
      /\ \A j \in 1 .. Len(txfifo) : txfifo'[j] = txfifo[j]
      /\ txfifo'[Len(txfifo) + 1] = storage[count]
  BY <1>a, <1>f, AppendIs DEF TypeOK
<1>h. Reads => storage[count].fresh = TRUE
  <2>1. SUFFICES ASSUME Reads PROVE storage[count].fresh = TRUE
    OBVIOUS
  <2>2. i + Len(txfifo) = count /\ i \in Nat
    BY <1>a, <1>e, <2>1 DEF TypeOK, Inv, ReadInv
  <2>3. phase # "exit"
    BY <1>e, <1>z, <2>2 DEF Inv, MasterInv
  <2>4. phase = "read"
    BY <2>1, <2>3 DEF Reads, Mid, TypeOK, Inv, MasterInv
  <2>5. QED
    BY <1>f, <2>1, <2>4 DEF Inv, ReadInv, Stored
<1>1. TypeOK'
  BY <1>a, <1>e, <1>z, <1>g DEF TypeOK
<1>2. MasterInv'
  BY <1>a, <1>m DEF Inv, MasterInv
<1>3. SlaveInv'
  BY <1>a DEF Inv, SlaveInv
<1>4. DmaInv'
  BY <1>a DEF Inv, DmaInv
<1>5. FlagInv'
  BY <1>a, <1>m, <1>e, <1>z DEF Inv, FlagInv
<1>6. RegInv'
  BY <1>a, <1>m, <1>s DEF Inv, RegInv
<1>7. RoomInv'
  BY <1>a, WireStays DEF Inv, RoomInv
<1>8. IdleInv'
  BY <1>a, <1>s DEF IdleInv
<1>9. HeaderInv'
  BY <1>m, <1>s DEF Inv, HeaderInv
<1>10. DataInv'
  BY <1>a, <1>m DEF Inv, DataInv
<1>11. WriteInv'
  BY <1>a, <1>m, <1>e, StoredStays, WireStays DEF Inv, WriteInv
<1>12. ReadInv'
  <2>1. /\ (txfifo # <<>> =>
             /\ state \in Reading)'
        /\ (txfifo # <<>> =>
             /\ spc \in {"fill", "put", "wait", "undma", "empty",
                         "wait_empty", "flush"})'
        /\ (Reads /\ state \in Data /\ spc \notin {"flush", "free"} =>
            /\ spc \in {"undma", "empty", "wait_empty"} => Cnt = PATTERN_BUF_SIZE)'
        /\ (Reads /\ spc \in {"flush", "free"} => i = PATTERN_BUF_SIZE)'
        /\ (Reads => \A k \in Storage : k < i => cmpr[k].fresh = TRUE)'
        /\ (Reads /\ state = STA_CMD /\ ~Sends => i >= PATTERN_BUF_SIZE)'
        /\ (Reads /\ state \in Data => rxfifo = <<>> /\ out = <<>>)'
    BY <1>a, <1>m, <1>e DEF Inv, ReadInv
  <2>2. (Reads /\ phase = "read" => Stored)'
    BY <1>a, <1>m, StoredStays DEF Inv, ReadInv
  <2>3. (Reads /\ InHeader => Bytes = Rest /\ i = 0)'
    BY <1>a, <1>m, <1>s DEF Inv, ReadInv
  <2>4. (Reads /\ state \in Data /\ spc \notin {"flush", "free"} =>
          /\ i + Len(txfifo) = Cnt /\ Cnt <= PATTERN_BUF_SIZE)'
    BY <1>a, <1>t, <1>z, <1>m, <1>e, <1>g, <1>h
       DEF TypeOK, Inv, ReadInv, DmaInv, Cnt
  <2>5. (Reads /\ state \in Data /\ spc \notin {"flush", "free"} =>
          /\ \A j \in 1 .. Len(txfifo) : txfifo[j].fresh = TRUE)'
    <3>1. SUFFICES ASSUME Reads, NEW j \in 1 .. Len(txfifo')
                   PROVE  txfifo'[j].fresh = TRUE
      BY <1>m
    <3>2. CASE j <= Len(txfifo)
      BY <1>a, <3>1, <3>2 DEF Inv, ReadInv
    <3>3. CASE j = Len(txfifo) + 1
      BY <1>g, <1>h, <3>1, <3>3
    <3>4. j \in Int /\ j <= Len(txfifo) + 1 /\ Len(txfifo) \in Nat
      BY <1>g, <1>t
    <3>5. j <= Len(txfifo) \/ j = Len(txfifo) + 1
      BY <3>4
    <3>6. QED
      BY <3>2, <3>3, <3>5
  <2>6. (Reads /\ pc = "block" => stat <= Len(txfifo))'
    BY <1>a, <1>m DEF TypeOK, Inv, ReadInv
  <2>7. QED
    BY <2>1, <2>2, <2>3, <2>4, <2>5, <2>6 DEF ReadInv
<1>13. PassInv'
  BY <1>a DEF Inv, PassInv
<1>14. QED
  BY <1>1, <1>2, <1>3, <1>4, <1>5, <1>6, <1>7, <1>8, <1>9, <1>10, <1>11, <1>12,
     <1>13
     DEF Inv

\* A reading command waits for the FIFO to run empty.
LEMMA EmptyStep ==
    ASSUME TypeOK, Inv, ~crossed, Enable("empty", "TXFIFO_EMPTY", "wait_empty")
    PROVE  TypeOK' /\ Inv'
<1>a. /\ spc = "empty" /\ spc' = "wait_empty"
      /\ ier' = ier \cup {"TXFIFO_EMPTY"}
      /\ UNCHANGED <<pc, type, phase, i, stat, out, retry, cmpr, ret, start,
                     state, command, temp_addr, temp_size, count, op,
                     rx_complete, tx_complete, tx_finish, storage, tx_reg0,
                     rx_reg0, rxfifo, txfifo, dma_req, dma, recovering,
                     crossed>>
  BY DEF Enable, master, soft, flags, hist
<1>s. /\ state \in Data /\ op = state /\ ~InHeader /\ ~InHeader'
  BY <1>a DEF Inv, SlaveInv, InHeader
<1>e. /\ state \in Reading /\ ~Early /\ ~Early' /\ Cnt' = Cnt
  BY <1>a DEF Inv, SlaveInv, Early, Cnt
<1>1. TypeOK'
  BY <1>a DEF TypeOK
<1>2. MasterInv'
  BY <1>a, MasterStays DEF Inv, MasterInv
<1>3. SlaveInv'
  BY <1>a DEF Inv, SlaveInv
<1>4. DmaInv'
  BY <1>a DEF Inv, DmaInv
<1>5. FlagInv'
  BY <1>a, <1>s, <1>e DEF Inv, FlagInv
<1>6. RegInv'
  BY <1>a, <1>s, MasterStays DEF Inv, RegInv
<1>7. RoomInv'
  BY <1>a, WireStays DEF Inv, RoomInv
<1>8. IdleInv'
  BY <1>a, <1>s DEF IdleInv
<1>9. HeaderInv'
  BY <1>a, <1>s, MasterStays DEF Inv, HeaderInv
<1>10. DataInv'
  BY <1>a, MasterStays DEF Inv, DataInv
<1>11. WriteInv'
  BY <1>a, <1>e, MasterStays, StoredStays, WireStays DEF Inv, WriteInv
<1>12. ReadInv'
  BY <1>a, <1>s, <1>e, MasterStays, StoredStays DEF Inv, ReadInv
<1>13. PassInv'
  BY <1>a DEF Inv, PassInv
<1>14. QED
  BY <1>1, <1>2, <1>3, <1>4, <1>5, <1>6, <1>7, <1>8, <1>9, <1>10, <1>11, <1>12,
     <1>13
     DEF Inv

\* A DMA command starts its channel.
LEMMA StartDmaStep ==
    ASSUME TypeOK, Inv, ~crossed, StartDma
    PROVE  TypeOK' /\ Inv'
<1>a. /\ spc = "dma" /\ spc' = "wait" /\ dma_req' = TRUE
      /\ dma' = [dir |-> IF op = CMD_DMAWR THEN "rx" ELSE "tx", n |-> 0]
      /\ UNCHANGED <<pc, type, phase, i, stat, out, retry, cmpr, ret, start,
                     state, command, temp_addr, temp_size, count, op,
                     rx_complete, tx_complete, tx_finish, storage, ier,
                     tx_reg0, rx_reg0, rxfifo, txfifo, recovering, crossed>>
  BY DEF StartDma, master, soft, flags, hist
<1>s. /\ state \in Data /\ op = state /\ ~InHeader /\ ~InHeader'
  BY <1>a DEF Inv, SlaveInv, InHeader
<1>e. /\ Early /\ Early' /\ Base = 0 /\ Base' = 0 /\ Cnt = 0 /\ Cnt' = 0
      /\ state \in {CMD_DMARD, CMD_DMAWR}
  BY <1>a, <1>s DEF Inv, SlaveInv, Early, Base, Cnt
<1>1. TypeOK'
  <2>1. /\ dma'.dir \in {"off", "rx", "tx"} /\ dma'.n \in 0 .. PATTERN_BUF_SIZE
        /\ dma_req' \in BOOLEAN
        /\ spc' \in {"off", "loop", "clear", "arm", "fill", "put", "empty",
                     "dma", "wait", "undma", "wait_empty", "flush", "free",
                     "rearm", "ready"}
    BY <1>a, Numbers
  <2>2. QED
    BY <1>a, <2>1 DEF TypeOK
<1>2. MasterInv'
  BY <1>a, MasterStays DEF Inv, MasterInv
<1>3. SlaveInv'
  BY <1>a DEF Inv, SlaveInv
<1>4. DmaInv'
  BY <1>a, <1>s, <1>e, Numbers DEF DmaInv
<1>5. FlagInv'
  BY <1>a, <1>s, <1>e DEF Inv, FlagInv
<1>6. RegInv'
  BY <1>a, <1>s, <1>e, MasterStays DEF Inv, RegInv
<1>7. RoomInv'
  BY <1>a, WireStays DEF Inv, RoomInv
<1>8. IdleInv'
  BY <1>a, <1>s DEF IdleInv
<1>9. HeaderInv'
  BY <1>a, <1>s, MasterStays DEF Inv, HeaderInv
<1>10. DataInv'
  BY <1>a, MasterStays DEF Inv, DataInv
<1>11. WriteInv'
  BY <1>a, <1>e, MasterStays, WireStays DEF Inv, WriteInv
<1>12. ReadInv'
  BY <1>a, <1>s, <1>e, MasterStays, StoredStays DEF Inv, ReadInv
<1>13. PassInv'
  BY <1>a DEF Inv, PassInv
<1>14. QED
  BY <1>1, <1>2, <1>3, <1>4, <1>5, <1>6, <1>7, <1>8, <1>9, <1>10, <1>11, <1>12,
     <1>13
     DEF Inv

\* It stops it.
LEMMA StopDmaStep ==
    ASSUME TypeOK, Inv, ~crossed, StopDma
    PROVE  TypeOK' /\ Inv'
<1>a. /\ spc = "undma" /\ spc' = (IF op = CMD_DMAWR THEN "flush" ELSE "empty")
      /\ dma_req' = FALSE
      /\ dma' = NoDma
      /\ UNCHANGED <<pc, type, phase, i, stat, out, retry, cmpr, ret, start,
                     state, command, temp_addr, temp_size, count, op,
                     rx_complete, tx_complete, tx_finish, storage, ier,
                     tx_reg0, rx_reg0, rxfifo, txfifo, recovering, crossed>>
  BY DEF StopDma, master, soft, flags, hist
<1>s. /\ state \in Data /\ op = state /\ ~InHeader /\ ~InHeader'
  BY <1>a DEF Inv, SlaveInv, InHeader
<1>e. /\ ~Early /\ ~Early' /\ state \in {CMD_DMAWR, CMD_DMARD}
      /\ (state = CMD_DMARD => Cnt = dma.n /\ Cnt' = PATTERN_BUF_SIZE)
      /\ (state = CMD_DMAWR => Cnt = 0 /\ Cnt' = 0)
  BY <1>a DEF Inv, SlaveInv, Early, Cnt
<1>1. TypeOK'
  <2>1. /\ dma'.dir \in {"off", "rx", "tx"} /\ dma'.n \in 0 .. PATTERN_BUF_SIZE
        /\ spc' \in {"off", "loop", "clear", "arm", "fill", "put", "empty",
                     "dma", "wait", "undma", "wait_empty", "flush", "free",
                     "rearm", "ready"}
    BY <1>a, Numbers DEF NoDma
  <2>2. dma_req' \in BOOLEAN
    BY <1>a, <1>s, <1>e, WireType, Numbers, MasterStays, WireStays
       DEF Inv, TypeOK, Cells, Plain, NoDma, States, MasterInv, SlaveInv
  <2>3. QED
    BY <1>a, <2>1, <2>2 DEF TypeOK
<1>2. MasterInv'
  BY <1>a, MasterStays DEF Inv, MasterInv
<1>3. SlaveInv'
  BY <1>a DEF Inv, SlaveInv
<1>4. DmaInv'
  <2>1. (dma \in [dir : {"off", "rx", "tx"}, n : 0 .. PATTERN_BUF_SIZE])'
    BY <1>a, Numbers DEF NoDma
  <2>2. /\ (spc \notin {"wait", "undma"} \/ op = CMD_WRITE => dma = NoDma /\ dma_req = FALSE)'
        /\ (spc \in {"wait", "undma"} /\ op = CMD_DMAWR => dma.dir = "rx")'
        /\ (spc \in {"wait", "undma"} /\ op = CMD_DMARD => dma.dir = "tx")'
        /\ (spc = "wait" /\ op # CMD_WRITE /\ recovering = FALSE => dma_req = TRUE)'
    BY <1>a DEF Inv, DmaInv
  <2>3. QED
    BY <2>1, <2>2 DEF DmaInv
<1>5. FlagInv'
  BY <1>a, <1>s, MasterStays DEF Inv, FlagInv
<1>6. RegInv'
  BY <1>a, <1>s, MasterStays DEF Inv, RegInv
<1>7. RoomInv'
  BY <1>a, WireStays DEF Inv, RoomInv
<1>8. IdleInv'
  BY <1>a, <1>s DEF IdleInv
<1>9. HeaderInv'
  BY <1>a, <1>s, MasterStays DEF Inv, HeaderInv
<1>10. DataInv'
  BY <1>a, MasterStays DEF Inv, DataInv
<1>11. WriteInv'
  BY <1>a, <1>e, MasterStays, StoredStays, WireStays DEF Inv, WriteInv
<1>12. ReadInv'
  BY <1>a, <1>s, <1>e, Numbers, MasterStays, StoredStays DEF Inv, ReadInv
<1>13. PassInv'
  BY <1>a DEF Inv, PassInv
<1>14. QED
  BY <1>1, <1>2, <1>3, <1>4, <1>5, <1>6, <1>7, <1>8, <1>9, <1>10, <1>11, <1>12,
     <1>13
     DEF Inv

\* A wait ends.
LEMMA WaitStep ==
    ASSUME TypeOK, Inv, ~crossed, Wait
    PROVE  TypeOK' /\ Inv'
<1>a. /\ spc \in {"wait", "wait_empty"}
      /\ spc' = IF spc = "wait" /\ op # CMD_WRITE THEN "undma" ELSE "flush"
      /\ Waited = 1 \/ (~Serving /\ ~RxAvail /\ ~DmaRequest)
      /\ UNCHANGED <<pc, type, phase, i, stat, out, retry, cmpr, ret, start,
                     state, command, temp_addr, temp_size, count, op,
                     rx_complete, tx_complete, tx_finish, storage, ier,
                     tx_reg0, rx_reg0, rxfifo, txfifo, dma_req, dma,
                     recovering, crossed>>
  BY DEF Wait, master, soft, flags, hard, hist
<1>z. /\ PATTERN_BUF_SIZE \in Nat \ {0} /\ FIFO_SIZE \in Nat \ {0}
      /\ Half \in Nat \ {0} /\ FIFO_SIZE = Half + Half
      /\ FIFO_SIZE <= PATTERN_BUF_SIZE /\ MaxRetry \in Nat
      /\ Base \in Int /\ Cnt \in Int /\ Rest \in Int
      /\ dma.n \in 0 .. PATTERN_BUF_SIZE
  BY Sizes, Counters DEF Inv
<1>s. /\ state \in Data /\ op = state /\ ~InHeader /\ ~InHeader'
  BY <1>a DEF Inv, SlaveInv, InHeader
<1>e. /\ ~Early' /\ (state = CMD_READ => spc = "wait_empty")
      /\ (spc = "wait" => Early)
      /\ (spc = "wait_empty" => ~Early /\ state \in Reading)
      /\ (spc = "wait" /\ state = CMD_WRITE => Base = count)
      /\ (spc = "wait" /\ state = CMD_DMAWR => Base = dma.n)
      /\ (spc = "wait" /\ state = CMD_DMARD => Cnt = dma.n /\ Cnt' = dma.n)
  BY <1>a, <1>s DEF Inv, SlaveInv, Early, Base, Cnt
<1>f. Mid => recovering = FALSE /\ state = Due /\ temp_size = PATTERN_BUF_SIZE
  BY <1>s DEF Inv, RegInv, DataInv
<1>g. Writing => /\ Early /\ spc = "wait" /\ Base >= PATTERN_BUF_SIZE
                 /\ (state = CMD_DMAWR => dma.n = PATTERN_BUF_SIZE)
  <2>1. SUFFICES ASSUME Writing
               PROVE  /\ Early /\ spc = "wait" /\ Base >= PATTERN_BUF_SIZE
                      /\ (state = CMD_DMAWR => dma.n = PATTERN_BUF_SIZE)
    OBVIOUS
  <2>2. Mid /\ state \in {CMD_WRITE, CMD_DMAWR} /\ recovering = FALSE
    BY <1>f, <2>1 DEF Writing, Due
  <2>3. spc = "wait" /\ Early /\ Base + Bytes = i
    BY <1>a, <1>e, <2>1, <2>2 DEF Inv, WriteInv
  <2>4. CASE Waited = 1
    <3>1. rx_complete = 1
      BY <1>s, <2>2, <2>3, <2>4 DEF Waited
    <3>2. QED
      BY <1>e, <1>s, <1>z, <2>2, <2>3, <3>1 DEF Inv, FlagInv
  <2>5. CASE ~Serving /\ ~RxAvail /\ ~DmaRequest
    <3>1. pc = "ready" /\ phase = "read"
      BY <2>1, <2>5 DEF Writing, Mid, Serving
    <3>2. i >= PATTERN_BUF_SIZE /\ out = <<>>
      BY <3>1 DEF Inv, MasterInv
    <3>3. CASE state = CMD_WRITE
      <4>1. rxfifo = <<>>
        BY <2>3, <2>5, <3>3 DEF Inv, RegInv, RxAvail
      <4>2. Bytes = 0
        BY <3>2, <4>1, WireType
      <4>3. QED
        BY <1>e, <1>z, <2>3, <3>2, <3>3, <4>2
    <3>4. CASE state = CMD_DMAWR
      <4>1. dma_req = TRUE /\ dma.dir = "rx"
        BY <1>s, <2>2, <2>3, <3>4 DEF Inv, DmaInv
      <4>2. CASE rxfifo = <<>>
        <5>1. Bytes = 0
          BY <3>2, <4>2, WireType
        <5>2. QED
          BY <1>e, <1>z, <2>3, <3>2, <3>4, <5>1
      <4>3. CASE rxfifo # <<>>
        <5>1. ~(dma.n < PATTERN_BUF_SIZE)
          BY <1>f, <2>2, <2>5, <4>1, <4>3 DEF DmaRequest
        <5>2. QED
          BY <1>e, <1>z, <2>3, <3>4, <5>1
      <4>4. QED
        BY <4>2, <4>3
    <3>5. QED
      BY <2>2, <3>3, <3>4
  <2>6. QED
    BY <1>a, <2>4, <2>5
<1>h. Writing => /\ i >= PATTERN_BUF_SIZE /\ Stored
                 /\ \A j \in 1 .. Bytes : Wire(j).b = 0
  <2>1. SUFFICES ASSUME Writing
               PROVE  i >= PATTERN_BUF_SIZE /\ Stored /\ \A j \in 1 .. Bytes : Wire(j).b = 0
    OBVIOUS
  <2>2. /\ Base + Bytes = i /\ Base >= PATTERN_BUF_SIZE
        /\ \A j \in 1 .. Bytes : For(Base + j - 1, Wire(j))
        /\ \A k \in Storage : k < Base => storage[k].fresh = TRUE
    BY <1>g, <1>s, <2>1 DEF Inv, WriteInv
  <2>3. i >= PATTERN_BUF_SIZE
    BY <1>z, <2>2, WireType
  <2>4. Stored
    BY <1>z, <2>2 DEF Stored, Storage
  <2>5. \A j \in 1 .. Bytes : Wire(j).b = 0
    BY <1>z, <2>2, WireType DEF For
  <2>6. QED
    BY <2>3, <2>4, <2>5
<1>r. Reads => /\ state \in Reading
               /\ spc = "wait" => dma.n = PATTERN_BUF_SIZE
               /\ spc = "wait_empty" => i = PATTERN_BUF_SIZE
  <2>1. SUFFICES ASSUME Reads
               PROVE  /\ state \in Reading
                      /\ spc = "wait" => dma.n = PATTERN_BUF_SIZE
                      /\ spc = "wait_empty" => i = PATTERN_BUF_SIZE
    OBVIOUS
  <2>2. Mid /\ state \in Reading /\ recovering = FALSE
    BY <1>f, <2>1 DEF Reads, Writing, Due
  <2>3. i + Len(txfifo) = Cnt /\ Cnt <= PATTERN_BUF_SIZE /\ i \in Nat
    BY <1>a, <1>s, <2>1 DEF TypeOK, Inv, ReadInv
  <2>4. CASE Waited = 1
    <3>1. CASE spc = "wait"
      <4>1. state = CMD_DMARD /\ tx_complete = 1
        BY <1>e, <1>s, <2>2, <2>4, <3>1 DEF Waited
      <4>2. QED
        BY <1>s, <2>2, <3>1, <4>1 DEF Inv, FlagInv
    <3>2. CASE spc = "wait_empty"
      <4>1. tx_finish = 1
        BY <2>4, <3>2 DEF Waited
      <4>2. txfifo = <<>> /\ Cnt = PATTERN_BUF_SIZE
        BY <2>1, <2>2, <3>2, <4>1 DEF Inv, FlagInv, ReadInv
      <4>3. QED
        BY <1>z, <2>2, <2>3, <3>2, <4>2, WireType
    <3>3. QED
      BY <1>a, <3>1, <3>2
  <2>5. CASE ~Serving
    <3>1. phase = "exit"
      BY <2>1, <2>5 DEF Reads, Mid, Serving, TypeOK, Inv, MasterInv
    <3>2. i >= PATTERN_BUF_SIZE
      BY <3>1 DEF Inv, MasterInv
    <3>3. Cnt = PATTERN_BUF_SIZE /\ i = PATTERN_BUF_SIZE
      BY <1>z, <2>3, <3>2, WireType
    <3>4. spc = "wait" => state = CMD_DMARD
      BY <1>e, <2>2
    <3>5. QED
      BY <1>e, <2>2, <3>3, <3>4
  <2>6. QED
    BY <1>a, <2>2, <2>4, <2>5
<1>1. TypeOK'
  BY <1>a DEF TypeOK
<1>2. MasterInv'
  BY <1>a, MasterStays DEF Inv, MasterInv
<1>3. SlaveInv'
  BY <1>a DEF Inv, SlaveInv
<1>4. DmaInv'
  BY <1>a DEF Inv, DmaInv
<1>5. FlagInv'
  BY <1>a, <1>e, WireStays DEF Inv, FlagInv
<1>6. RegInv'
  BY <1>a, <1>s, <1>e, MasterStays DEF Inv, RegInv
<1>7. RoomInv'
  BY <1>a, WireStays DEF Inv, RoomInv
<1>8. IdleInv'
  BY <1>a, <1>s DEF IdleInv
<1>9. HeaderInv'
  BY <1>a, <1>s, MasterStays DEF Inv, HeaderInv
<1>10. DataInv'
  BY <1>a, MasterStays DEF Inv, DataInv
<1>11. WriteInv'
  <2>1. /\ (Writing /\ Early /\ state # STA_CMD =>
             /\ Base + Bytes = i)'
        /\ (Writing /\ Early /\ state # STA_CMD =>
             /\ \A j \in 1 .. Bytes : For(Base + j - 1, Wire(j)))'
        /\ (Writing /\ Early /\ state # STA_CMD =>
             /\ \A k \in Storage : k < Base => storage[k].fresh = TRUE)'
    BY <1>a, <1>e, MasterStays DEF Inv, WriteInv
  <2>2. (Writing /\ (~Early \/ (state = STA_CMD /\ ~Sends)) =>
          i >= PATTERN_BUF_SIZE /\ Stored)'
    BY <1>a, <1>h, MasterStays, StoredStays
  <2>3. ((Writing /\ ~Early) \/ spc = "free" => \A j \in 1 .. Bytes : Wire(j).b = 0)'
    BY <1>a, <1>h, MasterStays, WireStays
  <2>4. (Writing /\ ~Early /\ state = CMD_WRITE => count >= PATTERN_BUF_SIZE)'
    BY <1>a, <1>e, <1>g, MasterStays
  <2>5. (Writing /\ spc = "undma" => dma.n = PATTERN_BUF_SIZE)'
    BY <1>a, <1>z, <1>s, <1>g, MasterStays DEF Base
  <2>6. QED
    BY <2>1, <2>2, <2>3, <2>4, <2>5 DEF WriteInv
<1>12. ReadInv'
  <2>1. /\ (txfifo # <<>> =>
             /\ state \in Reading)'
        /\ (txfifo # <<>> =>
             /\ spc \in {"fill", "put", "wait", "undma", "empty",
                         "wait_empty", "flush"})'
        /\ (Reads => \A k \in Storage : k < i => cmpr[k].fresh = TRUE)'
        /\ (Reads /\ state = STA_CMD /\ ~Sends => i >= PATTERN_BUF_SIZE)'
        /\ (Reads /\ state \in Data => rxfifo = <<>> /\ out = <<>>)'
        /\ (Reads /\ state \in Data /\ spc \notin {"flush", "free"} =>
             /\ \A j \in 1 .. Len(txfifo) : txfifo[j].fresh = TRUE)'
        /\ (Reads /\ pc = "block" => stat <= Len(txfifo))'
        /\ (Reads /\ state \in Data /\ spc \notin {"flush", "free"} =>
             /\ i + Len(txfifo) = Cnt /\ Cnt <= PATTERN_BUF_SIZE)'
    BY <1>a, <1>e, <1>r, MasterStays DEF Inv, ReadInv
  <2>2. (Reads /\ phase = "read" => Stored)'
    BY <1>a, MasterStays, StoredStays DEF Inv, ReadInv
  <2>3. (Reads /\ InHeader => Bytes = Rest /\ i = 0)'
    BY <1>a, <1>s, MasterStays DEF Inv, ReadInv
  <2>4. (Reads /\ state \in Data /\ spc \notin {"flush", "free"} =>
         /\ spc \in {"undma", "empty", "wait_empty"} => Cnt = PATTERN_BUF_SIZE)'
    <3>1. SUFFICES ASSUME Reads, spc' = "undma" PROVE Cnt' = PATTERN_BUF_SIZE
      BY <1>a, <1>e, MasterStays
    <3>2. spc = "wait" /\ state = CMD_DMARD /\ dma.n = PATTERN_BUF_SIZE
      BY <1>a, <1>e, <1>r, <3>1
    <3>3. QED
      BY <1>e, <3>2
  <2>5. (Reads /\ spc \in {"flush", "free"} => i = PATTERN_BUF_SIZE)'
    <3>1. SUFFICES ASSUME Reads, spc' = "flush" PROVE i = PATTERN_BUF_SIZE
      BY <1>a, MasterStays
    <3>2. spc = "wait_empty"
      BY <1>a, <1>r, <1>s, <3>1
    <3>3. QED
      BY <1>r, <3>1, <3>2
  <2>6. QED
    BY <2>1, <2>2, <2>3, <2>4, <2>5 DEF ReadInv
<1>13. PassInv'
  BY <1>a DEF Inv, PassInv
<1>14. QED
  BY <1>1, <1>2, <1>3, <1>4, <1>5, <1>6, <1>7, <1>8, <1>9, <1>10, <1>11, <1>12,
     <1>13
     DEF Inv

\* What is left in the FIFOs is cleared.
LEMMA FlushStep ==
    ASSUME TypeOK, Inv, ~crossed, Flush
    PROVE  TypeOK' /\ Inv'
<1>a. /\ spc = "flush" /\ spc' = "free" /\ rxfifo' = <<>>
      /\ txfifo' = IF op \in Reading THEN <<>> ELSE txfifo
      /\ UNCHANGED <<pc, type, phase, i, stat, out, retry, cmpr, ret, start,
                     state, command, temp_addr, temp_size, count, op,
                     rx_complete, tx_complete, tx_finish, storage, ier,
                     tx_reg0, rx_reg0, dma_req, dma, recovering, crossed>>
  BY DEF Flush, master, soft, flags, hist
<1>t. /\ Len(rxfifo) \in Nat /\ Len(out) \in Nat /\ Len(txfifo) \in Nat
      /\ Bytes \in Nat /\ Bytes = Len(rxfifo) + Len(out)
      /\ rxfifo = <<>> <=> Len(rxfifo) = 0
      /\ out = <<>> <=> Len(out) = 0
      /\ txfifo = <<>> <=> Len(txfifo) = 0
      /\ \A j \in 1 .. Len(rxfifo) : Wire(j) = rxfifo[j]
      /\ \A j \in 1 .. Bytes : Wire(j) \in Cells
  BY WireType
<1>z. /\ PATTERN_BUF_SIZE \in Nat \ {0} /\ FIFO_SIZE \in Nat \ {0}
      /\ Half \in Nat \ {0} /\ FIFO_SIZE = Half + Half
      /\ FIFO_SIZE <= PATTERN_BUF_SIZE /\ MaxRetry \in Nat
      /\ Base \in Int /\ Cnt \in Int /\ Rest \in Int
      /\ dma.n \in 0 .. PATTERN_BUF_SIZE
  BY Sizes, Counters DEF Inv
<1>m. /\ Sends' <=> Sends
      /\ SendsExit' <=> SendsExit
      /\ Mid' <=> Mid
      /\ Writing' <=> Writing
      /\ Reads' <=> Reads
      /\ Serving' <=> Serving
      /\ Due' = Due /\ Command' = Command
  BY <1>a, MasterStays
<1>q. Stored' <=> Stored
  BY <1>a DEF Stored
<1>w. /\ rxfifo' \in Seq(Cells) /\ Len(rxfifo') = 0
      /\ Bytes' = Len(out) /\ \A j \in 1 .. Len(out) : Wire(j)' = Wire(j + Len(rxfifo))
  BY <1>a, WireClears
<1>s. /\ state \in Data /\ op = state /\ ~InHeader /\ ~InHeader'
  BY <1>a DEF Inv, SlaveInv, InHeader
<1>e. /\ ~Early /\ ~Early' /\ (out = <<>> \/ Writing)
  BY <1>a, <1>s DEF Early, Inv, MasterInv, ReadInv, Reads, Writing, Mid
<1>f. \A j \in 1 .. Bytes' : Wire(j)'.b = 0
  <2>1. CASE out = <<>>
    BY <1>t, <1>w, <2>1
  <2>2. CASE Writing
    <3>1. \A j \in 1 .. Bytes : Wire(j).b = 0
      BY <1>e, <2>2 DEF Inv, WriteInv
    <3>2. QED
      BY <1>t, <1>w, <3>1
  <2>3. QED
    BY <1>e, <2>1, <2>2
<1>1. TypeOK'
  BY <1>w, <1>a DEF TypeOK
<1>2. MasterInv'
  BY <1>a, <1>m DEF Inv, MasterInv
<1>3. SlaveInv'
  BY <1>a DEF Inv, SlaveInv
<1>4. DmaInv'
  BY <1>a DEF Inv, DmaInv
<1>5. FlagInv'
  BY <1>a, <1>t, <1>z, <1>w DEF TypeOK, Inv, FlagInv
<1>6. RegInv'
  BY <1>a, <1>m, <1>s DEF Inv, RegInv
<1>7. RoomInv'
  BY <1>a, <1>t, <1>z, <1>w DEF TypeOK, Inv, RoomInv
<1>8. IdleInv'
  BY <1>a, <1>s DEF IdleInv
<1>9. HeaderInv'
  BY <1>m, <1>s DEF Inv, HeaderInv
<1>10. DataInv'
  BY <1>a, <1>m DEF Inv, DataInv
<1>11. WriteInv'
  BY <1>a, <1>m, <1>q, <1>e, <1>f DEF Inv, WriteInv
<1>12. ReadInv'
  BY <1>a, <1>z, <1>m, <1>q, <1>s DEF Inv, ReadInv, MasterInv
<1>13. PassInv'
  BY <1>a DEF Inv, PassInv
<1>14. QED
  BY <1>1, <1>2, <1>3, <1>4, <1>5, <1>6, <1>7, <1>8, <1>9, <1>10, <1>11, <1>12,
     <1>13
     DEF Inv

\* A command ends.
LEMMA FreeStep ==
    ASSUME TypeOK, Inv, ~crossed, Free
    PROVE  TypeOK' /\ Inv'
<1>a. /\ spc = "free" /\ state' = STA_CMD /\ spc' = IF op = CMD_WRITE THEN "ready" ELSE "rearm"
      /\ UNCHANGED <<pc, type, phase, i, stat, out, retry, cmpr, ret, start,
                     command, temp_addr, temp_size, count, op, rx_complete,
                     tx_complete, tx_finish, storage, ier, tx_reg0, rx_reg0,
                     rxfifo, txfifo, dma_req, dma, recovering, crossed>>
  BY DEF Free, master, flags, hard, hist
<1>z. /\ PATTERN_BUF_SIZE \in Nat \ {0} /\ FIFO_SIZE \in Nat \ {0}
      /\ Half \in Nat \ {0} /\ FIFO_SIZE = Half + Half
      /\ FIFO_SIZE <= PATTERN_BUF_SIZE /\ MaxRetry \in Nat
      /\ Base \in Int /\ Cnt \in Int /\ Rest \in Int
      /\ dma.n \in 0 .. PATTERN_BUF_SIZE
  BY Sizes, Counters DEF Inv
<1>m. /\ Sends' <=> Sends
      /\ SendsExit' <=> SendsExit
      /\ Mid' <=> Mid
      /\ Writing' <=> Writing
      /\ Reads' <=> Reads
      /\ Serving' <=> Serving
      /\ Due' = Due /\ Command' = Command
  BY <1>a, MasterStays
<1>q. Stored' <=> Stored
  BY <1>a DEF Stored
<1>s. /\ state \in Data /\ op = state /\ ~InHeader /\ ~InHeader' /\ ~Early
      /\ Early'
  BY <1>a DEF Inv, SlaveInv, InHeader, Early
<1>e. /\ ~Sends /\ ~SendsExit
      /\ (Writing => i >= PATTERN_BUF_SIZE /\ Stored)
      /\ (Reads => i = PATTERN_BUF_SIZE)
      /\ \A j \in 1 .. Bytes : Wire(j).b = 0
  <2>1. /\ (Writing => i >= PATTERN_BUF_SIZE /\ Stored)
        /\ (Reads => i = PATTERN_BUF_SIZE)
        /\ \A j \in 1 .. Bytes : Wire(j).b = 0
    BY <1>a, <1>s DEF Inv, WriteInv, ReadInv
  <2>2. Mid => i # 0
    BY <1>z, <2>1 DEF Writing, Reads
  <2>3. ~Sends
    BY <2>2 DEF Sends, Mid
  <2>4. ~SendsExit
    BY <1>s DEF Inv, HeaderInv
  <2>5. QED
    BY <2>1, <2>3, <2>4
<1>1. TypeOK'
  BY <1>a DEF TypeOK
<1>2. MasterInv'
  BY <1>a, <1>m DEF Inv, MasterInv
<1>3. SlaveInv'
  BY <1>a DEF Inv, SlaveInv
<1>4. DmaInv'
  BY <1>a DEF Inv, DmaInv
<1>5. FlagInv'
  BY <1>a DEF Inv, FlagInv
<1>6. RegInv'
  BY <1>a, <1>m, <1>s, <1>e DEF Inv, RegInv
<1>7. RoomInv'
  BY <1>a, WireStays DEF Inv, RoomInv
<1>8. IdleInv'
  BY <1>a, <1>m, <1>e, WireStays DEF IdleInv
<1>9. HeaderInv'
  BY <1>a, <1>s DEF HeaderInv
<1>10. DataInv'
  BY <1>a DEF Inv, DataInv
<1>11. WriteInv'
  BY <1>a, <1>m, <1>q, <1>s DEF Inv, WriteInv
<1>12. ReadInv'
  BY <1>a, <1>z, <1>m, <1>q, <1>s DEF Inv, ReadInv
<1>13. PassInv'
  BY <1>a DEF Inv, PassInv
<1>14. QED
  BY <1>1, <1>2, <1>3, <1>4, <1>5, <1>6, <1>7, <1>8, <1>9, <1>10, <1>11, <1>12,
     <1>13
     DEF Inv

\* The handler listens again.
LEMMA RearmType ==
    ASSUME TypeOK, Inv, ~crossed, Rearm
    PROVE  TypeOK'
<1>a. /\ spc = "rearm" /\ spc' = "ready" /\ ier' = ier \cup {"RXAVAIL"}
      /\ UNCHANGED <<pc, type, phase, i, stat, out, retry, cmpr, ret, start,
                     state, command, temp_addr, temp_size, count, op,
                     rx_complete, tx_complete, tx_finish, storage, tx_reg0,
                     rx_reg0, rxfifo, txfifo, dma_req, dma, recovering>>
  BY DEF Rearm, master, soft, flags
<1>1. ier' \subseteq {"RX_REG0", "RXAVAIL", "TXFIFO_EMPTY"}
  BY <1>a DEF TypeOK
<1>2. spc' \in {"off", "loop", "clear", "arm", "fill", "put", "empty",
                "dma", "wait", "undma", "wait_empty", "flush", "free",
                "rearm", "ready"}
  BY <1>a
<1>3. crossed' \in BOOLEAN
  BY Zenon DEF TypeOK, Rearm
<1>4. QED
  BY <1>a, <1>1, <1>2, <1>3 DEF TypeOK

LEMMA RearmStep ==
    ASSUME TypeOK, Inv, ~crossed, Rearm, ~crossed'
    PROVE  Inv'
<1>a. /\ spc = "rearm" /\ spc' = "ready" /\ ier' = ier \cup {"RXAVAIL"}
      /\ UNCHANGED <<pc, type, phase, i, stat, out, retry, cmpr, ret, start,
                     state, command, temp_addr, temp_size, count, op,
                     rx_complete, tx_complete, tx_finish, storage, tx_reg0,
                     rx_reg0, rxfifo, txfifo, dma_req, dma, recovering>>
  BY DEF Rearm, master, soft, flags
<1>x. state = STA_CMD
  BY <1>a DEF Rearm, master, soft, flags
<1>1. MasterInv'
  BY <1>a, MasterStays DEF Inv, MasterInv
<1>2. SlaveInv'
  BY <1>a, MasterStays DEF Inv, SlaveInv
<1>3. DmaInv'
  BY <1>a DEF Inv, DmaInv
<1>4. FlagInv'
  BY <1>a DEF Inv, FlagInv
<1>5. RegInv'
  BY <1>a, <1>x, MasterStays DEF Inv, RegInv
<1>6. RoomInv'
  BY <1>a, MasterStays, WireStays DEF Inv, RoomInv
<1>7. IdleInv'
  BY <1>a, MasterStays, WireStays DEF Inv, IdleInv
<1>8. HeaderInv'
  BY <1>a, <1>x DEF HeaderInv, InHeader
<1>9. DataInv'
  BY <1>a, MasterStays DEF Inv, DataInv
<1>10. WriteInv'
  BY <1>a, <1>x, MasterStays, StoredStays DEF Inv, WriteInv, Early
<1>11. ReadInv'
  BY <1>a, <1>x, MasterStays, StoredStays DEF Inv, ReadInv, InHeader
<1>12. PassInv'
  BY <1>a DEF Inv, PassInv
<1>13. QED
  BY <1>1, <1>2, <1>3, <1>4, <1>5, <1>6, <1>7, <1>8, <1>9, <1>10, <1>11, <1>12
     DEF Inv

\* The slave is ready.
LEMMA ReadyType ==
    ASSUME TypeOK, Inv, ~crossed, Ready
    PROVE  TypeOK'
<1>a. /\ spc = "ready" /\ spc' = "loop"
      /\ tx_reg0' = "READY" /\ op' = 0 /\ recovering' = FALSE
      /\ UNCHANGED <<pc, type, phase, i, stat, out, retry, cmpr, ret, start,
                     state, command, temp_addr, temp_size, count, rx_complete,
                     tx_complete, tx_finish, storage, ier, rx_reg0, rxfifo,
                     txfifo, dma_req, dma>>
  BY Sizes DEF TypeOK, Ready, master, flags
<1>1. tx_reg0' \in {"BUSY", "READY", "RESET_EN"}
  BY <1>a
<1>2. spc' \in {"off", "loop", "clear", "arm", "fill", "put", "empty",
                "dma", "wait", "undma", "wait_empty", "flush", "free",
                "rearm", "ready"}
  BY <1>a
<1>3. op' \in Data \cup {0}
  BY <1>a
<1>4. recovering' \in BOOLEAN
  BY <1>a, WireType, Numbers
     DEF Inv, TypeOK, Cells, Plain, NoDma, States, MasterInv, SlaveInv
<1>5. crossed' \in BOOLEAN
  BY Zenon DEF TypeOK, Ready
<1>6. QED
  BY <1>a, <1>1, <1>2, <1>3, <1>4, <1>5 DEF TypeOK

LEMMA ReadyStep ==
    ASSUME TypeOK, Inv, ~crossed, Ready, ~crossed'
    PROVE  Inv'
<1>a. /\ spc = "ready" /\ spc' = "loop"
      /\ tx_reg0' = "READY" /\ op' = 0 /\ recovering' = FALSE
      /\ UNCHANGED <<pc, type, phase, i, stat, out, retry, cmpr, ret, start,
                     state, command, temp_addr, temp_size, count, rx_complete,
                     tx_complete, tx_finish, storage, ier, rx_reg0, rxfifo,
                     txfifo, dma_req, dma>>
  BY Sizes DEF TypeOK, Ready, master, flags
<1>x. state = STA_CMD
  BY <1>a DEF Ready, master, flags
<1>1. MasterInv'
  BY <1>a, MasterStays DEF Inv, MasterInv
<1>2. SlaveInv'
  BY <1>a, MasterStays DEF Inv, SlaveInv
<1>3. DmaInv'
  BY <1>a DEF Inv, DmaInv
<1>4. FlagInv'
  BY <1>a DEF Inv, FlagInv
<1>5. RegInv'
  BY <1>a, <1>x, MasterStays DEF Inv, RegInv
<1>6. RoomInv'
  BY <1>a, MasterStays, WireStays DEF Inv, RoomInv
<1>7. IdleInv'
  BY <1>a, MasterStays, WireStays DEF Inv, IdleInv
<1>8. HeaderInv'
  BY <1>a, <1>x DEF HeaderInv, InHeader
<1>9. DataInv'
  BY <1>a, MasterStays DEF Inv, DataInv
<1>10. WriteInv'
  BY <1>a, <1>x, MasterStays, StoredStays DEF Inv, WriteInv, Early
<1>11. ReadInv'
  BY <1>a, <1>x, MasterStays, StoredStays DEF Inv, ReadInv, InHeader
<1>12. PassInv'
  BY <1>a DEF Inv, PassInv
<1>13. QED
  BY <1>1, <1>2, <1>3, <1>4, <1>5, <1>6, <1>7, <1>8, <1>9, <1>10, <1>11, <1>12
     DEF Inv

\* A byte that is no command is ignored.
LEMMA RxJunkStep ==
    ASSUME TypeOK, Inv, ~crossed, RxHeader, state = STA_CMD, Head(rxfifo).b = 0
    PROVE  TypeOK' /\ Inv'
<1>a. /\ rxfifo # <<>> /\ rxfifo' = Tail(rxfifo)
      /\ spc # "off" /\ "RXAVAIL" \in ier
      /\ state = STA_CMD /\ Head(rxfifo).b = 0 /\ command' = 0
      /\ UNCHANGED <<pc, type, phase, i, stat, out, retry, cmpr, ret, spc,
                     start, state, temp_addr, temp_size, count, op,
                     rx_complete, tx_complete, tx_finish, storage, ier,
                     tx_reg0, rx_reg0, txfifo, dma_req, dma, recovering,
                     crossed>>
  BY RxFacts
<1>t. /\ Len(rxfifo) \in Nat /\ Len(out) \in Nat /\ Len(txfifo) \in Nat
      /\ Bytes \in Nat /\ Bytes = Len(rxfifo) + Len(out)
      /\ rxfifo = <<>> <=> Len(rxfifo) = 0
      /\ out = <<>> <=> Len(out) = 0
      /\ txfifo = <<>> <=> Len(txfifo) = 0
      /\ \A j \in 1 .. Len(rxfifo) : Wire(j) = rxfifo[j]
      /\ \A j \in 1 .. Bytes : Wire(j) \in Cells
  BY WireType
<1>z. /\ PATTERN_BUF_SIZE \in Nat \ {0} /\ FIFO_SIZE \in Nat \ {0}
      /\ Half \in Nat \ {0} /\ FIFO_SIZE = Half + Half
      /\ FIFO_SIZE <= PATTERN_BUF_SIZE /\ MaxRetry \in Nat
      /\ Base \in Int /\ Cnt \in Int /\ Rest \in Int
      /\ dma.n \in 0 .. PATTERN_BUF_SIZE
  BY Sizes, Counters DEF Inv
<1>w. /\ rxfifo' \in Seq(Cells) /\ Len(rxfifo') = Len(rxfifo) - 1
      /\ Head(rxfifo) = Wire(1) /\ Len(rxfifo) >= 1 /\ Bytes' = Bytes - 1
      /\ \A j \in 1 .. Bytes - 1 : Wire(j)' = Wire(j + 1)
  BY <1>a, WireTakesOne
<1>k. /\ spc # "off" /\ spc \in {"loop", "rearm", "ready"} /\ Early
      /\ Early' /\ ~InHeader /\ ~InHeader'
      /\ txfifo = <<>> /\ txfifo' = <<>>
  BY <1>a DEF Inv, SlaveInv, ReadInv, Early, InHeader
<1>e. Sends => Bytes' >= 5 /\ Len(out) \in 1 .. 5
  <2>1. SUFFICES ASSUME Sends PROVE Bytes' >= 5 /\ Len(out) \in 1 .. 5
    OBVIOUS
  <2>2. /\ Len(out) \in 1 .. 5 /\ Bytes >= 5
        /\ \A j \in 1 .. Bytes : j + 4 = Bytes => Wire(j).b = Command
    BY <1>a, <2>1 DEF Inv, IdleInv
  <2>3. Wire(1).b = 0 /\ Command # 0
    BY <1>a, <1>w, HeaderIs
  <2>4. Bytes # 5
    BY <1>t, <2>2, <2>3
  <2>5. QED
    BY <1>t, <1>w, <2>2, <2>4
<1>1. TypeOK'
  BY <1>a, <1>w DEF TypeOK
<1>2. MasterInv'
  BY <1>a, MasterStays DEF Inv, MasterInv
<1>3. SlaveInv'
  BY <1>a DEF Inv, SlaveInv
<1>4. DmaInv'
  BY <1>a DEF Inv, DmaInv
<1>5. FlagInv'
  BY <1>a DEF Inv, FlagInv
<1>6. RegInv'
  BY <1>a, MasterStays DEF Inv, RegInv
<1>7. RoomInv'
  BY <1>a, <1>t, <1>z, <1>w DEF TypeOK, Inv, RoomInv
<1>8. IdleInv'
  <2>1. (state = STA_CMD /\ Sends =>
          /\ Len(out) \in 1 .. 5 /\ Bytes >= 5)'
    BY <1>a, <1>e, MasterStays
  <2>2. (state = STA_CMD /\ Sends =>
          /\ \A j \in 1 .. Bytes :
               /\ j + 4 < Bytes => Wire(j).b = 0
               /\ j + 4 = Bytes => Wire(j).b = Command
               /\ j + 4 > Bytes => HByte(Bytes + 1 - j, Wire(j).b))'
    <3>1. SUFFICES ASSUME state = STA_CMD, Sends, NEW j \in 1 .. Bytes'
                   PROVE  /\ j + 4 < Bytes' => Wire(j)'.b = 0
                          /\ j + 4 = Bytes' => Wire(j)'.b = Command
                          /\ j + 4 > Bytes' => HByte(Bytes' + 1 - j, Wire(j)'.b)
      BY <1>a, MasterStays DEF HByte
    <3>2. PICK h \in 1 .. Bytes : h = j + 1
      BY <1>t, <1>w, <3>1
    <3>3. /\ h + 4 < Bytes => Wire(h).b = 0
          /\ h + 4 = Bytes => Wire(h).b = Command
          /\ h + 4 > Bytes => HByte(Bytes + 1 - h, Wire(h).b)
      BY <3>1 DEF Inv, IdleInv
    <3>4. /\ Wire(j)' = Wire(h) /\ Bytes' = Bytes - 1 /\ j \in Nat
          /\ h \in Nat /\ Bytes \in Nat
      BY <1>t, <1>w, <3>1, <3>2
    <3>5. /\ (j + 4 < Bytes' <=> h + 4 < Bytes) /\ (j + 4 = Bytes' <=> h + 4 = Bytes)
          /\ (j + 4 > Bytes' <=> h + 4 > Bytes) /\ Bytes' + 1 - j = Bytes + 1 - h
      BY <3>2, <3>4
    <3>6. QED
      BY <3>3, <3>4, <3>5
  <2>3. (state = STA_CMD /\ ~Sends =>
          \A j \in 1 .. Bytes :
            \/ Wire(j).b = 0
            \/ j = Bytes /\ Wire(j).b = CMD_EXIT /\ (Mid => SendsExit))'
    BY <1>a, <1>t, <1>w, MasterStays DEF Inv, IdleInv
  <2>4. QED
    BY <2>1, <2>2, <2>3 DEF IdleInv
<1>9. HeaderInv'
  BY <1>a, <1>k, MasterStays, SlaveStays DEF Inv, HeaderInv
<1>10. DataInv'
  BY <1>a DEF Inv, DataInv
<1>11. WriteInv'
  BY <1>a, <1>t, <1>w, MasterStays, SlaveStays, StoredStays DEF Inv, WriteInv
<1>12. ReadInv'
  BY <1>a, <1>k, MasterStays, StoredStays DEF Inv, ReadInv
<1>13. PassInv'
  BY <1>a DEF Inv, PassInv
<1>14. QED
  BY <1>1, <1>2, <1>3, <1>4, <1>5, <1>6, <1>7, <1>8, <1>9, <1>10, <1>11, <1>12,
     <1>13
     DEF Inv

\* The exit command.
LEMMA RxExitStep ==
    ASSUME TypeOK, Inv, ~crossed, RxHeader, state = STA_CMD,
           Head(rxfifo).b = CMD_EXIT
    PROVE  TypeOK' /\ Inv'
<1>a. /\ rxfifo # <<>> /\ rxfifo' = Tail(rxfifo)
      /\ spc # "off" /\ "RXAVAIL" \in ier
      /\ state = STA_CMD /\ Head(rxfifo).b = CMD_EXIT /\ command' = CMD_EXIT
      /\ start' = 0
      /\ UNCHANGED <<pc, type, phase, i, stat, out, retry, cmpr, ret, spc,
                     state, temp_addr, temp_size, count, op, rx_complete,
                     tx_complete, tx_finish, storage, ier, tx_reg0, rx_reg0,
                     txfifo, dma_req, dma, recovering, crossed>>
  BY RxFacts
<1>t. /\ Len(rxfifo) \in Nat /\ Len(out) \in Nat /\ Len(txfifo) \in Nat
      /\ Bytes \in Nat /\ Bytes = Len(rxfifo) + Len(out)
      /\ rxfifo = <<>> <=> Len(rxfifo) = 0
      /\ out = <<>> <=> Len(out) = 0
      /\ txfifo = <<>> <=> Len(txfifo) = 0
      /\ \A j \in 1 .. Len(rxfifo) : Wire(j) = rxfifo[j]
      /\ \A j \in 1 .. Bytes : Wire(j) \in Cells
  BY WireType
<1>z. /\ PATTERN_BUF_SIZE \in Nat \ {0} /\ FIFO_SIZE \in Nat \ {0}
      /\ Half \in Nat \ {0} /\ FIFO_SIZE = Half + Half
      /\ FIFO_SIZE <= PATTERN_BUF_SIZE /\ MaxRetry \in Nat
      /\ Base \in Int /\ Cnt \in Int /\ Rest \in Int
      /\ dma.n \in 0 .. PATTERN_BUF_SIZE
  BY Sizes, Counters DEF Inv
<1>w. /\ rxfifo' \in Seq(Cells) /\ Len(rxfifo') = Len(rxfifo) - 1
      /\ Head(rxfifo) = Wire(1) /\ Len(rxfifo) >= 1 /\ Bytes' = Bytes - 1
      /\ \A j \in 1 .. Bytes - 1 : Wire(j)' = Wire(j + 1)
  BY <1>a, WireTakesOne
<1>k. /\ spc # "off" /\ spc \in {"loop", "rearm", "ready"} /\ Early
      /\ Early' /\ ~InHeader /\ ~InHeader'
      /\ txfifo = <<>> /\ txfifo' = <<>>
  BY <1>a DEF Inv, SlaveInv, ReadInv, Early, InHeader
<1>e. /\ ~Sends /\ (Mid => SendsExit) /\ Bytes = 1 /\ Bytes' = 0
      /\ rxfifo' = <<>> /\ out = <<>>
  <2>1. Wire(1).b = CMD_EXIT /\ 1 \in 1 .. Bytes
    BY <1>a, <1>t, <1>w
  <2>2. ~Sends
    <3>1. ASSUME Sends PROVE FALSE
      <4>1. Bytes >= 5 /\ (1 + 4 < Bytes => Wire(1).b = 0) /\ (1 + 4 = Bytes => Wire(1).b = Command)
        BY <1>a, <2>1, <3>1 DEF Inv, IdleInv
      <4>2. QED
        BY <1>t, <2>1, <4>1, HeaderIs
    <3>2. QED
      BY <3>1
  <2>3. 1 = Bytes /\ (Mid => SendsExit)
    BY <1>a, <2>1, <2>2 DEF Inv, IdleInv
  <2>4. Len(rxfifo) = 1 /\ Len(out) = 0 /\ Len(rxfifo') = 0
    BY <1>t, <1>w, <2>3
  <2>5. rxfifo' = <<>>
    BY <1>w, <2>4, EmptyIs
  <2>6. QED
    BY <1>t, <1>w, <2>2, <2>3, <2>4, <2>5
<1>1. TypeOK'
  BY <1>a, <1>k, <1>e DEF TypeOK
<1>2. MasterInv'
  BY <1>a, MasterStays DEF Inv, MasterInv
<1>3. SlaveInv'
  BY <1>a, <1>e, MasterStays DEF Inv, SlaveInv
<1>4. DmaInv'
  BY <1>a DEF Inv, DmaInv
<1>5. FlagInv'
  BY <1>a DEF Inv, FlagInv
<1>6. RegInv'
  BY <1>a, MasterStays DEF Inv, RegInv
<1>7. RoomInv'
  BY <1>a, <1>t, <1>z, <1>w, <1>e DEF TypeOK, RoomInv
<1>8. IdleInv'
  BY <1>a, <1>e, MasterStays DEF Inv, IdleInv
<1>9. HeaderInv'
  BY <1>a, <1>k, MasterStays, SlaveStays DEF Inv, HeaderInv
<1>10. DataInv'
  BY <1>a DEF Inv, DataInv
<1>11. WriteInv'
  BY <1>a, <1>t, MasterStays, SlaveStays, StoredStays DEF Inv, WriteInv
<1>12. ReadInv'
  BY <1>a, <1>k, MasterStays, StoredStays DEF Inv, ReadInv
<1>13. PassInv'
  BY <1>a DEF Inv, PassInv
<1>14. QED
  BY <1>1, <1>2, <1>3, <1>4, <1>5, <1>6, <1>7, <1>8, <1>9, <1>10, <1>11, <1>12,
     <1>13
     DEF Inv

\* The first byte of a header.
LEMMA RxCommandStep ==
    ASSUME TypeOK, Inv, ~crossed, RxHeader, state = STA_CMD,
           Head(rxfifo).b \in Data
    PROVE  TypeOK' /\ Inv'
<1>a. /\ rxfifo # <<>> /\ rxfifo' = Tail(rxfifo)
      /\ spc # "off" /\ "RXAVAIL" \in ier
      /\ state = STA_CMD /\ state' = STA_GET_ADDR_HI
      /\ command' = Head(rxfifo).b /\ command' \in Data /\ tx_reg0' = "BUSY"
      /\ UNCHANGED <<pc, type, phase, i, stat, out, retry, cmpr, ret, spc,
                     start, temp_addr, temp_size, count, op, rx_complete,
                     tx_complete, tx_finish, storage, ier, rx_reg0, txfifo,
                     dma_req, dma, recovering, crossed>>
  BY RxFacts
<1>z. /\ PATTERN_BUF_SIZE \in Nat \ {0} /\ FIFO_SIZE \in Nat \ {0}
      /\ Half \in Nat \ {0} /\ FIFO_SIZE = Half + Half
      /\ FIFO_SIZE <= PATTERN_BUF_SIZE /\ MaxRetry \in Nat
      /\ Base \in Int /\ Cnt \in Int /\ Rest \in Int
      /\ dma.n \in 0 .. PATTERN_BUF_SIZE
  BY Sizes, Counters DEF Inv
<1>k. /\ spc # "off" /\ spc \in {"loop", "rearm", "ready"} /\ Early
      /\ Early' /\ ~InHeader /\ InHeader'
      /\ txfifo = <<>> /\ txfifo' = <<>> /\ Rest' = 4 /\ Base' = 0 - 4
      /\ Cnt' = 0
  BY <1>a DEF Inv, SlaveInv, ReadInv, Early, InHeader, Rest, Base, Cnt
<1>e. /\ Sends /\ Serving /\ Mid /\ i = 0 /\ ~SendsExit /\ Bytes = 5
      /\ Bytes' = 4 /\ command' = Command
      /\ Len(out) < 5 /\ \A j \in 1 .. 4 : HByte(5 - j, Wire(j)'.b)
  <2>1. Wire(1).b \in Data /\ 1 \in 1 .. Bytes
    BY <1>a, WireType, WireTakesOne
  <2>2. Sends
    <3>1. ASSUME ~Sends PROVE FALSE
      <4>1. Wire(1).b = 0 \/ Wire(1).b = CMD_EXIT
        BY <1>a, <2>1, <3>1 DEF Inv, IdleInv
      <4>2. QED
        BY <2>1, <4>1
    <3>2. QED
      BY <3>1
  <2>3. /\ Bytes >= 5 /\ (1 + 4 < Bytes => Wire(1).b = 0)
        /\ (1 + 4 = Bytes => Wire(1).b = Command)
        /\ \A j \in 1 .. Bytes : j + 4 > Bytes => HByte(Bytes + 1 - j, Wire(j).b)
    BY <1>a, <2>1, <2>2 DEF Inv, IdleInv
  <2>4. Bytes = 5 /\ Wire(1).b = Command
    BY <2>1, <2>3, WireType
  <2>5. Bytes' = 4 /\ Len(out) < 5
    BY <1>a, <2>4, WireType, WireTakesOne
  <2>6. \A j \in 1 .. 4 : HByte(5 - j, Wire(j)'.b)
    <3>1. SUFFICES ASSUME NEW j \in 1 .. 4 PROVE HByte(5 - j, Wire(j)'.b)
      OBVIOUS
    <3>2. PICK h \in 1 .. 5 : h = j + 1
      OBVIOUS
    <3>3. HByte(6 - h, Wire(h).b)
      BY <2>3, <2>4, <3>2
    <3>4. Wire(j)' = Wire(h) /\ 6 - h = 5 - j
      BY <1>a, <2>4, <3>2, WireTakesOne
    <3>5. QED
      BY <3>3, <3>4
  <2>7. Serving /\ Mid /\ i = 0 /\ ~SendsExit
    BY <2>2 DEF Sends, Serving, Mid, SendsExit
  <2>8. command' = Command
    BY <1>a, <2>4, WireTakesOne
  <2>9. QED
    BY <2>2, <2>4, <2>5, <2>6, <2>7, <2>8
<1>1. TypeOK'
  BY <1>a, WireTakesOne DEF TypeOK
<1>2. MasterInv'
  BY <1>a, MasterStays DEF Inv, MasterInv
<1>3. SlaveInv'
  BY <1>a DEF Inv, SlaveInv
<1>4. DmaInv'
  BY <1>a DEF Inv, DmaInv
<1>5. FlagInv'
  BY <1>a DEF Inv, FlagInv
<1>6. RegInv'
  BY <1>a, <1>e, MasterStays DEF Inv, RegInv
<1>7. RoomInv'
  BY <1>a, <1>z, <1>e DEF TypeOK, Inv, RoomInv, Rest
<1>8. IdleInv'
  BY <1>a DEF Inv, IdleInv, HByte
<1>9. HeaderInv'
  BY <1>a, <1>e, <1>k, MasterStays DEF Inv, HeaderInv
<1>10. DataInv'
  BY <1>a DEF Inv, DataInv
<1>11. WriteInv'
  BY <1>a, <1>k, <1>e, <1>z, MasterStays DEF For, Inv, WriteInv
<1>12. ReadInv'
  BY <1>a, <1>k, <1>e, MasterStays, StoredStays DEF Inv, ReadInv
<1>13. PassInv'
  BY <1>a DEF Inv, PassInv
<1>14. QED
  BY <1>1, <1>2, <1>3, <1>4, <1>5, <1>6, <1>7, <1>8, <1>9, <1>10, <1>11, <1>12,
     <1>13
     DEF Inv

\* A byte inside a header.
LEMMA RxMiddleStep ==
    ASSUME TypeOK, Inv, ~crossed, RxHeader,
           state \in STA_GET_ADDR_HI .. STA_GET_SIZE_HI
    PROVE  TypeOK' /\ Inv'
<1>a. /\ rxfifo # <<>> /\ rxfifo' = Tail(rxfifo)
      /\ spc # "off" /\ "RXAVAIL" \in ier
      /\ state \in 16 .. 18 /\ state' = state + 1
      /\ temp_addr' = IF state = 16 THEN 256 * Head(rxfifo).b ELSE IF state = 17 THEN temp_addr + Head(rxfifo).b ELSE temp_addr
      /\ temp_size' = IF state = 18 THEN 256 * Head(rxfifo).b ELSE temp_size
      /\ UNCHANGED <<pc, type, phase, i, stat, out, retry, cmpr, ret, spc,
                     start, command, count, op, rx_complete, tx_complete,
                     tx_finish, storage, ier, tx_reg0, rx_reg0, txfifo,
                     dma_req, dma, recovering, crossed>>
  BY RxFacts
<1>t. /\ Len(rxfifo) \in Nat /\ Len(out) \in Nat /\ Len(txfifo) \in Nat
      /\ Bytes \in Nat /\ Bytes = Len(rxfifo) + Len(out)
      /\ rxfifo = <<>> <=> Len(rxfifo) = 0
      /\ out = <<>> <=> Len(out) = 0
      /\ txfifo = <<>> <=> Len(txfifo) = 0
      /\ \A j \in 1 .. Len(rxfifo) : Wire(j) = rxfifo[j]
      /\ \A j \in 1 .. Bytes : Wire(j) \in Cells
  BY WireType
<1>z. /\ PATTERN_BUF_SIZE \in Nat \ {0} /\ FIFO_SIZE \in Nat \ {0}
      /\ Half \in Nat \ {0} /\ FIFO_SIZE = Half + Half
      /\ FIFO_SIZE <= PATTERN_BUF_SIZE /\ MaxRetry \in Nat
      /\ Base \in Int /\ Cnt \in Int /\ Rest \in Int
      /\ dma.n \in 0 .. PATTERN_BUF_SIZE
  BY Sizes, Counters DEF Inv
<1>m. /\ Sends' <=> Sends
      /\ SendsExit' <=> SendsExit
      /\ Mid' <=> Mid
      /\ Writing' <=> Writing
      /\ Reads' <=> Reads
      /\ Serving' <=> Serving
      /\ Due' = Due /\ Command' = Command
  BY <1>a, MasterStays
<1>w. /\ rxfifo' \in Seq(Cells) /\ Len(rxfifo') = Len(rxfifo) - 1
      /\ Head(rxfifo) = Wire(1) /\ Len(rxfifo) >= 1 /\ Bytes' = Bytes - 1
      /\ \A j \in 1 .. Bytes - 1 : Wire(j)' = Wire(j + 1)
  BY <1>a, WireTakesOne
<1>k. /\ Early /\ Early' /\ InHeader /\ InHeader' /\ Base' = Base + 1
      /\ Base' < 0
      /\ Rest' = Rest - 1 /\ txfifo = <<>> /\ txfifo' = <<>>
  BY <1>a DEF Inv, SlaveInv, ReadInv, Early, InHeader, Rest, Base
<1>1. TypeOK'
  BY <1>a, <1>w, <1>k, StoredStays DEF TypeOK
<1>2. MasterInv'
  BY <1>a, <1>m DEF Inv, MasterInv
<1>3. SlaveInv'
  BY <1>a DEF Inv, SlaveInv
<1>4. DmaInv'
  BY <1>a DEF Inv, DmaInv
<1>5. FlagInv'
  BY <1>a DEF Inv, FlagInv
<1>6. RegInv'
  BY <1>a, <1>m DEF Inv, RegInv
<1>7. RoomInv'
  BY <1>a, <1>t, <1>z, <1>w DEF TypeOK, Inv, RoomInv, Cnt
<1>8. IdleInv'
  BY <1>a DEF Inv, IdleInv, HByte
<1>9. HeaderInv'
  <2>1. (SendsExit => state = STA_CMD)'
    BY <1>a, <1>m DEF Inv, HeaderInv, HByte
  <2>2. /\ (InHeader =>
             /\ tx_reg0 # "READY" /\ command \in Data)'
        /\ (InHeader =>
             /\ Mid => Serving /\ command = Command)'
    BY <1>a, <1>m, <1>k DEF Inv, HeaderInv
  <2>3. /\ (InHeader =>
             /\ Sends => Bytes = Rest)'
        /\ (InHeader =>
             /\ ~Sends => Len(rxfifo) >= Rest)'
    BY <1>z, <1>m, <1>w, <1>k DEF Inv, HeaderInv
  <2>4. (InHeader =>
          /\ \A j \in 1 .. Bytes : j <= Rest => HByte(Rest + 1 - j, Wire(j).b))'
    BY <1>t, <1>z, <1>w, <1>k DEF Inv, HeaderInv
  <2>5. (InHeader =>
          /\ state # STA_GET_ADDR_HI => temp_addr = 0)'
    BY <1>a, <1>t, <1>z, <1>k DEF Inv, HeaderInv, HByte, Early, Rest, Base, Cnt
  <2>6. (InHeader =>
          /\ state = STA_GET_SIZE_LOW => temp_size = 256 * (PATTERN_BUF_SIZE \div 256))'
    BY <1>a, <1>t, <1>k DEF Inv, HeaderInv, HByte, Early, Rest, Base
  <2>7. QED
    BY <2>1, <2>2, <2>3, <2>4, <2>5, <2>6 DEF HeaderInv
<1>10. DataInv'
  BY <1>a DEF Inv, DataInv
<1>11. WriteInv'
  <2>1. /\ (Writing /\ Early /\ state # STA_CMD =>
             /\ Base + Bytes = i)'
        /\ (Writing /\ Early /\ state # STA_CMD =>
             /\ \A k \in Storage : k < Base => storage[k].fresh = TRUE)'
        /\ (Writing /\ (~Early \/ (state = STA_CMD /\ ~Sends)) =>
             i >= PATTERN_BUF_SIZE /\ Stored)'
        /\ ((Writing /\ ~Early) \/ spc = "free" => \A j \in 1 .. Bytes : Wire(j).b = 0)'
        /\ (Writing /\ ~Early /\ state = CMD_WRITE => count >= PATTERN_BUF_SIZE)'
        /\ (Writing /\ spc = "undma" => dma.n = PATTERN_BUF_SIZE)'
    BY <1>a, <1>t, <1>z, <1>m, <1>w, <1>k DEF Inv, WriteInv
  <2>2. (Writing /\ Early /\ state # STA_CMD =>
          /\ \A j \in 1 .. Bytes : For(Base + j - 1, Wire(j)))'
    <3>1. SUFFICES ASSUME Writing, NEW j \in 1 .. Bytes'
                   PROVE  For(Base' + j - 1, Wire(j)')
      BY <1>m DEF For
    <3>2. PICK h \in 1 .. Bytes : h = j + 1
      BY <1>t, <1>w, <3>1
    <3>3. For(Base + h - 1, Wire(h))
      BY <1>a, <1>k, <3>1 DEF Inv, WriteInv
    <3>4. Wire(j)' = Wire(h) /\ j \in Nat /\ h \in Nat
      BY <1>t, <1>w, <3>1, <3>2
    <3>5. Base' + j - 1 = Base + h - 1
      BY <1>k, <1>z, <3>2, <3>4
    <3>6. QED
      BY <3>3, <3>4, <3>5
  <2>3. QED
    BY <2>1, <2>2 DEF WriteInv
<1>12. ReadInv'
  BY <1>a, <1>m, <1>w, <1>k, StoredStays DEF Inv, ReadInv
<1>13. PassInv'
  BY <1>a DEF Inv, PassInv
<1>14. QED
  BY <1>1, <1>2, <1>3, <1>4, <1>5, <1>6, <1>7, <1>8, <1>9, <1>10, <1>11, <1>12,
     <1>13
     DEF Inv

\* The last byte of a header: the main program takes over.
LEMMA RxLastStep ==
    ASSUME TypeOK, Inv, ~crossed, RxHeader, state = STA_GET_SIZE_LOW
    PROVE  TypeOK' /\ Inv'
<1>a. /\ rxfifo # <<>> /\ rxfifo' = Tail(rxfifo)
      /\ spc # "off" /\ "RXAVAIL" \in ier
      /\ state = 19 /\ state' = command
      /\ temp_size' = temp_size + Head(rxfifo).b
      /\ ier' = ier \ {"RXAVAIL"}
      /\ UNCHANGED <<pc, type, phase, i, stat, out, retry, cmpr, ret, spc,
                     start, command, temp_addr, count, op, rx_complete,
                     tx_complete, tx_finish, storage, tx_reg0, rx_reg0, txfifo,
                     dma_req, dma, recovering, crossed>>
  BY RxFacts
<1>t. /\ Len(rxfifo) \in Nat /\ Len(out) \in Nat /\ Len(txfifo) \in Nat
      /\ Bytes \in Nat /\ Bytes = Len(rxfifo) + Len(out)
      /\ rxfifo = <<>> <=> Len(rxfifo) = 0
      /\ out = <<>> <=> Len(out) = 0
      /\ txfifo = <<>> <=> Len(txfifo) = 0
      /\ \A j \in 1 .. Len(rxfifo) : Wire(j) = rxfifo[j]
      /\ \A j \in 1 .. Bytes : Wire(j) \in Cells
  BY WireType
<1>z. /\ PATTERN_BUF_SIZE \in Nat \ {0} /\ FIFO_SIZE \in Nat \ {0}
      /\ Half \in Nat \ {0} /\ FIFO_SIZE = Half + Half
      /\ FIFO_SIZE <= PATTERN_BUF_SIZE /\ MaxRetry \in Nat
      /\ Base \in Int /\ Cnt \in Int /\ Rest \in Int
      /\ dma.n \in 0 .. PATTERN_BUF_SIZE
  BY Sizes, Counters DEF Inv
<1>m. /\ Sends' <=> Sends
      /\ SendsExit' <=> SendsExit
      /\ Mid' <=> Mid
      /\ Writing' <=> Writing
      /\ Reads' <=> Reads
      /\ Serving' <=> Serving
      /\ Due' = Due /\ Command' = Command
  BY <1>a, MasterStays
<1>q. Stored' <=> Stored
  BY <1>a DEF Stored
<1>w. /\ rxfifo' \in Seq(Cells) /\ Len(rxfifo') = Len(rxfifo) - 1
      /\ Head(rxfifo) = Wire(1) /\ Len(rxfifo) >= 1 /\ Bytes' = Bytes - 1
      /\ \A j \in 1 .. Bytes - 1 : Wire(j)' = Wire(j + 1)
  BY <1>a, WireTakesOne
<1>k. /\ command \in Data /\ state' \in Data /\ temp_addr = 0
      /\ temp_size' = PATTERN_BUF_SIZE
      /\ Early /\ Early' /\ InHeader /\ ~InHeader' /\ Base = 0 - 1
      /\ Base' = 0 /\ Cnt' = 0
      /\ Rest = 1 /\ txfifo = <<>> /\ txfifo' = <<>>
      /\ (Mid => state' = Due /\ Serving)
  <2>1. InHeader /\ Rest = 1 /\ Base = 0 - 1
    BY <1>a DEF InHeader, Rest, Base
  <2>2. /\ command \in Data /\ temp_addr = 0
        /\ temp_size = 256 * (PATTERN_BUF_SIZE \div 256)
        /\ (Mid => Serving /\ command = Command) /\ \A j \in 1 .. Bytes : j <= 1 => HByte(2 - j, Wire(j).b)
    BY <1>a, <2>1 DEF Inv, HeaderInv
  <2>3. Head(rxfifo).b = PATTERN_BUF_SIZE % 256
    <3>1. 1 \in 1 .. Bytes /\ Head(rxfifo) = Wire(1)
      BY <1>t, <1>w
    <3>2. HByte(2 - 1, Wire(1).b)
      BY <2>2, <3>1
    <3>3. QED
      BY <3>1, <3>2 DEF HByte
  <2>4. temp_size' = PATTERN_BUF_SIZE
    <3>1. temp_size' = temp_size + Head(rxfifo).b
      BY <1>a
    <3>2. QED
      BY <2>2, <2>3, <3>1, Sizes
  <2>5. state' \in Data /\ ~InHeader'
    BY <1>a, <2>2 DEF InHeader
  <2>6. spc \in {"loop", "rearm", "ready"} /\ txfifo = <<>>
    BY <1>a DEF Inv, SlaveInv, ReadInv
  <2>7. Early /\ Early' /\ Base' = 0 /\ Cnt' = 0
    BY <1>a, <2>5, <2>6 DEF Early, Base, Cnt
  <2>8. Mid => state' = Due /\ Serving
    BY <1>a, <2>2 DEF Due, Command, Serving, Writing
  <2>9. QED
    BY <1>a, <2>1, <2>2, <2>4, <2>5, <2>6, <2>7, <2>8
<1>1. TypeOK'
  BY <1>q, <1>w, <1>k, <1>a DEF States, TypeOK
<1>2. MasterInv'
  BY <1>a, <1>m DEF Inv, MasterInv
<1>3. SlaveInv'
  BY <1>a DEF Inv, SlaveInv
<1>4. DmaInv'
  BY <1>a DEF Inv, DmaInv
<1>5. FlagInv'
  BY <1>a DEF Inv, FlagInv, SlaveInv, DmaInv
<1>6. RegInv'
  BY <1>a, <1>m, <1>k DEF Inv, RegInv, SlaveInv, HeaderInv
<1>7. RoomInv'
  BY <1>a, <1>t, <1>z, <1>w DEF TypeOK, Inv, RoomInv
<1>8. IdleInv'
  BY <1>k DEF IdleInv
<1>9. HeaderInv'
  BY <1>a, <1>m, <1>k DEF Inv, HeaderInv, HByte
<1>10. DataInv'
  BY <1>a, <1>m, <1>k DEF Inv, DataInv
<1>11. WriteInv'
  BY <1>a, <1>t, <1>m, <1>w, <1>k DEF Inv, WriteInv
<1>12. ReadInv'
  BY <1>a, <1>t, <1>z, <1>m, <1>q, <1>k DEF Inv, ReadInv, SlaveInv
<1>13. PassInv'
  BY <1>a DEF Inv, PassInv
<1>14. QED
  BY <1>1, <1>2, <1>3, <1>4, <1>5, <1>6, <1>7, <1>8, <1>9, <1>10, <1>11, <1>12,
     <1>13
     DEF Inv

\* The data of CMD_WRITE.
LEMMA RxDataStep ==
    ASSUME TypeOK, Inv, ~crossed, RxData
    PROVE  TypeOK' /\ Inv'
<1>a. /\ spc # "off" /\ "RXAVAIL" \in ier /\ rxfifo # <<>> /\ state = CMD_WRITE
      /\ count' = count + Taken
      /\ rxfifo' = SubSeq(rxfifo, Taken + 1, Len(rxfifo))
      /\ rx_complete' = IF count' = temp_size THEN 1 ELSE rx_complete
      /\ storage' = [k \in Storage |->
            IF k >= temp_addr + count /\ k < temp_addr + count + Taken
              THEN rxfifo[k - temp_addr - count + 1] ELSE storage[k]]
      /\ UNCHANGED <<pc, type, phase, i, stat, out, retry, cmpr, ret, spc,
                     start, state, command, temp_addr, temp_size, op,
                     tx_complete, tx_finish, ier, tx_reg0, rx_reg0, txfifo,
                     dma_req, dma, recovering, crossed>>
  BY DEF RxData, RxAvail, master, soft, hist
<1>t. /\ Len(rxfifo) \in Nat /\ Len(out) \in Nat /\ Len(txfifo) \in Nat
      /\ Bytes \in Nat /\ Bytes = Len(rxfifo) + Len(out)
      /\ rxfifo = <<>> <=> Len(rxfifo) = 0
      /\ out = <<>> <=> Len(out) = 0
      /\ txfifo = <<>> <=> Len(txfifo) = 0
      /\ \A j \in 1 .. Len(rxfifo) : Wire(j) = rxfifo[j]
      /\ \A j \in 1 .. Bytes : Wire(j) \in Cells
  BY WireType
<1>z. /\ PATTERN_BUF_SIZE \in Nat \ {0} /\ FIFO_SIZE \in Nat \ {0}
      /\ Half \in Nat \ {0} /\ FIFO_SIZE = Half + Half
      /\ FIFO_SIZE <= PATTERN_BUF_SIZE /\ MaxRetry \in Nat
      /\ Base \in Int /\ Cnt \in Int /\ Rest \in Int
      /\ dma.n \in 0 .. PATTERN_BUF_SIZE
  BY Sizes, Counters DEF Inv
<1>m. /\ Sends' <=> Sends
      /\ SendsExit' <=> SendsExit
      /\ Mid' <=> Mid
      /\ Writing' <=> Writing
      /\ Reads' <=> Reads
      /\ Serving' <=> Serving
      /\ Due' = Due /\ Command' = Command
  BY <1>a, MasterStays
<1>k. /\ spc \in {"wait", "flush", "free"} /\ op = CMD_WRITE
      /\ recovering = FALSE
      /\ ~InHeader /\ ~InHeader' /\ (spc = "wait" <=> Early) /\ (Early' <=> Early)
      /\ temp_addr = 0 /\ temp_size = PATTERN_BUF_SIZE /\ count \in Nat
      /\ txfifo = <<>> /\ txfifo' = <<>> /\ Rest' = Rest /\ Cnt = 0 /\ Cnt' = 0
      /\ (Mid => Writing) /\ ~Reads
  BY <1>a
     DEF Inv, SlaveInv, RegInv, ReadInv, DataInv, TypeOK, Early, Rest, Cnt,
         Reads, Writing, InHeader
<1>n. /\ Taken \in Nat /\ Taken <= Len(rxfifo) /\ Taken >= 1
      /\ (count < PATTERN_BUF_SIZE => count' <= PATTERN_BUF_SIZE)
      /\ count' \in Nat /\ count' = count + Taken
  <2>1. Len(rxfifo) >= 1
    BY <1>a, <1>t
  <2>2. /\ temp_size - count \in Int
        /\ count < PATTERN_BUF_SIZE => count + Taken <= PATTERN_BUF_SIZE
    BY <1>k, <1>t, <1>z DEF Taken
  <2>3. Taken \in Nat /\ Taken <= Len(rxfifo) /\ Taken >= 1
    BY <1>t, <2>1, <2>2 DEF Taken
  <2>4. QED
    BY <1>a, <1>k, <2>3, <2>2
<1>w. /\ rxfifo' \in Seq(Cells) /\ Len(rxfifo') = Len(rxfifo) - Taken
      /\ Bytes' = Bytes - Taken /\ \A j \in 1 .. Bytes - Taken : Wire(j)' = Wire(j + Taken)
  <2>1. PICK n \in 0 .. Len(rxfifo) : n = Taken
    BY <1>n, <1>t
  <2>2. QED
    BY <1>a, <2>1, WireTakes
<1>f. /\ count + Bytes <= PATTERN_BUF_SIZE + Half
      /\ count' + Bytes' = count + Bytes
      /\ count' + Bytes' <= PATTERN_BUF_SIZE + Half
  BY <1>a, <1>k, <1>n, <1>t, <1>w, <1>z DEF Inv, FlagInv
<1>g. /\ storage' \in [Storage -> Cells]
      /\ \A k \in Storage : k < count \/ k >= count' => storage'[k] = storage[k]
      /\ \A k \in Storage : k >= count /\ k < count' =>
           k - count + 1 \in 1 .. Bytes /\ storage'[k] = Wire(k - count + 1)
  <2>1. rxfifo \in Seq(Cells) /\ \A j \in 1 .. Len(rxfifo) : rxfifo[j] \in Cells
    BY DEF TypeOK
  <2>2. \A k \in Storage : k \in Nat /\ (k >= count /\ k < count + Taken => k - count + 1 \in 1 .. Len(rxfifo))
    BY <1>k, <1>n, <1>t, <1>z DEF Storage
  <2>3. storage' = [k \in Storage |-> IF k >= count /\ k < count + Taken
                                      THEN rxfifo[k - count + 1] ELSE storage[k]]
    <3>1. \A k \in Storage : k - temp_addr - count + 1 = k - count + 1
                            /\ temp_addr + count = count
      BY <1>k, <2>2
    <3>2. QED
      BY <1>a, <3>1
  <2>4. storage' \in [Storage -> Cells]
    BY <2>1, <2>2, <2>3 DEF TypeOK
  <2>5. \A k \in Storage : k < count \/ k >= count' => storage'[k] = storage[k]
    BY <1>k, <1>n, <2>2, <2>3
  <2>6. ASSUME NEW k \in Storage, k >= count, k < count'
        PROVE  k - count + 1 \in 1 .. Bytes /\ storage'[k] = Wire(k - count + 1)
    <3>1. k - count + 1 \in 1 .. Len(rxfifo)
      BY <1>n, <2>2, <2>6
    <3>2. storage'[k] = rxfifo[k - count + 1]
      BY <1>n, <2>2, <2>3, <2>6
    <3>3. QED
      BY <1>t, <3>1, <3>2
  <2>7. QED
    BY <2>4, <2>5, <2>6
<1>h. Writing => /\ (Early => Base = count /\ Base' = count' /\ Base + Bytes = i)
                 /\ (~Early => count >= PATTERN_BUF_SIZE /\ \A k \in Storage : storage'[k] = storage[k])
  <2>1. SUFFICES ASSUME Writing
               PROVE  /\ (Early => Base = count /\ Base' = count' /\ Base + Bytes = i)
                      /\ (~Early => count >= PATTERN_BUF_SIZE /\ \A k \in Storage : storage'[k] = storage[k])
    OBVIOUS
  <2>2. ASSUME Early PROVE Base = count /\ Base' = count' /\ Base + Bytes = i
    BY <1>a, <1>k, <2>1, <2>2 DEF Base, Inv, WriteInv
  <2>3. ASSUME ~Early
        PROVE  count >= PATTERN_BUF_SIZE /\ \A k \in Storage : storage'[k] = storage[k]
    <3>1. count >= PATTERN_BUF_SIZE
      BY <1>a, <2>1, <2>3 DEF Inv, WriteInv
    <3>2. \A k \in Storage : k < count
      BY <1>k, <1>z, <3>1 DEF Storage
    <3>3. QED
      BY <1>g, <3>1, <3>2
  <2>4. QED
    BY <2>2, <2>3
<1>1. TypeOK'
  <2>1. storage' \in [Storage -> Cells]
    BY <1>g
  <2>2. /\ count' \in 0 .. PATTERN_BUF_SIZE + Half
        /\ rxfifo' \in Seq(Cells)
    BY <1>f, <1>n, <1>t, <1>w, <1>z
  <2>3. rx_complete' \in 0 .. 1
    BY <1>a DEF TypeOK
  <2>4. QED
    BY <1>a, <2>1, <2>2, <2>3 DEF TypeOK
<1>2. MasterInv'
  BY <1>a, <1>m DEF Inv, MasterInv
<1>3. SlaveInv'
  BY <1>a DEF Inv, SlaveInv
<1>4. DmaInv'
  BY <1>a DEF Inv, DmaInv
<1>5. FlagInv'
  BY <1>a, <1>z, <1>k, <1>n, <1>f DEF Inv, FlagInv
<1>6. RegInv'
  BY <1>a, <1>m DEF Inv, RegInv
<1>7. RoomInv'
  BY <1>a, <1>t, <1>z, <1>m, <1>k, <1>n, <1>w
     DEF TypeOK, Inv, RoomInv, MasterInv, SlaveInv, WriteInv, InHeader, Early,
         Rest, Base, Cnt
<1>8. IdleInv'
  BY <1>a DEF Inv, IdleInv, HByte
<1>9. HeaderInv'
  BY <1>a, <1>m, <1>k DEF Inv, HeaderInv
<1>10. DataInv'
  BY <1>a, <1>m DEF Inv, DataInv
<1>11. WriteInv'
  <2>1. (Writing /\ Early /\ state # STA_CMD =>
          /\ Base + Bytes = i)'
    BY <1>a, <1>m, <1>k, <1>f, <1>h
  <2>2. (Writing /\ Early /\ state # STA_CMD =>
          /\ \A j \in 1 .. Bytes : For(Base + j - 1, Wire(j)))'
    BY <1>a, <1>t, <1>m, <1>k, <1>n, <1>w DEF Inv, WriteInv, Base
  <2>3. (Writing /\ Early /\ state # STA_CMD =>
          /\ \A k \in Storage : k < Base => storage[k].fresh = TRUE)'
    <3>1. SUFFICES ASSUME Writing, Early, NEW k \in Storage, k < count'
                   PROVE  storage'[k].fresh = TRUE
      BY <1>h, <1>k, <1>m
    <3>2. k \in Nat /\ k < PATTERN_BUF_SIZE
      BY <1>z DEF Storage
    <3>3. CASE k < count
      <4>1. storage[k].fresh = TRUE
        BY <1>a, <1>h, <3>1, <3>3 DEF Inv, WriteInv
      <4>2. QED
        BY <1>g, <3>3, <4>1
    <3>4. CASE k >= count
      <4>1. PICK h \in 1 .. Bytes : h = k - count + 1 /\ storage'[k] = Wire(h)
        BY <1>g, <3>1, <3>4
      <4>2. For(Base + h - 1, Wire(h))
        BY <1>a, <3>1 DEF Inv, WriteInv
      <4>3. Base + h - 1 = k
        BY <1>h, <1>k, <3>1, <3>2, <4>1
      <4>4. QED
        BY <3>2, <4>1, <4>2, <4>3 DEF For
    <3>5. k < count \/ k >= count
      BY <1>k, <3>2
    <3>6. QED
      BY <3>3, <3>4, <3>5
  <2>4. (Writing /\ (~Early \/ (state = STA_CMD /\ ~Sends)) =>
          i >= PATTERN_BUF_SIZE /\ Stored)'
    <3>1. SUFFICES ASSUME Writing, ~Early
                   PROVE  i >= PATTERN_BUF_SIZE /\ Stored'
      BY <1>a, <1>k, <1>m
    <3>2. i >= PATTERN_BUF_SIZE /\ Stored
      BY <3>1 DEF Inv, WriteInv
    <3>3. QED
      BY <1>h, <3>1, <3>2 DEF Stored
  <2>5. ((Writing /\ ~Early) \/ spc = "free" => \A j \in 1 .. Bytes : Wire(j).b = 0)'
    BY <1>a, <1>t, <1>m, <1>k, <1>n, <1>w
       DEF Inv, WriteInv, For, InHeader, Early, Rest, Base, Cnt
  <2>6. (Writing /\ ~Early /\ state = CMD_WRITE => count >= PATTERN_BUF_SIZE)'
    BY <1>z, <1>m, <1>k, <1>n, <1>h
  <2>7. (Writing /\ spc = "undma" => dma.n = PATTERN_BUF_SIZE)'
    BY <1>a, <1>m DEF Inv, WriteInv
  <2>8. QED
    BY <2>1, <2>2, <2>3, <2>4, <2>5, <2>6, <2>7 DEF WriteInv
<1>12. ReadInv'
  BY <1>a, <1>m DEF Inv, ReadInv
<1>13. PassInv'
  BY <1>a DEF Inv, PassInv
<1>14. QED
  BY <1>1, <1>2, <1>3, <1>4, <1>5, <1>6, <1>7, <1>8, <1>9, <1>10, <1>11, <1>12,
     <1>13
     DEF Inv

\* The transmit FIFO has run empty.
LEMMA TxFinishStep ==
    ASSUME TypeOK, Inv, ~crossed, TxFinish
    PROVE  TypeOK' /\ Inv'
<1>a. /\ TxEmpty /\ txfifo = <<>> /\ "TXFIFO_EMPTY" \in ier
      /\ ier' = ier \ {"TXFIFO_EMPTY"} /\ tx_finish' = 1
      /\ UNCHANGED <<pc, type, phase, i, stat, out, retry, cmpr, ret, spc,
                     start, state, command, temp_addr, temp_size, count, op,
                     rx_complete, tx_complete, storage, tx_reg0, rx_reg0,
                     rxfifo, txfifo, dma_req, dma, recovering, crossed>>
  BY DEF TxFinish, TxEmpty, master, soft, hist
<1>e. spc \notin {"fill", "put", "dma", "wait", "undma", "empty"}
  BY <1>a DEF Inv, RegInv, SlaveInv
<1>1. TypeOK'
  BY <1>a DEF TypeOK
<1>2. MasterInv'
  BY <1>a, MasterStays DEF Inv, MasterInv
<1>3. SlaveInv'
  BY <1>a, MasterStays DEF Inv, SlaveInv
<1>4. DmaInv'
  BY <1>a DEF Inv, DmaInv
<1>5. FlagInv'
  BY <1>a, <1>e, MasterStays, WireStays DEF Inv, FlagInv
<1>6. RegInv'
  BY <1>a, MasterStays, SlaveStays DEF Inv, RegInv
<1>7. RoomInv'
  BY <1>a, WireStays DEF Inv, RoomInv
<1>8. IdleInv'
  BY <1>a, MasterStays, WireStays DEF Inv, IdleInv
<1>9. HeaderInv'
  BY <1>a, MasterStays, SlaveStays, WireStays DEF Inv, HeaderInv
<1>10. DataInv'
  BY <1>a, MasterStays DEF Inv, DataInv
<1>11. WriteInv'
  BY <1>a, MasterStays, SlaveStays, StoredStays, WireStays DEF Inv, WriteInv
<1>12. ReadInv'
  BY <1>a, MasterStays, SlaveStays, StoredStays, WireStays DEF Inv, ReadInv
<1>13. PassInv'
  BY <1>a DEF Inv, PassInv
<1>14. QED
  BY <1>1, <1>2, <1>3, <1>4, <1>5, <1>6, <1>7, <1>8, <1>9, <1>10, <1>11, <1>12,
     <1>13
     DEF Inv

\* The handler answers the announcement.
LEMMA ResetEnStep ==
    ASSUME TypeOK, Inv, ~crossed, ResetEn
    PROVE  TypeOK' /\ Inv'
<1>a. /\ rx_reg0 = "RESET_EN" /\ rx_reg0' = "none" /\ tx_reg0' = "RESET_EN"
      /\ spc # "off"
      /\ UNCHANGED <<pc, type, phase, i, stat, out, retry, cmpr, ret, spc,
                     start, state, command, temp_addr, temp_size, count, op,
                     rx_complete, tx_complete, tx_finish, storage, ier, rxfifo,
                     txfifo, dma_req, dma, recovering, crossed>>
  BY DEF ResetEn, Reg0, master, soft, flags, hist
<1>1. TypeOK'
  BY <1>a DEF TypeOK
<1>2. MasterInv'
  BY <1>a, MasterStays DEF Inv, MasterInv
<1>3. SlaveInv'
  BY <1>a, MasterStays DEF Inv, SlaveInv
<1>4. DmaInv'
  BY <1>a DEF Inv, DmaInv
<1>5. FlagInv'
  BY <1>a, WireStays DEF Inv, FlagInv
<1>6. RegInv'
  BY <1>a, MasterStays, SlaveStays DEF Inv, RegInv
<1>7. RoomInv'
  BY <1>a, WireStays DEF Inv, RoomInv
<1>8. IdleInv'
  BY <1>a, MasterStays, WireStays DEF Inv, IdleInv
<1>9. HeaderInv'
  BY <1>a, MasterStays, SlaveStays, WireStays DEF Inv, HeaderInv
<1>10. DataInv'
  BY <1>a, MasterStays DEF Inv, DataInv
<1>11. WriteInv'
  BY <1>a, MasterStays, SlaveStays, StoredStays, WireStays DEF Inv, WriteInv
<1>12. ReadInv'
  BY <1>a, MasterStays, SlaveStays, StoredStays, WireStays DEF Inv, ReadInv
<1>13. PassInv'
  BY <1>a DEF Inv, PassInv
<1>14. QED
  BY <1>1, <1>2, <1>3, <1>4, <1>5, <1>6, <1>7, <1>8, <1>9, <1>10, <1>11, <1>12,
     <1>13
     DEF Inv

\* A reset that was not announced.
LEMMA ResetRefusedStep ==
    ASSUME TypeOK, Inv, ~crossed, ResetRefused
    PROVE  TypeOK' /\ Inv'
<1>a. /\ rx_reg0' = "none"
      /\ UNCHANGED <<pc, type, phase, i, stat, out, retry, cmpr, ret, spc,
                     start, state, command, temp_addr, temp_size, count, op,
                     rx_complete, tx_complete, tx_finish, storage, ier,
                     tx_reg0, rxfifo, txfifo, dma_req, dma, recovering,
                     crossed>>
  BY DEF ResetRefused, master, soft, flags, hist
<1>1. TypeOK'
  BY <1>a DEF TypeOK
<1>2. MasterInv'
  BY <1>a, MasterStays DEF Inv, MasterInv
<1>3. SlaveInv'
  BY <1>a, MasterStays DEF Inv, SlaveInv
<1>4. DmaInv'
  BY <1>a DEF Inv, DmaInv
<1>5. FlagInv'
  BY <1>a, WireStays DEF Inv, FlagInv
<1>6. RegInv'
  BY <1>a, MasterStays, SlaveStays DEF Inv, RegInv
<1>7. RoomInv'
  BY <1>a, WireStays DEF Inv, RoomInv
<1>8. IdleInv'
  BY <1>a, MasterStays, WireStays DEF Inv, IdleInv
<1>9. HeaderInv'
  BY <1>a, MasterStays, SlaveStays, WireStays DEF Inv, HeaderInv
<1>10. DataInv'
  BY <1>a, MasterStays DEF Inv, DataInv
<1>11. WriteInv'
  BY <1>a, MasterStays, SlaveStays, StoredStays, WireStays DEF Inv, WriteInv
<1>12. ReadInv'
  BY <1>a, MasterStays, SlaveStays, StoredStays, WireStays DEF Inv, ReadInv
<1>13. PassInv'
  BY <1>a DEF Inv, PassInv
<1>14. QED
  BY <1>1, <1>2, <1>3, <1>4, <1>5, <1>6, <1>7, <1>8, <1>9, <1>10, <1>11, <1>12,
     <1>13
     DEF Inv

\* A reset between two commands, or inside a header.
LEMMA ResetIdleType ==
    ASSUME TypeOK, Inv, ~crossed, Reset, state \notin Data
    PROVE  TypeOK'
<1>a. /\ rx_reg0 = "RESET" /\ tx_reg0 = "RESET_EN" /\ rx_reg0' = "none"
      /\ spc # "off"
      /\ rxfifo' = <<>> /\ txfifo' = <<>> /\ dma_req' = FALSE
      /\ ier' = {"RX_REG0", "RXAVAIL"} /\ count' = 0
      /\ rx_complete' = 1 /\ tx_complete' = 1 /\ tx_finish' = 1
      /\ state \notin Data /\ state' = STA_CMD /\ tx_reg0' = "READY"
      /\ recovering' = FALSE
      /\ UNCHANGED <<pc, type, phase, i, stat, out, retry, cmpr, ret, spc,
                     start, command, temp_addr, temp_size, op, storage, dma>>
  BY DEF Reset, ProtocolReset, Reg0, master
<1>1. rx_reg0' \in {"none", "RESET_EN", "RESET"}
  BY <1>a
<1>2. rxfifo' \in Seq(Cells)
  BY <1>a
<1>3. txfifo' \in Seq(Cells)
  BY <1>a
<1>4. dma_req' \in BOOLEAN
  BY <1>a, WireType, Numbers
     DEF Inv, TypeOK, Cells, Plain, NoDma, States, MasterInv, SlaveInv
<1>5. ier' \subseteq {"RX_REG0", "RXAVAIL", "TXFIFO_EMPTY"}
  BY <1>a
<1>6. count' \in 0 .. PATTERN_BUF_SIZE + Half
  BY <1>a, Numbers
<1>7. rx_complete' \in 0 .. 1
  BY <1>a
<1>8. tx_complete' \in 0 .. 1
  BY <1>a
<1>9. tx_finish' \in 0 .. 1
  BY <1>a
<1>10. recovering' \in BOOLEAN
  BY <1>a, WireType, Numbers
     DEF Inv, TypeOK, Cells, Plain, NoDma, States, MasterInv, SlaveInv
<1>11. crossed' \in BOOLEAN
  BY Zenon DEF TypeOK, Reset
<1>12. state' \in States
  BY <1>a
<1>13. tx_reg0' \in {"BUSY", "READY", "RESET_EN"}
  BY <1>a
<1>14. QED
  BY <1>a, <1>1, <1>2, <1>3, <1>4, <1>5, <1>6, <1>7, <1>8, <1>9, <1>10, <1>11,
     <1>12, <1>13
     DEF TypeOK

LEMMA ResetIdleStep ==
    ASSUME TypeOK, Inv, ~crossed, Reset, state \notin Data, ~crossed'
    PROVE  Inv'
<1>a. /\ rx_reg0 = "RESET" /\ tx_reg0 = "RESET_EN" /\ rx_reg0' = "none"
      /\ spc # "off"
      /\ rxfifo' = <<>> /\ txfifo' = <<>> /\ dma_req' = FALSE
      /\ ier' = {"RX_REG0", "RXAVAIL"} /\ count' = 0
      /\ rx_complete' = 1 /\ tx_complete' = 1 /\ tx_finish' = 1
      /\ state \notin Data /\ state' = STA_CMD /\ tx_reg0' = "READY"
      /\ recovering' = FALSE
      /\ UNCHANGED <<pc, type, phase, i, stat, out, retry, cmpr, ret, spc,
                     start, command, temp_addr, temp_size, op, storage, dma>>
  BY DEF Reset, ProtocolReset, Reg0, master
<1>k. /\ ~Mid /\ ~Sends /\ ~SendsExit /\ ~Writing /\ ~Reads /\ ~Serving
      /\ Bytes' = 0
      /\ spc \in {"loop", "rearm", "ready"} /\ ~InHeader'
  <2>1. ~Mid
    BY <1>a DEF Inv, RegInv
  <2>2. ~Sends /\ ~SendsExit /\ ~Writing /\ ~Reads /\ ~Serving
    BY <2>1 DEF Mid, Sends, SendsExit, Writing, Reads, Serving
  <2>3. out = <<>>
    BY <2>1 DEF Inv, MasterInv, Mid
  <2>4. Bytes' = 0
    BY <1>a, <2>3, WireType, WireClears
  <2>5. /\ spc \in {"loop", "rearm", "ready"} /\ ~InHeader'
    BY <1>a DEF Inv, SlaveInv, InHeader
  <2>6. QED
    BY <2>1, <2>2, <2>4, <2>5
<1>1. MasterInv'
  BY <1>a, MasterStays DEF Inv, MasterInv
<1>2. SlaveInv'
  BY <1>a, MasterStays DEF Inv, SlaveInv
<1>3. DmaInv'
  BY <1>a, <1>k, MasterStays DEF Inv, DmaInv
<1>4. FlagInv'
  BY <1>a, <1>k, MasterStays DEF Inv, FlagInv
<1>5. RegInv'
  BY <1>a, <1>k, MasterStays DEF Inv, RegInv
<1>6. RoomInv'
  BY <1>a, <1>k, Numbers, SMTT(20) DEF TypeOK, RoomInv
<1>7. IdleInv'
  BY <1>a, <1>k, MasterStays DEF IdleInv
<1>8. HeaderInv'
  BY <1>a, <1>k, MasterStays DEF HeaderInv
<1>9. DataInv'
  BY <1>a DEF Inv, DataInv
<1>10. WriteInv'
  BY <1>a, <1>k, MasterStays DEF WriteInv
<1>11. ReadInv'
  BY <1>a, <1>k, MasterStays DEF Inv, ReadInv
<1>12. PassInv'
  BY <1>a DEF Inv, PassInv
<1>13. QED
  BY <1>1, <1>2, <1>3, <1>4, <1>5, <1>6, <1>7, <1>8, <1>9, <1>10, <1>11, <1>12
     DEF Inv

\* A reset in the middle of a command.
LEMMA ResetBusyType ==
    ASSUME TypeOK, Inv, ~crossed, Reset, state \in Data
    PROVE  TypeOK'
<1>a. /\ rx_reg0 = "RESET" /\ tx_reg0 = "RESET_EN" /\ rx_reg0' = "none"
      /\ spc # "off"
      /\ rxfifo' = <<>> /\ txfifo' = <<>> /\ dma_req' = FALSE
      /\ ier' = {"RX_REG0", "RXAVAIL"} /\ count' = 0
      /\ rx_complete' = 1 /\ tx_complete' = 1 /\ tx_finish' = 1
      /\ state \in Data /\ recovering' = TRUE
      /\ UNCHANGED <<pc, type, phase, i, stat, out, retry, cmpr, ret, spc,
                     start, state, command, temp_addr, temp_size, op, storage,
                     tx_reg0, dma>>
  BY DEF Reset, ProtocolReset, Reg0, master
<1>1. rx_reg0' \in {"none", "RESET_EN", "RESET"}
  BY <1>a
<1>2. rxfifo' \in Seq(Cells)
  BY <1>a
<1>3. txfifo' \in Seq(Cells)
  BY <1>a
<1>4. dma_req' \in BOOLEAN
  BY <1>a, WireType, Numbers
     DEF Inv, TypeOK, Cells, Plain, NoDma, States, MasterInv, SlaveInv
<1>5. ier' \subseteq {"RX_REG0", "RXAVAIL", "TXFIFO_EMPTY"}
  BY <1>a
<1>6. count' \in 0 .. PATTERN_BUF_SIZE + Half
  BY <1>a, Numbers
<1>7. rx_complete' \in 0 .. 1
  BY <1>a
<1>8. tx_complete' \in 0 .. 1
  BY <1>a
<1>9. tx_finish' \in 0 .. 1
  BY <1>a
<1>10. recovering' \in BOOLEAN
  BY <1>a
<1>11. crossed' \in BOOLEAN
  BY Zenon DEF TypeOK, Reset
<1>12. QED
  BY <1>a, <1>1, <1>2, <1>3, <1>4, <1>5, <1>6, <1>7, <1>8, <1>9, <1>10, <1>11
     DEF TypeOK

LEMMA ResetBusyStep ==
    ASSUME TypeOK, Inv, ~crossed, Reset, state \in Data, ~crossed'
    PROVE  Inv'
<1>a. /\ rx_reg0 = "RESET" /\ tx_reg0 = "RESET_EN" /\ rx_reg0' = "none"
      /\ spc # "off"
      /\ rxfifo' = <<>> /\ txfifo' = <<>> /\ dma_req' = FALSE
      /\ ier' = {"RX_REG0", "RXAVAIL"} /\ count' = 0
      /\ rx_complete' = 1 /\ tx_complete' = 1 /\ tx_finish' = 1
      /\ state \in Data /\ recovering' = TRUE
      /\ UNCHANGED <<pc, type, phase, i, stat, out, retry, cmpr, ret, spc,
                     start, state, command, temp_addr, temp_size, op, storage,
                     tx_reg0, dma>>
  BY DEF Reset, ProtocolReset, Reg0, master
<1>x. spc \notin {"loop", "clear"}
  BY <1>a DEF Reset, ProtocolReset, Reg0, master
<1>k. /\ ~Mid /\ ~Sends /\ ~SendsExit /\ ~Writing /\ ~Reads /\ ~Serving
      /\ Bytes' = 0
      /\ start = 1 /\ ~InHeader /\ ~InHeader' /\ spc \notin {"loop", "clear"}
  <2>1. ~Mid
    BY <1>a DEF Inv, RegInv
  <2>2. ~Sends /\ ~SendsExit /\ ~Writing /\ ~Reads /\ ~Serving
    BY <2>1 DEF Mid, Sends, SendsExit, Writing, Reads, Serving
  <2>3. out = <<>>
    BY <2>1 DEF Inv, MasterInv, Mid
  <2>4. Bytes' = 0
    BY <1>a, <2>3, WireType, WireClears
  <2>5. /\ start = 1 /\ ~InHeader /\ ~InHeader' /\ spc \notin {"loop", "clear"}
    BY <1>a, <1>x DEF TypeOK, Inv, SlaveInv, InHeader
  <2>6. QED
    BY <2>1, <2>2, <2>4, <2>5
<1>1. MasterInv'
  BY <1>a, MasterStays DEF Inv, MasterInv
<1>2. SlaveInv'
  BY <1>a DEF Inv, SlaveInv
<1>3. DmaInv'
  BY <1>a DEF Inv, DmaInv
<1>4. FlagInv'
  BY <1>a, <1>k, Numbers DEF FlagInv
<1>5. RegInv'
  BY <1>a, <1>k, MasterStays DEF Inv, RegInv
<1>6. RoomInv'
  BY <1>a, <1>k, Numbers, SMTT(20) DEF TypeOK, RoomInv
<1>7. IdleInv'
  BY <1>a DEF Inv, IdleInv, HByte
<1>8. HeaderInv'
  BY <1>a, <1>k, MasterStays DEF HeaderInv
<1>9. DataInv'
  BY <1>a, MasterStays DEF Inv, DataInv
<1>10. WriteInv'
  BY <1>a, <1>k, MasterStays DEF WriteInv
<1>11. ReadInv'
  BY <1>a, <1>k, MasterStays DEF Inv, ReadInv
<1>12. PassInv'
  BY <1>a DEF Inv, PassInv
<1>13. QED
  BY <1>1, <1>2, <1>3, <1>4, <1>5, <1>6, <1>7, <1>8, <1>9, <1>10, <1>11, <1>12
     DEF Inv

\* The DMA engine stores a byte.
LEMMA DmaStoresStep ==
    ASSUME TypeOK, Inv, ~crossed, DmaMove, dma.dir = "rx"
    PROVE  TypeOK' /\ Inv'
<1>a. /\ dma_req = TRUE /\ dma.dir = "rx" /\ dma.n < temp_size
      /\ rxfifo # <<>> /\ rxfifo' = Tail(rxfifo)
      /\ storage' = [storage EXCEPT ![temp_addr + dma.n] = Head(rxfifo)]
      /\ rx_complete' = IF dma.n + 1 = temp_size THEN 1 ELSE rx_complete
      /\ dma' = [dma EXCEPT !.n = @ + 1]
      /\ UNCHANGED <<pc, type, phase, i, stat, out, retry, cmpr, ret, spc,
                     start, state, command, temp_addr, temp_size, count, op,
                     tx_complete, tx_finish, ier, tx_reg0, rx_reg0, txfifo,
                     dma_req, recovering, crossed>>
  BY DEF TypeOK, DmaMove, DmaRequest, master, soft, flags, hard, hist
<1>t. /\ Len(rxfifo) \in Nat /\ Len(out) \in Nat /\ Len(txfifo) \in Nat
      /\ Bytes \in Nat /\ Bytes = Len(rxfifo) + Len(out)
      /\ rxfifo = <<>> <=> Len(rxfifo) = 0
      /\ out = <<>> <=> Len(out) = 0
      /\ txfifo = <<>> <=> Len(txfifo) = 0
      /\ \A j \in 1 .. Len(rxfifo) : Wire(j) = rxfifo[j]
      /\ \A j \in 1 .. Bytes : Wire(j) \in Cells
  BY WireType
<1>z. /\ PATTERN_BUF_SIZE \in Nat \ {0} /\ FIFO_SIZE \in Nat \ {0}
      /\ Half \in Nat \ {0} /\ FIFO_SIZE = Half + Half
      /\ FIFO_SIZE <= PATTERN_BUF_SIZE /\ MaxRetry \in Nat
      /\ Base \in Int /\ Cnt \in Int /\ Rest \in Int
      /\ dma.n \in 0 .. PATTERN_BUF_SIZE
  BY Sizes, Counters DEF Inv
<1>m. /\ Sends' <=> Sends
      /\ SendsExit' <=> SendsExit
      /\ Mid' <=> Mid
      /\ Writing' <=> Writing
      /\ Reads' <=> Reads
      /\ Serving' <=> Serving
      /\ Due' = Due /\ Command' = Command
  BY <1>a, MasterStays
<1>w. /\ rxfifo' \in Seq(Cells) /\ Len(rxfifo') = Len(rxfifo) - 1
      /\ Head(rxfifo) = Wire(1) /\ Len(rxfifo) >= 1 /\ Bytes' = Bytes - 1
      /\ \A j \in 1 .. Bytes - 1 : Wire(j)' = Wire(j + 1)
  BY <1>a, WireTakesOne
<1>k. /\ op = CMD_DMAWR /\ state = CMD_DMAWR /\ ~InHeader /\ ~InHeader'
      /\ spc \in {"wait", "undma"} /\ (spc = "wait" <=> Early) /\ (Early' <=> Early)
      /\ temp_addr = 0 /\ temp_size = PATTERN_BUF_SIZE /\ recovering = FALSE
      /\ dma.n \in Nat /\ dma.n < PATTERN_BUF_SIZE
      /\ dma \in [dir : {"off", "rx", "tx"}, n : 0 .. PATTERN_BUF_SIZE]
      /\ dma'.n = dma.n + 1 /\ dma'.dir = dma.dir
      /\ txfifo = <<>> /\ txfifo' = <<>> /\ Rest' = Rest /\ Cnt = 0 /\ Cnt' = 0
      /\ (Mid => Writing) /\ ~Reads
      /\ (Early => Base = dma.n /\ Base' = dma.n + 1)
  <2>1. /\ spc \in {"wait", "undma"} /\ op # CMD_WRITE
        /\ dma \in [dir : {"off", "rx", "tx"}, n : 0 .. PATTERN_BUF_SIZE]
    BY <1>a DEF Inv, DmaInv
  <2>2. op = state /\ state \in Data
    BY <2>1 DEF Inv, SlaveInv
  <2>3. op = CMD_DMAWR
    BY <2>1 DEF Inv, DmaInv, SlaveInv
  <2>4. temp_addr = 0 /\ temp_size = PATTERN_BUF_SIZE /\ (Mid => Writing) /\ ~Reads
    BY <2>2, <2>3 DEF Inv, DataInv, Due, Writing, Reads
  <2>5. recovering = FALSE
    BY <1>a, <1>t DEF Inv, RegInv, TypeOK
  <2>6. /\ dma.n \in Nat /\ dma.n < PATTERN_BUF_SIZE /\ dma'.n = dma.n + 1
        /\ dma'.dir = dma.dir
    BY <1>a, <1>z, <2>4, <2>1
  <2>7. ~InHeader /\ ~InHeader' /\ (spc = "wait" <=> Early) /\ (Early' <=> Early) /\ Rest' = Rest
    BY <1>a, <2>1, <2>2 DEF InHeader, Early, Rest
  <2>8. txfifo = <<>> /\ txfifo' = <<>> /\ Cnt = 0 /\ Cnt' = 0
    BY <1>a, <2>2, <2>3 DEF Inv, ReadInv, Cnt
  <2>9. Early => Base = dma.n /\ Base' = dma.n + 1
    BY <1>a, <2>2, <2>3, <2>7 DEF Base
  <2>10. QED
    BY <2>1, <2>2, <2>3, <2>4, <2>5, <2>6, <2>7, <2>8, <2>9
<1>g. /\ storage' \in [Storage -> Cells] /\ storage'[dma.n] = Wire(1)
      /\ \A k \in Storage : k # dma.n => storage'[k] = storage[k]
  <2>1. /\ temp_addr + dma.n = dma.n /\ dma.n \in Storage
        /\ storage \in [Storage -> Cells]
    BY <1>k, <1>z DEF TypeOK, Storage
  <2>2. Head(rxfifo) = Wire(1) /\ Wire(1) \in Cells
    BY <1>t, <1>w
  <2>3. QED
    BY <1>a, <2>1, <2>2
<1>h. /\ Writing => Early /\ Base + Bytes = i /\ Wire(1).fresh = TRUE
      /\ rx_complete = 1 => ~Writing
  <2>1. ASSUME Writing
        PROVE  Early /\ Base + Bytes = i /\ Wire(1).fresh = TRUE /\ rx_complete # 1
    <3>1. spc # "undma"
      BY <1>k, <1>z, <2>1 DEF Inv, WriteInv
    <3>2. Early /\ Base + Bytes = i /\ \A j \in 1 .. Bytes : For(Base + j - 1, Wire(j))
      BY <1>k, <2>1, <3>1 DEF Inv, WriteInv
    <3>3. For(dma.n, Wire(1))
      <4>1. For(Base + 1 - 1, Wire(1))
        BY <1>t, <1>w, <3>2
      <4>2. Base + 1 - 1 = dma.n
        BY <1>k, <3>2
      <4>3. QED
        BY <4>1, <4>2
    <3>4. Wire(1).fresh = TRUE
      BY <1>k, <3>3 DEF For
    <3>5. rx_complete # 1
      BY <1>k, <1>z, <3>1 DEF Inv, FlagInv
    <3>6. QED
      BY <3>2, <3>4, <3>5
  <2>2. QED
    BY <2>1
<1>1. TypeOK'
  <2>1. storage' \in [Storage -> Cells]
    BY <1>g
  <2>2. rxfifo' \in Seq(Cells)
    BY <1>w
  <2>3. rx_complete' \in 0 .. 1
    BY <1>a DEF TypeOK
  <2>4. dma'.dir \in {"off", "rx", "tx"} /\ dma'.n \in 0 .. PATTERN_BUF_SIZE
    BY <1>a, <1>k, <1>z
  <2>5. QED
    BY <1>a, <2>1, <2>2, <2>3, <2>4 DEF TypeOK
<1>2. MasterInv'
  BY <1>a, <1>m DEF Inv, MasterInv
<1>3. SlaveInv'
  BY <1>a DEF Inv, SlaveInv
<1>4. DmaInv'
  BY <1>a, <1>k, <1>z DEF Inv, DmaInv
<1>5. FlagInv'
  BY <1>a, <1>m, <1>k DEF Inv, FlagInv
<1>6. RegInv'
  BY <1>a, <1>m, <1>k DEF Inv, RegInv
<1>7. RoomInv'
  <2>1. /\ (Len(rxfifo) <= FIFO_SIZE)'
        /\ (pc = "shift" /\ i > 0 /\ phase = "write" => Bytes <= FIFO_SIZE)'
    BY <1>a, <1>t, <1>z, <1>w DEF Inv, RoomInv
  <2>2. (pc = "block" /\ phase = "write" => Len(rxfifo) + stat <= FIFO_SIZE)'
    BY <1>a, <1>t, <1>z, <1>m, <1>w, <1>k, <1>g, <1>h, SMTT(20)
       DEF TypeOK, Inv, RoomInv, MasterInv, SlaveInv, WriteInv, InHeader,
           Early, Rest, Base, Cnt
  <2>3. QED
    BY <2>1, <2>2 DEF RoomInv
<1>8. IdleInv'
  BY <1>a, <1>k DEF IdleInv
<1>9. HeaderInv'
  BY <1>m, <1>k DEF Inv, HeaderInv
<1>10. DataInv'
  BY <1>a, <1>m DEF Inv, DataInv
<1>11. WriteInv'
  <2>1. (Writing /\ Early /\ state # STA_CMD =>
          /\ Base + Bytes = i)'
    BY <1>a, <1>t, <1>m, <1>w, <1>k, <1>h
  <2>2. (Writing /\ Early /\ state # STA_CMD =>
          /\ \A j \in 1 .. Bytes : For(Base + j - 1, Wire(j)))'
    <3>1. SUFFICES ASSUME Writing, Early, NEW j \in 1 .. Bytes'
                   PROVE  For(Base' + j - 1, Wire(j)')
      BY <1>k, <1>m DEF For
    <3>2. PICK h \in 1 .. Bytes : h = j + 1
      BY <1>t, <1>w, <3>1
    <3>3. For(Base + h - 1, Wire(h))
      BY <1>k, <3>1 DEF Inv, WriteInv
    <3>4. Wire(j)' = Wire(h) /\ j \in Nat /\ h \in Nat
      BY <1>t, <1>w, <3>1, <3>2
    <3>5. Base' + j - 1 = Base + h - 1
      BY <1>k, <1>z, <3>1, <3>2, <3>4
    <3>6. QED
      BY <3>3, <3>4, <3>5
  <2>3. (Writing /\ Early /\ state # STA_CMD =>
          /\ \A k \in Storage : k < Base => storage[k].fresh = TRUE)'
    BY <1>m, <1>k, <1>g, <1>h DEF Inv, WriteInv
  <2>4. /\ (Writing /\ (~Early \/ (state = STA_CMD /\ ~Sends)) =>
             i >= PATTERN_BUF_SIZE /\ Stored)'
        /\ ((Writing /\ ~Early) \/ spc = "free" => \A j \in 1 .. Bytes : Wire(j).b = 0)'
        /\ (Writing /\ ~Early /\ state = CMD_WRITE => count >= PATTERN_BUF_SIZE)'
        /\ (Writing /\ spc = "undma" => dma.n = PATTERN_BUF_SIZE)'
    BY <1>a, <1>m, <1>k DEF Inv, WriteInv
  <2>5. QED
    BY <2>1, <2>2, <2>3, <2>4 DEF WriteInv
<1>12. ReadInv'
  BY <1>a, <1>m, <1>k DEF Inv, ReadInv
<1>13. PassInv'
  BY <1>a DEF Inv, PassInv
<1>14. QED
  BY <1>1, <1>2, <1>3, <1>4, <1>5, <1>6, <1>7, <1>8, <1>9, <1>10, <1>11, <1>12,
     <1>13
     DEF Inv

\* The DMA engine fetches a byte.
LEMMA DmaFetchesStep ==
    ASSUME TypeOK, Inv, ~crossed, DmaMove, dma.dir = "tx"
    PROVE  TypeOK' /\ Inv'
<1>a. /\ dma_req = TRUE /\ dma.dir = "tx" /\ dma.n < temp_size
      /\ txfifo' = Append(txfifo, storage[temp_addr + dma.n])
      /\ tx_complete' = IF dma.n + 1 = temp_size THEN 1 ELSE tx_complete
      /\ dma' = [dma EXCEPT !.n = @ + 1]
      /\ UNCHANGED <<pc, type, phase, i, stat, out, retry, cmpr, ret, spc,
                     start, state, command, temp_addr, temp_size, count, op,
                     rx_complete, tx_finish, storage, ier, tx_reg0, rx_reg0,
                     rxfifo, dma_req, recovering, crossed>>
  BY DEF DmaMove, DmaRequest, master, soft, hist
<1>z. /\ PATTERN_BUF_SIZE \in Nat \ {0} /\ FIFO_SIZE \in Nat \ {0}
      /\ Half \in Nat \ {0} /\ FIFO_SIZE = Half + Half
      /\ FIFO_SIZE <= PATTERN_BUF_SIZE /\ MaxRetry \in Nat
      /\ Base \in Int /\ Cnt \in Int /\ Rest \in Int
      /\ dma.n \in 0 .. PATTERN_BUF_SIZE
  BY Sizes, Counters DEF Inv
<1>k. /\ op = CMD_DMARD /\ state = CMD_DMARD /\ ~InHeader /\ ~InHeader'
      /\ spc \in {"wait", "undma"} /\ (spc = "wait" <=> Early) /\ (Early' <=> Early)
      /\ temp_addr = 0 /\ temp_size = PATTERN_BUF_SIZE
      /\ dma.n \in Nat /\ dma.n < PATTERN_BUF_SIZE
      /\ dma \in [dir : {"off", "rx", "tx"}, n : 0 .. PATTERN_BUF_SIZE]
      /\ dma'.n = dma.n + 1 /\ dma'.dir = dma.dir
      /\ Cnt = dma.n /\ Cnt' = dma.n + 1 /\ Base' = Base /\ Rest' = Rest
      /\ ~Writing /\ (Reads => spc = "wait" /\ tx_complete # 1)
  <2>1. /\ spc \in {"wait", "undma"} /\ op # CMD_WRITE
        /\ dma \in [dir : {"off", "rx", "tx"}, n : 0 .. PATTERN_BUF_SIZE]
    BY <1>a DEF Inv, DmaInv
  <2>2. op = state /\ state \in Data
    BY <2>1 DEF Inv, SlaveInv
  <2>3. op = CMD_DMARD
    BY <2>1 DEF Inv, DmaInv, SlaveInv
  <2>4. temp_addr = 0 /\ temp_size = PATTERN_BUF_SIZE /\ ~Writing
    BY <2>2, <2>3 DEF Inv, DataInv, Due, Writing
  <2>5. /\ dma.n \in Nat /\ dma.n < PATTERN_BUF_SIZE /\ dma'.n = dma.n + 1
        /\ dma'.dir = dma.dir
    BY <1>a, <1>z, <2>4, <2>1
  <2>6. ~InHeader /\ ~InHeader' /\ (spc = "wait" <=> Early) /\ (Early' <=> Early) /\ Rest' = Rest
    BY <1>a, <2>1, <2>2 DEF InHeader, Early, Rest
  <2>7. Cnt = dma.n /\ Cnt' = dma.n + 1 /\ Base' = Base
    BY <1>a, <2>1, <2>2, <2>3, <2>6 DEF Cnt, Base
  <2>8. ASSUME Reads PROVE spc = "wait" /\ tx_complete # 1
    <3>1. recovering = FALSE
      BY <2>8 DEF Inv, RegInv, Reads
    <3>2. spc # "undma"
      BY <2>2, <2>5, <2>7, <2>8 DEF Inv, ReadInv
    <3>3. QED
      BY <1>z, <2>1, <2>3, <2>5, <3>1, <3>2 DEF Inv, FlagInv
  <2>9. QED
    BY <2>1, <2>2, <2>3, <2>4, <2>5, <2>6, <2>7, <2>8
<1>f. /\ storage[dma.n] \in Cells
      /\ storage[temp_addr + dma.n] = storage[dma.n] /\ dma.n \in Storage
  BY <1>k, <1>z DEF TypeOK, Storage
<1>g. /\ txfifo' \in Seq(Cells) /\ Len(txfifo') = Len(txfifo) + 1
      /\ \A j \in 1 .. Len(txfifo) : txfifo'[j] = txfifo[j]
      /\ txfifo'[Len(txfifo) + 1] = storage[dma.n]
  BY <1>a, <1>f, AppendIs DEF TypeOK
<1>h. Reads => storage[dma.n].fresh = TRUE
  <2>1. SUFFICES ASSUME Reads PROVE storage[dma.n].fresh = TRUE
    OBVIOUS
  <2>2. i + Len(txfifo) = dma.n /\ i \in Nat
    BY <1>k, <2>1 DEF TypeOK, Inv, ReadInv
  <2>3. phase # "exit"
    BY <1>k, <1>z, <2>2 DEF Inv, MasterInv
  <2>4. phase = "read"
    BY <2>1, <2>3 DEF Reads, Mid, TypeOK, Inv, MasterInv
  <2>5. QED
    BY <1>f, <2>1, <2>4 DEF Inv, ReadInv, Stored
<1>1. TypeOK'
  <2>1. txfifo' \in Seq(Cells)
    BY <1>g
  <2>2. tx_complete' \in 0 .. 1
    BY <1>a DEF TypeOK
  <2>3. dma'.dir \in {"off", "rx", "tx"} /\ dma'.n \in 0 .. PATTERN_BUF_SIZE
    BY <1>a, <1>k, <1>z
  <2>4. QED
    BY <1>a, <2>1, <2>2, <2>3 DEF TypeOK
<1>2. MasterInv'
  BY <1>a, MasterStays DEF Inv, MasterInv
<1>3. SlaveInv'
  BY <1>a, MasterStays DEF Inv, SlaveInv
<1>4. DmaInv'
  BY <1>a, <1>k, <1>z DEF Inv, DmaInv
<1>5. FlagInv'
  BY <1>a, <1>k, MasterStays DEF Inv, FlagInv
<1>6. RegInv'
  BY <1>a, <1>k, MasterStays DEF Inv, RegInv
<1>7. RoomInv'
  BY <1>a, MasterStays, WireStays DEF Inv, RoomInv
<1>8. IdleInv'
  BY <1>a, <1>k DEF IdleInv
<1>9. HeaderInv'
  BY <1>a, <1>k, MasterStays DEF Inv, HeaderInv
<1>10. DataInv'
  BY <1>a, MasterStays DEF Inv, DataInv
<1>11. WriteInv'
  BY <1>a, <1>k, MasterStays DEF WriteInv
<1>12. ReadInv'
  <2>1. /\ (txfifo # <<>> =>
             /\ state \in Reading)'
        /\ (txfifo # <<>> =>
             /\ spc \in {"fill", "put", "wait", "undma", "empty",
                         "wait_empty", "flush"})'
        /\ (Reads /\ InHeader => Bytes = Rest /\ i = 0)'
        /\ (Reads /\ state \in Data /\ spc \notin {"flush", "free"} =>
            /\ spc \in {"undma", "empty", "wait_empty"} => Cnt = PATTERN_BUF_SIZE)'
        /\ (Reads => \A k \in Storage : k < i => cmpr[k].fresh = TRUE)'
        /\ (Reads /\ state = STA_CMD /\ ~Sends => i >= PATTERN_BUF_SIZE)'
        /\ (Reads /\ state \in Data => rxfifo = <<>> /\ out = <<>>)'
        /\ (Reads /\ spc \in {"flush", "free"} => i = PATTERN_BUF_SIZE)'
    BY <1>a, <1>k, MasterStays DEF Inv, ReadInv
  <2>2. (Reads /\ phase = "read" => Stored)'
    BY <1>a, MasterStays, StoredStays DEF Inv, ReadInv
  <2>3. (Reads /\ state \in Data /\ spc \notin {"flush", "free"} =>
          /\ i + Len(txfifo) = Cnt /\ Cnt <= PATTERN_BUF_SIZE)'
    <3>1. SUFFICES ASSUME Reads
                   PROVE  i + Len(txfifo') = dma.n + 1 /\ dma.n + 1 <= PATTERN_BUF_SIZE
      BY <1>a, <1>k, MasterStays
    <3>2. i + Len(txfifo) = dma.n /\ i \in Nat
      BY <1>k, <3>1 DEF TypeOK, Inv, ReadInv
    <3>3. QED
      BY <1>g, <1>k, <1>z, <3>2, WireType
  <2>4. (Reads /\ state \in Data /\ spc \notin {"flush", "free"} =>
          /\ \A j \in 1 .. Len(txfifo) : txfifo[j].fresh = TRUE)'
    <3>1. SUFFICES ASSUME Reads, NEW j \in 1 .. Len(txfifo')
                   PROVE  txfifo'[j].fresh = TRUE
      BY <1>a, MasterStays
    <3>2. CASE j <= Len(txfifo)
      BY <1>g, <1>k, <3>1, <3>2 DEF Inv, ReadInv
    <3>3. CASE j = Len(txfifo) + 1
      BY <1>g, <1>h, <3>1, <3>3
    <3>4. j \in Int /\ j <= Len(txfifo) + 1 /\ Len(txfifo) \in Nat
      BY <1>g, WireType
    <3>5. j <= Len(txfifo) \/ j = Len(txfifo) + 1
      BY <3>4
    <3>6. QED
      BY <3>2, <3>3, <3>5
  <2>5. (Reads /\ pc = "block" => stat <= Len(txfifo))'
    <3>1. SUFFICES ASSUME Reads, pc = "block" PROVE stat <= Len(txfifo')
      BY <1>a, MasterStays
    <3>2. stat <= Len(txfifo) /\ stat \in Nat
      BY <1>z, <3>1 DEF TypeOK, Inv, ReadInv
    <3>3. QED
      BY <1>g, <3>2, WireType
  <2>6. QED
    BY <2>1, <2>2, <2>3, <2>4, <2>5 DEF ReadInv
<1>13. PassInv'
  BY <1>a DEF Inv, PassInv
<1>14. QED
  BY <1>1, <1>2, <1>3, <1>4, <1>5, <1>6, <1>7, <1>8, <1>9, <1>10, <1>11, <1>12,
     <1>13
     DEF Inv

(***************************************************************************)
(* The invariant holds in every behaviour                                  *)
(***************************************************************************)
LEMMA InitInv == Init => IInv
<1> SUFFICES ASSUME Init PROVE IInv
  OBVIOUS
<1>1. /\ pc = "idle" /\ phase = "write" /\ i = 0 /\ stat = 0 /\ out = <<>>
      /\ ret = "none"
      /\ spc = "off" /\ start = 0 /\ state = STA_CMD /\ op = 0 /\ count = 0
      /\ ier = {} /\ tx_reg0 = "BUSY" /\ rx_reg0 = "none" /\ rxfifo = <<>>
      /\ txfifo = <<>>
      /\ dma_req = FALSE /\ dma = NoDma /\ recovering = FALSE
  BY DEF Init
<1>2. TypeOK
  <2>1. /\ cmpr \in [0 .. PATTERN_BUF_SIZE - 1 -> Cells]
        /\ storage \in [Storage -> Cells]
    BY CellIs DEF Init
  <2>2. /\ i \in 0 .. PATTERN_BUF_SIZE + Half
        /\ count \in 0 .. PATTERN_BUF_SIZE + Half
        /\ dma.dir \in {"off", "rx", "tx"} /\ dma.n \in 0 .. PATTERN_BUF_SIZE
        /\ out \in Seq(Cells) /\ rxfifo \in Seq(Cells) /\ txfifo \in Seq(Cells)
    BY <1>1, Sizes DEF NoDma
  <2>3. retry \in 0 .. MaxRetry + 1
    BY Sizes DEF Init
  <2>4. {dma_req, recovering, crossed} \subseteq BOOLEAN
    BY Zenon DEF Init
  <2>5. QED
    BY <2>1, <2>2, <2>3, <2>4 DEF Init, TypeOK
<1>3. ~Mid /\ ~Sends /\ ~SendsExit /\ ~Writing /\ ~Reads /\ ~InHeader /\ ~Early
  BY <1>1 DEF Mid, Sends, SendsExit, Writing, Reads, InHeader, Early
<1>4. Bytes = 0 /\ Len(rxfifo) = 0
  BY <1>1, <1>2, WireType
<1>5. MasterInv /\ SlaveInv
  BY <1>1, <1>3 DEF MasterInv, SlaveInv
<1>6. DmaInv /\ FlagInv /\ RegInv
  BY <1>1, <1>3, Sizes DEF DmaInv, FlagInv, RegInv, NoDma
<1>7. RoomInv /\ IdleInv
  BY <1>1, <1>3, <1>4, Sizes DEF RoomInv, IdleInv
<1>8. HeaderInv /\ DataInv /\ WriteInv /\ ReadInv /\ PassInv
  BY <1>1, <1>3 DEF HeaderInv, DataInv, WriteInv, ReadInv, PassInv
<1>9. QED
  BY <1>2, <1>5, <1>6, <1>7, <1>8 DEF IInv, Inv

LEMMA StutterStep == IInv /\ UNCHANGED vars => IInv'
<1> SUFFICES ASSUME IInv, UNCHANGED vars PROVE IInv'
  OBVIOUS
<1>1. UNCHANGED <<pc, type, phase, i, stat, out, retry, cmpr, ret, spc, start, state,
                  command, temp_addr, temp_size, count, op, rx_complete, tx_complete,
                  tx_finish, storage, ier, tx_reg0, rx_reg0, rxfifo, txfifo, dma_req,
                  dma, recovering, crossed>>
  BY DEF vars, master, soft, flags, hard, hist
<1>2. /\ Sends' <=> Sends
      /\ SendsExit' <=> SendsExit
      /\ Mid' <=> Mid
      /\ Writing' <=> Writing
      /\ Reads' <=> Reads
      /\ Serving' <=> Serving
      /\ Due' = Due /\ Command' = Command
  BY <1>1, MasterStays
<1>3. /\ InHeader' <=> InHeader
      /\ Early' <=> Early
      /\ Rest' = Rest /\ Base' = Base /\ Cnt' = Cnt
  BY <1>1, SlaveStays
<1>4. Bytes' = Bytes /\ \A j : Wire(j)' = Wire(j)
  BY <1>1 DEF Bytes, Wire
<1>5. Stored' <=> Stored
  BY <1>1 DEF Stored
<1>6. TypeOK' <=> TypeOK
  BY <1>1 DEF TypeOK
<1>7. /\ MasterInv' <=> MasterInv
      /\ SlaveInv' <=> SlaveInv
      /\ DmaInv' <=> DmaInv
  BY <1>1, <1>2 DEF MasterInv, SlaveInv, DmaInv
<1>8. /\ FlagInv' <=> FlagInv
      /\ RegInv' <=> RegInv
      /\ RoomInv' <=> RoomInv
  BY <1>1, <1>2, <1>3, <1>4 DEF FlagInv, RegInv, RoomInv
<1>9. /\ IdleInv' <=> IdleInv
      /\ HeaderInv' <=> HeaderInv
      /\ DataInv' <=> DataInv
  BY <1>1, <1>2, <1>3, <1>4 DEF IdleInv, HeaderInv, DataInv
<1>10. WriteInv' <=> WriteInv
  BY <1>1, <1>2, <1>3, <1>4, <1>5 DEF WriteInv
<1>11. ReadInv' <=> ReadInv
  BY <1>1, <1>2, <1>3, <1>4, <1>5 DEF ReadInv
<1>12. PassInv' <=> PassInv
  BY <1>1 DEF PassInv, Byte
<1>13. crossed' = crossed
  BY <1>1
<1>14. QED
  BY <1>6, <1>7, <1>8, <1>9, <1>10, <1>11, <1>12, <1>13 DEF IInv, Inv

LEMMA PollStep ==
    ASSUME TypeOK, Inv, ~crossed, PollReady
    PROVE  IInv'
<1>1. pc = "ready" /\ ~Sends /\ ~SendsExit
  BY DEF PollReady, Sends, SendsExit
<1>2. UNCHANGED <<spc, soft, count, flags, storage, hard, recovering>>
  BY DEF PollReady
<1>3. CASE tx_reg0 = "READY" /\ phase = "reset"
  BY <1>3, PollResetType, PollResetStep DEF IInv
<1>4. CASE tx_reg0 = "READY" /\ phase = "exit"
  BY <1>4, PollExitType, PollExitStep DEF IInv
<1>5. CASE tx_reg0 = "READY" /\ phase \in {"write", "read"}
  BY <1>5, PollGoType, PollGoStep DEF IInv
<1>6. CASE tx_reg0 # "READY" /\ Leave("error") /\ UNCHANGED crossed
  BY <1>1, <1>2, <1>6, LeaveStep DEF IInv, hist
<1>7. CASE /\ tx_reg0 # "READY" /\ retry <= MaxRetry /\ retry' = retry + 1
           /\ UNCHANGED <<pc, type, phase, i, stat, out, cmpr, ret, crossed>>
  BY <1>2, <1>7, RetryStep DEF IInv, hist
<1>8. phase \in {"write", "read", "exit", "reset"}
  BY DEF TypeOK
<1>9. QED
  BY <1>3, <1>4, <1>5, <1>6, <1>7, <1>8 DEF PollReady

LEMMA PollResetEnStep ==
    ASSUME TypeOK, Inv, ~crossed, PollResetEn
    PROVE  IInv'
<1>1. pc = "reseten" /\ ~Sends /\ ~SendsExit
  BY DEF PollResetEn, Sends, SendsExit
<1>2. UNCHANGED <<spc, soft, count, flags, storage, hard, hist>>
  BY DEF PollResetEn
<1>3. CASE tx_reg0 = "RESET_EN"
  BY <1>3, ResetEnSeenStep DEF IInv
<1>4. CASE tx_reg0 # "RESET_EN" /\ Leave("error")
  BY <1>1, <1>2, <1>4, LeaveStep DEF IInv
<1>5. CASE /\ tx_reg0 # "RESET_EN" /\ retry <= MaxRetry /\ retry' = retry + 1
           /\ UNCHANGED <<pc, type, phase, i, stat, out, cmpr, ret>>
  BY <1>2, <1>5, RetryStep DEF IInv
<1>6. QED
  BY <1>3, <1>4, <1>5 DEF PollResetEn

LEMMA AbortStep ==
    ASSUME TypeOK, Inv, ~crossed, Abort
    PROVE  IInv'
<1>1. pc # "idle" /\ ~Sends /\ ~SendsExit
  BY DEF Abort, Sends, SendsExit
<1>2. /\ Leave("error")
      /\ UNCHANGED <<spc, soft, count, flags, storage, hard, hist>>
  BY DEF Abort
<1>3. QED
  BY <1>1, <1>2, LeaveStep DEF IInv

LEMMA MasterStep ==
    ASSUME TypeOK, Inv, ~crossed, Master
    PROVE  IInv'
<1>1. CASE Sent
  <2>1. i \in Nat
    BY Sizes DEF TypeOK
  <2>2. phase = "exit" \/ (phase # "exit" /\ (i < PATTERN_BUF_SIZE \/ i >= PATTERN_BUF_SIZE))
    BY <2>1, Sizes
  <2>3. QED
    BY <1>1, <2>2, SentExitStep, SentBlockStep, SentPhaseStep DEF IInv
<1>2. CASE PollReady \/ PollResetEn
  BY <1>2, PollStep, PollResetEnStep
<1>3. CASE Shift \/ ReadStatus \/ WriteBlock \/ ReadBlock
  BY <1>3, ShiftStep, ReadStatusStep, WriteBlockStep, ReadBlockStep DEF IInv
<1>4. CASE WriteReg("reset_en", "RESET_EN", "reseten") \/ WriteReg("reset", "RESET", "ready")
  BY <1>4, WriteResetEnStep, WriteResetStep DEF IInv
<1>5. QED
  BY <1>1, <1>2, <1>3, <1>4 DEF Master

LEMMA MainStep ==
    ASSUME TypeOK, Inv, ~crossed, Main
    PROVE  IInv'
<1>1. CASE Put
  <2>1. Len(txfifo) >= FIFO_SIZE \/ Len(txfifo) < FIFO_SIZE
    BY Sizes, WireType
  <2>2. QED
    BY <1>1, <2>1, FullStep, PutStep DEF IInv
<1>2. CASE Rearm \/ Ready
  BY <1>2, RearmType, RearmStep, ReadyType, ReadyStep DEF IInv
<1>3. CASE Dispatch \/ SlaveStop \/ Clear \/ Fill
  BY <1>3, DispatchStep, SlaveStopStep, ClearStep, FillStep DEF IInv
<1>4. CASE Enable("arm", "RXAVAIL", "wait") \/ Enable("empty", "TXFIFO_EMPTY", "wait_empty")
  BY <1>4, ArmStep, EmptyStep DEF IInv
<1>5. CASE StartDma \/ StopDma \/ Wait \/ Flush \/ Free
  BY <1>5, StartDmaStep, StopDmaStep, WaitStep, FlushStep, FreeStep DEF IInv
<1>6. QED
  BY <1>1, <1>2, <1>3, <1>4, <1>5 DEF Main

\* The first byte is a zero, the exit command, or that of a header.
LEMMA FirstIs ==
    ASSUME TypeOK, Inv, rxfifo # <<>>, state = STA_CMD
    PROVE  Head(rxfifo).b \in {0, CMD_EXIT} \cup Data
<1>1. Head(rxfifo) = rxfifo[1] /\ Len(rxfifo) >= 1
  BY TailIs DEF TypeOK
<1>2. Wire(1) = Head(rxfifo) /\ 1 \in 1 .. Bytes
  BY <1>1, WireType
<1>3. CASE Sends
  <2>1. /\ Bytes >= 5
        /\ 1 + 4 < Bytes => Wire(1).b = 0
        /\ 1 + 4 = Bytes => Wire(1).b = Command
    BY <1>2, <1>3 DEF Inv, IdleInv
  <2>2. QED
    BY <1>2, <2>1, HeaderIs, WireType
<1>4. CASE ~Sends
  BY <1>2, <1>4 DEF Inv, IdleInv
<1>5. QED
  BY <1>3, <1>4

LEMMA HandlerStep ==
    ASSUME TypeOK, Inv, ~crossed, Handler
    PROVE  IInv'
<1>1. CASE RxHeader
  <2>1. rxfifo # <<>> /\ state \in {0} \cup 16 .. 19
    BY <1>1, RxFacts
  <2>2. CASE state = STA_CMD
    BY <1>1, <2>1, <2>2, FirstIs, RxJunkStep, RxExitStep, RxCommandStep
       DEF IInv
  <2>3. CASE state \in STA_GET_ADDR_HI .. STA_GET_SIZE_HI
    BY <1>1, <2>3, RxMiddleStep DEF IInv
  <2>4. CASE state = STA_GET_SIZE_LOW
    BY <1>1, <2>4, RxLastStep DEF IInv
  <2>5. QED
    BY <2>1, <2>2, <2>3, <2>4
<1>2. CASE Reset
  BY <1>2, ResetIdleType, ResetIdleStep, ResetBusyType, ResetBusyStep DEF IInv
<1>3. CASE RxData \/ TxFinish \/ ResetEn \/ ResetRefused
  BY <1>3, RxDataStep, TxFinishStep, ResetEnStep, ResetRefusedStep DEF IInv
<1>4. QED
  BY <1>1, <1>2, <1>3 DEF Handler

LEMMA DmaStep ==
    ASSUME TypeOK, Inv, ~crossed, DmaMove
    PROVE  IInv'
<1>1. dma.dir = "rx" \/ dma.dir = "tx"
  BY DEF DmaMove
<1>2. QED
  BY <1>1, DmaStoresStep, DmaFetchesStep DEF IInv

LEMMA NextInv == IInv /\ [Next]_vars => IInv'
<1> SUFFICES ASSUME IInv, [Next]_vars PROVE IInv'
  OBVIOUS
<1>1. CASE Next
  <2>1. TypeOK /\ Inv /\ ~crossed
    BY <1>1 DEF Next, IInv
  <2>2. CASE Operator
    BY <2>1, <2>2, SlaveStartStep, BeginStep DEF Operator, IInv
  <2>3. QED
    BY <1>1, <2>1, <2>2, MasterStep, AbortStep, MainStep, HandlerStep, DmaStep
       DEF Next
<1>2. CASE UNCHANGED vars
  BY <1>2, StutterStep
<1>3. QED
  BY <1>1, <1>2

\* What the two boards, their FIFOs, the DMA channel and the handler keep
\* between them, until a reset or a new run crosses the slave's main program,
\* satisfies the inductive invariant at every step of every sequence of runs,
\* time-outs and resets.
THEOREM Invariance == Spec => []IInv
<1>1. QED
  BY InitInv, NextInv, PTL DEF Spec

(***************************************************************************)
(* What follows from it                                                    *)
(***************************************************************************)
\* The flow control of the protocol holds on both sides of the FIFO: the
\* status sq_spi_slave_run reads and the block it then writes never overrun
\* the slave's receive FIFO, and sq_spi_slave_protocol_isr is never called
\* for a byte that it leaves where it is.
THEOREM FlowControlHolds == Spec => []FlowControl
<1>1. IInv => FlowControl
  <2> SUFFICES ASSUME IInv PROVE FlowControl
    OBVIOUS
  <2>1. NoOverrun
    BY DEF IInv, Inv, RoomInv, NoOverrun
  <2>2. ASSUME ~crossed, RxAvail, state \in Data \ {CMD_WRITE} PROVE FALSE
    <3>1. recovering # FALSE /\ rxfifo # <<>>
      BY <2>2 DEF IInv, Inv, RegInv, RxAvail
    <3>2. recovering = TRUE
      BY <3>1 DEF IInv, TypeOK
    <3>3. QED
      BY <2>2, <3>1, <3>2 DEF IInv, Inv, RegInv
  <2>3. QED
    BY <2>1, <2>2 DEF IInv, FlowControl, HandlerTakes
<1>2. QED
  BY <1>1, Invariance, PTL

\* What sq_spi_slave_run_state assembles from single bytes, whatever block,
\* stale byte or reset they arrive among, is the header the master sent: the
\* whole pattern at address 0, and the command the master is in.
THEOREM HeadersAreExact == Spec => []HeaderIsExact
<1>1. IInv => HeaderIsExact
  <2> SUFFICES ASSUME IInv, state \in Data, ~crossed
               PROVE  /\ temp_addr = 0 /\ temp_size = PATTERN_BUF_SIZE
                      /\ Serving => state = Command
    BY DEF HeaderIsExact
  <2>1. temp_addr = 0 /\ temp_size = PATTERN_BUF_SIZE /\ (Mid => state = Due)
    BY DEF IInv, Inv, DataInv
  <2>2. Serving => Mid /\ Due = Command
    BY DEF Serving, Mid, Due, Writing, Command
  <2>3. QED
    BY <2>1, <2>2
<1>2. QED
  BY <1>1, Invariance, PTL

\* A run that sq_spi_slave_run reports as passed has compared bytes that this
\* run wrote and the slave stored and sent back, not those of an earlier run.
THEOREM PassesAreReal == Spec => []PassIsReal
<1>1. IInv => PassIsReal
  BY DEF IInv, TypeOK, Storage, Inv, PassInv, PassIsReal
<1>2. QED
  BY <1>1, Invariance, PTL
====
