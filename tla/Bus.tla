--------------------------------- MODULE Bus ---------------------------------
(***************************************************************************)
(* The system bus: arbiter, watchdog, the processor's bus interface, the   *)
(* memories and the DMA.  All run on the edges of one 50 MHz clock; each   *)
(* operator named for a component gives its registers after the edge, from *)
(* the wires before it.                                                    *)
(***************************************************************************)
EXTENDS Integers

CONSTANTS
  RomStart, RomSize, RamStart, RamSize,   \* in bytes
  Lanes,            \* bytes in a word, 4
  DmaStart,         \* ctrl, src, dest and cnt, a number apart
  ALLOWED_CYCLES    \* of the watchdog

Rom == RomStart .. RomStart + RomSize - 1
Ram == RamStart .. RamStart + RamSize - 1
DmaRegs == DmaStart .. DmaStart + 3
Answers == Rom \union Ram \union DmaRegs

ASSUME BusAssumption ==
  /\ RomStart \in Nat \ {0} /\ RamStart \in Nat \ {0} /\ DmaStart \in Nat \ {0}
  /\ RomSize \in Nat \ {0} /\ RamSize \in Nat \ {0} /\ Lanes \in Nat \ {0}
  /\ RomStart % Lanes = 0 /\ RamStart % Lanes = 0
  /\ RomSize % Lanes = 0 /\ RamSize % Lanes = 0
  /\ Rom \intersect Ram = {} /\ Rom \intersect DmaRegs = {} /\ Ram \intersect DmaRegs = {}
  /\ ALLOWED_CYCLES \in Nat /\ ALLOWED_CYCLES > 7   \* of 500 000 in NiskiDUT.v

\* A register of clog2(ALLOWED_CYCLES) bits can count that far.
ASSUME CounterAssumption == \A k \in 0 .. ALLOWED_CYCLES : 2 ^ k # ALLOWED_CYCLES

VARIABLES
  cpu,    \* CPU.v: state, ma_rd_req, ma_wr_req and the access it makes
  cbi,    \* cpu_bus_interface
  arb,    \* bus_arbitrator
  wd,     \* watchdog
  mem,    \* the memories: the interfaces' states, data_out, the bytes of the RAM
  dma

-----------------------------------------------------------------------------
(* The wires *)

cpu_req == cbi.bus_req
dma_req == dma.bus_req

\* The processor always first.
Mutant_cpu_grant_first == cpu_req

cpu_grant == cpu_req /\ (~dma_req \/ arb # "DMA")

dma_grant == dma_req /\ (~cpu_req \/ arb = "DMA")

rd_bus == (cpu_grant /\ ~cbi.is_wr) \/ (dma_grant /\ dma.state = "READING")
wr_bus == (cpu_grant /\ cbi.is_wr) \/ (dma_grant /\ dma.state = "WRITING")

\* An unused bus is driven with 0.
addr_bus ==
  CASE cpu_grant -> cbi.mar
    [] dma_grant /\ dma.state = "READING" -> dma.src
    [] dma_grant /\ dma.state = "WRITING" -> dma.dest
    [] OTHER -> 0

Bytes(m) == IF m = "ROM" THEN Rom ELSE Ram
req(m) == addr_bus \in Bytes(m) /\ (rd_bus \/ wr_bus)
addr_hit == addr_bus \in DmaRegs
read_req == addr_hit /\ rd_bus
write_req == addr_hit /\ wr_bus

\* Nobody drives fc where nobody is hit: it reads 0.
fc_bus ==
  \/ \E m \in {"ROM", "RAM"} : req(m) /\ mem.state[m] = "DONE"
  \/ addr_hit /\ (read_req \/ dma.state = "WAIT_ACK")

dma_register(i) == CASE i = 0 -> 0 [] i = 1 -> dma.src [] i = 2 -> dma.dest [] i = 3 -> dma.cnt

\* The word is not shifted to the byte asked for.
Mutant_mem_data_unshifted(m) == mem.out[m][0]

mem_data(m) == mem.out[m][addr_bus % Lanes]

\* A byte of the memories; a register is one value.  The DMA's registers read 0
\* while it is busy.
data_bus ==
  CASE wr_bus -> (IF cpu_grant THEN cbi.mdr ELSE dma.data)
    [] ~wr_bus /\ (\E m \in {"ROM", "RAM"} : req(m)) ->
         mem_data(IF req("ROM") THEN "ROM" ELSE "RAM")
    [] ~wr_bus /\ read_req /\ dma.state = "IDLE" -> dma_register(addr_bus - DmaStart)
    [] OTHER -> 0

access_timeout == wd.state = "NOTIFYING"

-----------------------------------------------------------------------------
(* The arbiter and the watchdog *)

bus_arbitrator ==
  arb' = CASE arb = "CPU" /\ cpu_req -> "CPU"
           [] arb = "DMA" /\ dma_req -> "DMA"
           [] OTHER -> IF cpu_req THEN "CPU" ELSE IF dma_req THEN "DMA" ELSE "IDLE"

Answered == [state |-> "IDLE", counter |-> 0]

\* As with a register that is a bit too short.
Mutant_Counted_wraps == [wd EXCEPT !.counter = (@ + 1) % ALLOWED_CYCLES]

Counted ==
  IF wd.counter = ALLOWED_CYCLES THEN [wd EXCEPT !.state = "NOTIFYING"]
  ELSE [wd EXCEPT !.counter = @ + 1]

watchdog ==
  wd' = CASE wd.state = "IDLE" /\ (rd_bus \/ wr_bus) -> [wd EXCEPT !.state = "COUNTING"]
          [] wd.state = "COUNTING" /\ fc_bus -> Answered
          [] wd.state = "COUNTING" /\ ~fc_bus -> Counted
          [] wd.state = "NOTIFYING" /\ ~rd_bus /\ ~wr_bus -> [state |-> "IDLE", counter |-> 1]
          [] OTHER -> wd

-----------------------------------------------------------------------------
(* The processor's bus interface *)

cpu_bus_interface ==
  cbi' = CASE cbi.state = "WAITING_REQ" /\ (cpu.rd \/ cpu.wr) ->
                [cbi EXCEPT !.state = "WAITING_BUS", !.bus_req = TRUE, !.mar = cpu.addr,
                            !.mdr = IF cpu.wr THEN cpu.data ELSE @, !.is_wr = cpu.wr]
           [] cbi.state = "WAITING_BUS" /\ cpu_grant -> [cbi EXCEPT !.state = "WAITING_ACK"]
           [] cbi.state = "WAITING_ACK" /\ access_timeout ->
                [cbi EXCEPT !.state = "DONE", !.timeout = TRUE, !.bus_req = FALSE]
           [] cbi.state = "WAITING_ACK" /\ ~access_timeout /\ fc_bus ->
                [cbi EXCEPT !.state = "DONE", !.done = TRUE, !.bus_req = FALSE,
                            !.mdr = IF cbi.is_wr THEN @ ELSE data_bus]
           [] cbi.state = "DONE" /\ ~cpu.rd /\ ~cpu.wr ->
                [cbi EXCEPT !.state = "WAITING_REQ", !.done = FALSE, !.timeout = FALSE]
           [] OTHER -> cbi

-----------------------------------------------------------------------------
(* The memories: a byte of the ROM is its address; data_out is the word at *)
(* the address before the edge.                                            *)

byte(a) == IF a \in Rom THEN a ELSE mem.ram[a]

\* The interface stays ready when the access ends.
Mutant_mem_state_stays(m) ==
  IF req(m) \/ mem.state[m] = "DONE" THEN "DONE" ELSE "IDLE"

mem_state(m) == IF req(m) THEN "DONE" ELSE "IDLE"

\* data_out of a memory that is not addressed is of no interest: it stays.
memory ==
  mem' = [ state |-> [m \in {"ROM", "RAM"} |-> mem_state(m)],
           out   |-> [m \in {"ROM", "RAM"} |->
                        IF addr_bus \in Bytes(m)
                        THEN [i \in 0 .. Lanes - 1 |-> byte(addr_bus - (addr_bus % Lanes) + i)]
                        ELSE mem.out[m]],
           ram   |-> [a \in Ram |-> IF wr_bus /\ a = addr_bus THEN data_bus ELSE mem.ram[a]] ]

-----------------------------------------------------------------------------
(* The DMA *)

\* ctrl is kept as the two directions.
WriteRegister(i, v) ==
  LET d == [dma EXCEPT !.state = "WAIT_ACK"] IN
  CASE i = 0 -> [d EXCEPT !.src_step = v.src_step, !.dest_step = v.dest_step,
                          !.process_started = TRUE]
    [] i = 1 -> [d EXCEPT !.src = v]
    [] i = 2 -> [d EXCEPT !.dest = v]
    [] i = 3 -> [d EXCEPT !.cnt = v]

Acknowledged ==
  LET starts == dma.process_started /\ dma.cnt # 0 IN
  [dma EXCEPT !.state = IF starts THEN "WAIT_BUS" ELSE "IDLE",
              !.bus_req = starts, !.process_started = FALSE]

\* The bus is given back after every byte.
Mutant_Written_releases ==
  LET d == [dma EXCEPT !.dest = @ + dma.dest_step] IN
  IF dma.cnt # 0 THEN [d EXCEPT !.cnt = @ - 1, !.state = "WAIT_ACK", !.bus_req = FALSE,
                                !.process_started = TRUE]
  ELSE [d EXCEPT !.bus_req = FALSE, !.state = "IDLE"]

\* The destination is moved on twice.
Mutant_Written_twice ==
  LET d == [dma EXCEPT !.dest = @ + 2 * dma.dest_step] IN
  IF dma.cnt # 0 THEN [d EXCEPT !.cnt = @ - 1, !.state = "READING"]
  ELSE [d EXCEPT !.bus_req = FALSE, !.state = "IDLE"]

\* The count is tested before it is decremented.
Mutant_Written_stops_at_one ==
  LET d == [dma EXCEPT !.dest = @ + dma.dest_step] IN
  IF dma.cnt # 1 THEN [d EXCEPT !.cnt = @ - 1, !.state = "READING"]
  ELSE [d EXCEPT !.bus_req = FALSE, !.state = "IDLE"]

\* The byte written when cnt is 0 is the last: cnt + 1 bytes are transferred.
Written ==
  LET d == [dma EXCEPT !.dest = @ + dma.dest_step] IN
  IF dma.cnt # 0 THEN [d EXCEPT !.cnt = @ - 1, !.state = "READING"]
  ELSE [d EXCEPT !.bus_req = FALSE, !.state = "IDLE"]

Stopped == [dma EXCEPT !.bus_req = FALSE, !.state = "IDLE"]

dma_on_clock ==
  dma' = CASE dma.state = "IDLE" /\ write_req -> WriteRegister(addr_bus - DmaStart, data_bus)
           [] dma.state = "WAIT_ACK" /\ ~addr_hit -> Acknowledged
           [] dma.state = "WAIT_BUS" /\ dma_grant -> [dma EXCEPT !.state = "READING"]
           [] dma.state \in {"READING", "WRITING"} /\ access_timeout -> Stopped
           [] dma.state = "READING" /\ ~access_timeout /\ fc_bus ->
                [dma EXCEPT !.data = data_bus, !.state = "WRITING", !.src = @ + dma.src_step]
           [] dma.state = "WRITING" /\ ~access_timeout /\ fc_bus -> Written
           [] OTHER -> dma
=============================================================================
