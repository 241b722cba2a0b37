------------------------------ MODULE BusSystem ------------------------------
(***************************************************************************)
(* The bus with its two masters at work: the processor (CPU.v), which      *)
(* fetches an instruction, runs it and accesses memory if the instruction  *)
(* says so, and the DMA, driven by the program dma_transfer (dma.c).       *)
(***************************************************************************)
EXTENDS Bus

CONSTANTS
  Transfers,   \* the calls of dma_transfer: src, dest, count and the two steps
  Values,      \* the bytes programs store
  Targets      \* the addresses programs access

ASSUME BusSystemAssumption ==
  /\ Transfers \subseteq [src : Nat, dest : Nat, count : Nat \ {0},
                          src_step : {-1, 0, 1}, dest_step : {-1, 0, 1}]
  /\ Targets \subseteq Nat \ DmaRegs /\ Values \subseteq Nat

VARIABLES
  drv,     \* dma_transfer: its next access, its arguments
  ghost    \* the RAM when the transfer began, and whether the watchdog stopped
           \* the DMA in it (not in the code)

bus_vars == <<cpu, cbi, arb, wd, mem, dma, drv, ghost>>

NoAccess == [load |-> FALSE, store |-> FALSE, addr |-> 0, data |-> 0]
Load(a) == [load |-> TRUE, store |-> FALSE, addr |-> a, data |-> 0]
Store(a, v) == [load |-> FALSE, store |-> TRUE, addr |-> a, data |-> v]

BusInit ==
  /\ cpu = [state |-> "RD_INST_REQ", rd |-> FALSE, wr |-> FALSE, addr |-> RomStart, data |-> 0]
  /\ cbi = [state |-> "WAITING_REQ", bus_req |-> FALSE, mar |-> 0, mdr |-> 0,
            is_wr |-> FALSE, done |-> FALSE, timeout |-> FALSE]
  /\ arb = "IDLE"
  /\ wd = [state |-> "IDLE", counter |-> 0]
  /\ mem = [state |-> [m \in {"ROM", "RAM"} |-> "IDLE"],
            out |-> [m \in {"ROM", "RAM"} |-> [i \in 0 .. Lanes - 1 |-> 0]],
            ram |-> [a \in Ram |-> 0]]
  /\ dma = [state |-> "IDLE", bus_req |-> FALSE, process_started |-> FALSE, src |-> 0,
            dest |-> 0, cnt |-> 0, src_step |-> 0, dest_step |-> 0, data |-> 0]
  /\ \E t \in Transfers : drv = [pc |-> "idle", t |-> t]
  /\ ghost = [ram |-> mem.ram, aborted |-> FALSE]

-----------------------------------------------------------------------------
(* dma_transfer: four stores, then loads of cnt until it is 0 *)

DriverAccess ==
  CASE drv.pc = "src" -> Store(DmaStart + 1, drv.t.src)
    [] drv.pc = "dest" -> Store(DmaStart + 2, drv.t.dest)
    [] drv.pc = "cnt" -> Store(DmaStart + 3, drv.t.count)
    [] drv.pc = "ctrl" -> Store(DmaStart, [src_step |-> drv.t.src_step,
                                           dest_step |-> drv.t.dest_step])
    [] drv.pc = "poll" -> Load(DmaStart + 3)

\* The program at hand accesses memory, or the driver the DMA.
Accesses ==
  IF drv.pc = "idle"
  THEN {Load(a) : a \in Targets} \union {Store(a, v) : a \in Targets, v \in Values}
  ELSE {DriverAccess}

MemoryFault == cpu.state \in {"EXEC_INST_MEM_WAIT", "RD_INST_WAIT"} /\ cbi.timeout
AccessDone == cpu.state = "EXEC_INST_MEM_WAIT" /\ ~cbi.timeout /\ cbi.done

\* A fault ends the thread, unless it handles the signal; the driver then goes on.
Driver ==
  /\ \/ /\ drv.pc = "idle" /\ cpu.state = "CHECK_EXC"
        /\ \E t \in Transfers : drv' = [pc |-> "src", t |-> t]
     \/ /\ MemoryFault
        /\ drv' = [drv EXCEPT !.pc = "idle"]
     \/ drv' = [drv EXCEPT !.pc =
                  CASE AccessDone /\ @ = "src" -> "dest"
                    [] AccessDone /\ @ = "dest" -> "cnt"
                    [] AccessDone /\ @ = "cnt" -> "ctrl"
                    [] AccessDone /\ @ = "ctrl" -> "poll"
                    [] AccessDone /\ @ = "poll" /\ cbi.mdr = 0 -> "idle"
                    [] OTHER -> @]
  /\ ghost' = CASE drv.pc = "idle" /\ drv'.pc = "src" -> [ram |-> mem.ram, aborted |-> FALSE]
                [] dma.state \in {"READING", "WRITING"} /\ access_timeout ->
                     [ghost EXCEPT !.aborted = TRUE]
                [] OTHER -> ghost

-----------------------------------------------------------------------------
(* The processor: i is the access of the instruction it executes *)

\* A fetch does not wait for its answer to be taken back.
processor(i) ==
  cpu' = CASE cpu.state = "RD_INST_REQ" ->
                [cpu EXCEPT !.state = "RD_INST_WAIT", !.rd = TRUE, !.addr = RomStart]
           [] cpu.state = "RD_INST_WAIT" /\ cbi.timeout ->
                [cpu EXCEPT !.state = "CHECK_EXC", !.rd = FALSE]
           [] cpu.state = "RD_INST_WAIT" /\ ~cbi.timeout /\ cbi.done ->
                [cpu EXCEPT !.state = "DECODE_INST", !.rd = FALSE]
           [] cpu.state = "DECODE_INST" -> [cpu EXCEPT !.state = "EXEC_INST"]
           [] cpu.state = "EXEC_INST" /\ (i.load \/ i.store) ->
                [state |-> "EXEC_INST_MEM_WAIT", rd |-> i.load, wr |-> i.store,
                 addr |-> i.addr, data |-> i.data]
           [] cpu.state = "EXEC_INST" /\ ~i.load /\ ~i.store -> [cpu EXCEPT !.state = "CHECK_EXC"]
           [] cpu.state = "EXEC_INST_MEM_WAIT" /\ (cbi.timeout \/ cbi.done) ->
                [cpu EXCEPT !.state = "CHECK_EXC", !.rd = FALSE, !.wr = FALSE]
           [] cpu.state = "CHECK_EXC" -> [cpu EXCEPT !.state = "RD_INST_REQ"]
           [] OTHER -> cpu

Clock(i) ==
  /\ processor(i) /\ cpu_bus_interface /\ bus_arbitrator /\ watchdog /\ memory /\ dma_on_clock
  /\ Driver

Edge == Clock(NoAccess)

Access == cpu.state = "EXEC_INST" /\ \E i \in Accesses : Clock(i)

BusNext == Edge \/ Access

\* The clock ticks, and a program that means to access memory does.
BusSpec ==
  BusInit /\ [][BusNext]_bus_vars /\ WF_bus_vars(BusNext) /\ SF_bus_vars(Access)

-----------------------------------------------------------------------------
(* Properties *)

CpuStates == {"RD_INST_REQ", "RD_INST_WAIT", "DECODE_INST", "EXEC_INST",
              "EXEC_INST_MEM_WAIT", "CHECK_EXC"}
DmaStates == {"IDLE", "WAIT_ACK", "WAIT_BUS", "READING", "WRITING"}

BusTypeOK ==
  /\ cpu.state \in CpuStates /\ cpu.rd \in BOOLEAN /\ cpu.wr \in BOOLEAN
  /\ cbi.state \in {"WAITING_REQ", "WAITING_BUS", "WAITING_ACK", "DONE"}
  /\ cbi.bus_req \in BOOLEAN /\ cbi.is_wr \in BOOLEAN
  /\ cbi.done \in BOOLEAN /\ cbi.timeout \in BOOLEAN
  /\ arb \in {"IDLE", "CPU", "DMA"}
  /\ wd.state \in {"IDLE", "COUNTING", "NOTIFYING"} /\ wd.counter \in 0 .. ALLOWED_CYCLES
  /\ mem.state \in [{"ROM", "RAM"} -> {"IDLE", "DONE"}]
  /\ dma.state \in DmaStates /\ dma.bus_req \in BOOLEAN /\ dma.process_started \in BOOLEAN
  /\ drv.pc \in {"idle", "src", "dest", "cnt", "ctrl", "poll"} /\ ghost.aborted \in BOOLEAN

\* A master in the middle of an access has the bus for itself (Arbitrator.sv:14
\* decides anew in every cycle).
GrantHeld ==
  /\ cbi.state = "WAITING_ACK" => cpu_grant /\ ~dma_grant
  /\ dma.state \in {"READING", "WRITING"} => dma_grant /\ ~cpu_grant

\* A load of the processor brings the byte that is in memory, a store leaves its
\* byte there (Memory/BusInterface.sv:28: the data is registered, the answer is
\* not tied to the address it was asked for).
AccessIsExact ==
  [][cbi.state = "WAITING_ACK" /\ cbi'.done =>
       /\ ~cbi.is_wr /\ cbi.mar \in Rom \union Ram => cbi'.mdr = byte(cbi.mar)
       /\ cbi.is_wr /\ cbi.mar \in Ram => mem'.ram[cbi.mar] = cbi.mdr]_bus_vars

\* The watchdog stops an access only if nobody answers it; the processor may also
\* be stopped, wrongly, right after the DMA (Watchdog.v:44: the signal stays
\* while the bus is in use, whoever uses it).
TimeoutsDeserved ==
  /\ cbi.timeout => cbi.mar \notin Answers \/ ghost.aborted
  /\ ghost.aborted => dma.src \notin Rom \union Ram \/ dma.dest \notin Rom \union Ram

\* dma_transfer returns only when the DMA is at rest (dma.c:28 sees cnt = 0, which
\* is true a byte too early).
ReturnsAtRest ==
  [][drv.pc = "poll" /\ drv'.pc = "idle" /\ cbi.done =>
       dma.state = "IDLE" /\ ~dma.bus_req]_bus_vars

At(a, step, k) == a + step * k
Within(t) ==
  \A k \in 0 .. t.count :
    At(t.src, t.src_step, k) \in Rom \union Ram /\ At(t.dest, t.dest_step, k) \in Ram
\* Copies to bytes of their own.
FromRom(t) ==
  /\ Within(t) /\ \A k \in 0 .. t.count : At(t.src, t.src_step, k) \in Rom
  /\ t.dest_step # 0

\* What is copied from the ROM arrives (thread.c:30 copies .tdata).
RomCopyArrives ==
  [][drv.pc = "poll" /\ drv'.pc = "idle" /\ cbi.done /\ FromRom(drv.t) =>
       \A k \in 0 .. drv.t.count - 1 :
         mem.ram[At(drv.t.dest, drv.t.dest_step, k)] = At(drv.t.src, drv.t.src_step, k)]_bus_vars

\* A transfer changes the bytes it was asked to and at most one more
\* (DMA.sv:159 tests the count after the byte is written).
OneByteMore ==
  drv.pc = "poll" =>
    \A a \in Ram : mem.ram[a] # ghost.ram[a] =>
      \E k \in 0 .. drv.t.count : a = At(drv.t.dest, drv.t.dest_step, k)

\* Accesses are stopped, and bytes changed, only as these parts say.
BusInv == BusTypeOK /\ TimeoutsDeserved /\ OneByteMore

\* Every access of the processor comes to an end.
AccessEnds == cbi.bus_req ~> ~cbi.bus_req

\* A transfer within memory ends, and its driver returns.
TransferEnds == (drv.pc = "poll" /\ Within(drv.t)) ~> drv.pc = "idle"

\* A copy changes what it is asked to and nothing else.
CopyIsExact ==
  [][drv.pc = "poll" /\ drv'.pc = "idle" /\ cbi.done =>
       /\ \A k \in 0 .. drv.t.count - 1 :
            mem.ram[At(drv.t.dest, drv.t.dest_step, k)]
              = LET a == At(drv.t.src, drv.t.src_step, k)
                IN  IF a \in Ram THEN ghost.ram[a] ELSE a
       /\ \A a \in Ram : mem.ram[a] # ghost.ram[a] =>
            \E k \in 0 .. drv.t.count - 1 : a = At(drv.t.dest, drv.t.dest_step, k)]_bus_vars

-----------------------------------------------------------------------------
(* The inductive invariant of GrantHeld *)

\* A master that asks for the bus is waiting for it or using it.
Requests ==
  /\ cbi.bus_req \in BOOLEAN /\ dma.bus_req \in BOOLEAN
  /\ cbi.bus_req <=> cbi.state \in {"WAITING_BUS", "WAITING_ACK"}
  /\ dma.bus_req <=> dma.state \in {"WAIT_BUS", "READING", "WRITING"}

\* The arbiter knows who uses it.
Holders ==
  /\ cbi.state = "WAITING_ACK" => arb = "CPU"
  /\ dma.state \in {"READING", "WRITING"} => arb = "DMA"

\* The registers are records.
Registers ==
  /\ cbi = [state |-> cbi.state, bus_req |-> cbi.bus_req, mar |-> cbi.mar, mdr |-> cbi.mdr,
            is_wr |-> cbi.is_wr, done |-> cbi.done, timeout |-> cbi.timeout]
  /\ dma = [state |-> dma.state, bus_req |-> dma.bus_req,
            process_started |-> dma.process_started, src |-> dma.src, dest |-> dma.dest,
            cnt |-> dma.cnt, src_step |-> dma.src_step, dest_step |-> dma.dest_step,
            data |-> dma.data]

GrantInv == Registers /\ Requests /\ Holders
=============================================================================
