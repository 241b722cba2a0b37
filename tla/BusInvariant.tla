---------------------------- MODULE BusInvariant ----------------------------
(***************************************************************************)
(* The inductive invariant behind BusInv, ReturnsAtRest and RomCopyArrives *)
(* of BusSystem.  TLC can check it on the small instances; BusProofs       *)
(* proves it.                                                              *)
(***************************************************************************)
EXTENDS BusSystem

Mems == {"ROM", "RAM"}

\* The DMA wants the bus, or has it.
Busy == dma.state \in {"WAIT_BUS", "READING", "WRITING"}
OnBus == dma.state \in {"READING", "WRITING"}

\* The address it reads or writes.
DmaAddr == IF dma.state = "READING" THEN dma.src ELSE dma.dest

\* The registers are records.
MoreRegisters ==
  /\ cpu = [state |-> cpu.state, rd |-> cpu.rd, wr |-> cpu.wr, addr |-> cpu.addr,
            data |-> cpu.data]
  /\ wd = [state |-> wd.state, counter |-> wd.counter]
  /\ mem = [state |-> [m \in Mems |-> mem.state[m]], out |-> mem.out,
            ram |-> [a \in Ram |-> mem.ram[a]]]
  /\ drv = [pc |-> drv.pc, t |-> drv.t] /\ drv.t \in Transfers
  /\ ghost = [ram |-> ghost.ram, aborted |-> ghost.aborted]

Types ==
  /\ cbi.is_wr \in BOOLEAN /\ arb \in {"IDLE", "CPU", "DMA"}
  /\ \A m \in Mems : mem.state[m] \in {"IDLE", "DONE"}

-----------------------------------------------------------------------------
(* The processor, its interface and the DMA take turns *)

\* What the interface, and the DMA, may be doing at each state of the processor: a
\* transfer is over before the fetch it holds up is answered.
Turns ==
  \/ cpu.state = "RD_INST_REQ" /\ cbi.state = "WAITING_REQ" /\ dma.state \in {"IDLE", "READING"}
  \/ cpu.state = "RD_INST_WAIT" /\ cbi.state \in {"WAITING_REQ", "WAITING_BUS"}
       /\ dma.state \in {"IDLE", "READING", "WRITING"}
  \/ cpu.state = "RD_INST_WAIT" /\ cbi.state \in {"WAITING_ACK", "DONE"} /\ dma.state = "IDLE"
  \/ cpu.state = "DECODE_INST" /\ cbi.state = "DONE" /\ dma.state = "IDLE"
  \/ cpu.state = "EXEC_INST" /\ cbi.state = "WAITING_REQ" /\ dma.state = "IDLE"
  \/ cpu.state = "EXEC_INST_MEM_WAIT" /\ cbi.state \in {"WAITING_REQ", "WAITING_BUS"}
       /\ dma.state = "IDLE"
  \/ cpu.state = "EXEC_INST_MEM_WAIT" /\ cbi.state \in {"WAITING_ACK", "DONE"}
       /\ dma.state \in {"IDLE", "WAIT_ACK"}
  \/ cpu.state = "CHECK_EXC" /\ cbi.state = "DONE" /\ dma.state \in {"IDLE", "WAIT_BUS"}
  \/ cpu.state = "CHECK_EXC" /\ cbi.state = "WAITING_REQ" /\ dma.state = "IDLE"

\* The access the processor asks its interface for.
Asked == [load |-> cpu.rd, store |-> cpu.wr, addr |-> cpu.addr, data |-> cpu.data]

Asking ==
  /\ cpu.state = "RD_INST_WAIT" => cpu.rd = TRUE /\ cpu.wr = FALSE /\ cpu.addr = RomStart
  /\ cpu.state = "EXEC_INST_MEM_WAIT" => Asked \in Accesses
  /\ cpu.state \notin {"RD_INST_WAIT", "EXEC_INST_MEM_WAIT"} =>
       cpu.rd = FALSE /\ cpu.wr = FALSE

\* What the interface makes of it.
Serving ==
  /\ cbi.state # "WAITING_REQ" /\ (cpu.rd \/ cpu.wr) =>
       /\ cbi.mar = cpu.addr /\ cbi.is_wr = cpu.wr
       /\ cpu.wr => cbi.mdr = cpu.data
  /\ cbi.state # "DONE" => cbi.done = FALSE /\ cbi.timeout = FALSE
  /\ cbi.state = "DONE" => cbi.done \in BOOLEAN /\ cbi.timeout = ~cbi.done

-----------------------------------------------------------------------------
(* The driver and the DMA *)

Stores == {"src", "dest", "cnt", "ctrl"}

\* Has the driver stored the register of its step?
Stored(step) ==
  \/ drv.pc \in CASE step = "src" -> {"dest", "cnt", "ctrl"}
                  [] step = "dest" -> {"cnt", "ctrl"}
                  [] step = "cnt" -> {"ctrl"}
                  [] OTHER -> {}
  \/ drv.pc = step /\ dma.state = "WAIT_ACK"

\* Only dma_transfer stores registers, and only it is polling while the DMA works.
Driven ==
  /\ drv.pc \in Stores \union {"idle", "poll"}
  /\ Busy => drv.pc = "poll"
  /\ dma.state = "WAIT_ACK" => drv.pc \in Stores /\ cbi.timeout = FALSE
  /\ drv.pc \in Stores /\ cpu.state = "EXEC_INST_MEM_WAIT"
       /\ cbi.state \in {"WAITING_ACK", "DONE"} => dma.state = "WAIT_ACK"
  /\ dma.process_started = (dma.state = "WAIT_ACK" /\ drv.pc = "ctrl")
  /\ ghost.aborted => drv.pc \in {"idle", "poll"} /\ ~Busy

Programmed ==
  /\ Stored("src") => dma.src = drv.t.src
  /\ Stored("dest") => dma.dest = drv.t.dest
  /\ Stored("cnt") => dma.cnt = drv.t.count
  /\ Stored("ctrl") => dma.src_step = drv.t.src_step /\ dma.dest_step = drv.t.dest_step

\* How many bytes are written.
Copied == drv.t.count - dma.cnt

\* A transfer goes through its addresses in order.
Progress ==
  drv.pc = "poll" =>
    /\ dma.cnt \in 0 .. drv.t.count
    /\ Busy =>
         /\ dma.src_step = drv.t.src_step /\ dma.dest_step = drv.t.dest_step
         /\ dma.dest = At(drv.t.dest, drv.t.dest_step, Copied)
         /\ dma.src = At(drv.t.src, drv.t.src_step,
                         IF dma.state = "WRITING" THEN Copied + 1 ELSE Copied)

\* The count the driver is given is still the count.
Polled ==
  drv.pc = "poll" /\ cpu.state = "EXEC_INST_MEM_WAIT" /\ cbi.done => cbi.mdr = dma.cnt

\* Bytes change only where they should.
Changed ==
  /\ drv.pc \in Stores => mem.ram = ghost.ram
  /\ drv.pc = "poll" =>
       \A a \in Ram : mem.ram[a] # ghost.ram[a] =>
         \E j \in 0 .. drv.t.count : a = At(drv.t.dest, drv.t.dest_step, j)

\* What has been copied from the ROM is there, and the byte in hand is the next.
Arrived ==
  drv.pc = "poll" /\ FromRom(drv.t) =>
    /\ \A j \in 0 .. Copied - 1 :
         mem.ram[At(drv.t.dest, drv.t.dest_step, j)] = At(drv.t.src, drv.t.src_step, j)
    /\ dma.state = "WRITING" => dma.data = At(drv.t.src, drv.t.src_step, Copied)
    /\ dma.state = "READING" /\ mem.state["ROM"] = "DONE" =>
         mem.out["ROM"] = [i \in 0 .. Lanes - 1 |-> dma.src - (dma.src % Lanes) + i]

-----------------------------------------------------------------------------
(* The watchdog *)

\* Nobody answers the master on the bus.
Unanswered ==
  \/ dma.state = "READING" /\ dma.src \notin Answers
  \/ dma.state = "WRITING" /\ dma.dest \notin Rom \union Ram
  \/ cbi.state \in {"WAITING_BUS", "WAITING_ACK"} /\ ~OnBus /\ cbi.mar \notin Answers

\* A memory that is addressed has answered in the next cycle.
Ready ==
  /\ cbi.state = "WAITING_ACK" => \A m \in Mems : cbi.mar \in Bytes(m) => mem.state[m] = "DONE"
  /\ OnBus /\ wd.state = "COUNTING" /\ ~Unanswered /\ wd.counter > 3 =>
       \A m \in Mems : DmaAddr \in Bytes(m) => mem.state[m] = "DONE"

\* The watchdog may count between accesses, if the last answer came in the first
\* cycle of an access, but not beyond the next answer.
Counts ==
  CASE OnBus -> 4
    [] ~OnBus /\ cpu.state = "RD_INST_REQ" -> 5
    [] ~OnBus /\ cpu.state = "RD_INST_WAIT" ->
         (CASE cbi.state = "WAITING_REQ" -> 6 [] cbi.state = "WAITING_BUS" -> 7
            [] cbi.state = "WAITING_ACK" -> 8 [] cbi.state = "DONE" -> 1)
    [] ~OnBus /\ cpu.state = "DECODE_INST" -> 2
    [] ~OnBus /\ cpu.state = "EXEC_INST" -> 3
    [] ~OnBus /\ cpu.state = "EXEC_INST_MEM_WAIT" ->
         (CASE cbi.state = "WAITING_REQ" -> 4 [] cbi.state = "WAITING_BUS" -> 5
            [] cbi.state = "WAITING_ACK" -> 6 [] cbi.state = "DONE" -> 1)
    [] ~OnBus /\ cpu.state = "CHECK_EXC" -> IF cbi.state = "DONE" THEN 2 ELSE 4

Watching ==
  /\ wd.state \in {"IDLE", "COUNTING", "NOTIFYING"} /\ wd.counter \in 0 .. ALLOWED_CYCLES
  /\ wd.state = "IDLE" => wd.counter <= 1
  /\ wd.state = "COUNTING" => wd.counter <= Counts \/ Unanswered
  /\ wd.state = "NOTIFYING" =>
       \/ Unanswered
       \/ cpu.state = "EXEC_INST_MEM_WAIT" /\ cbi.state = "DONE" /\ cbi.mar \notin Answers
       \/ cpu.state \in {"RD_INST_REQ", "RD_INST_WAIT"} /\ ghost.aborted

\* Who was stopped deserved it.
Stops ==
  /\ ghost.aborted \in BOOLEAN
  /\ cbi.timeout => cbi.mar \notin Answers \/ ghost.aborted
  /\ ghost.aborted => dma.src \notin Rom \union Ram \/ dma.dest \notin Rom \union Ram

TurnsInv ==
  /\ GrantInv /\ MoreRegisters /\ Types /\ Turns /\ Asking /\ Serving
  /\ Driven /\ Programmed /\ Progress /\ Polled /\ Changed /\ Arrived
  /\ Ready /\ Watching /\ Stops
=============================================================================
