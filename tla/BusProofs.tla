------------------------------ MODULE BusProofs ------------------------------
(***************************************************************************)
(* Theorems about BusSystem.                                               *)
(***************************************************************************)
EXTENDS BusInvariant, TLAPS

CbiRegisters ==
  cbi = [state |-> cbi.state, bus_req |-> cbi.bus_req, mar |-> cbi.mar, mdr |-> cbi.mdr,
         is_wr |-> cbi.is_wr, done |-> cbi.done, timeout |-> cbi.timeout]

DmaRegisters ==
  dma = [state |-> dma.state, bus_req |-> dma.bus_req,
         process_started |-> dma.process_started, src |-> dma.src, dest |-> dma.dest,
         cnt |-> dma.cnt, src_step |-> dma.src_step, dest_step |-> dma.dest_step,
         data |-> dma.data]

LEMMA GrantInit == BusInit => GrantInv
  <1> SUFFICES ASSUME BusInit PROVE GrantInv
    OBVIOUS
  <1>1. /\ cbi.state = "WAITING_REQ" /\ cbi.bus_req = FALSE
        /\ dma.state = "IDLE" /\ dma.bus_req = FALSE
    BY DEF BusInit
  <1>2. Requests /\ Holders
    BY <1>1 DEF Requests, Holders
  <1>3. Registers
    BY DEF BusInit, Registers
  <1> QED BY <1>2, <1>3 DEF GrantInv

\* The registers of the processor's interface after an edge.
LEMMA CbiStep ==
  ASSUME CbiRegisters, cbi.bus_req \in BOOLEAN,
         cbi.bus_req <=> cbi.state \in {"WAITING_BUS", "WAITING_ACK"},
         cpu_bus_interface
  PROVE  /\ CbiRegisters'
         /\ cbi'.bus_req \in BOOLEAN
         /\ (cbi'.bus_req <=> cbi'.state \in {"WAITING_BUS", "WAITING_ACK"})
         /\ cbi'.state = "WAITING_ACK" =>
              /\ (cbi.state = "WAITING_BUS" /\ cpu_grant) \/ cbi.state = "WAITING_ACK"
              /\ cbi'.mar = cbi.mar /\ cbi'.is_wr = cbi.is_wr
  <1> DEFINE Q(c) == /\ c = [state |-> c.state, bus_req |-> c.bus_req, mar |-> c.mar,
                             mdr |-> c.mdr, is_wr |-> c.is_wr, done |-> c.done,
                             timeout |-> c.timeout]
                     /\ c.bus_req \in BOOLEAN
                     /\ (c.bus_req <=> c.state \in {"WAITING_BUS", "WAITING_ACK"})
  <1>1. Q(cbi)
    BY DEF CbiRegisters
  <1>2. CASE cbi.state = "WAITING_REQ" /\ (cpu.rd \/ cpu.wr)
    <2>1. cbi' = [cbi EXCEPT !.state = "WAITING_BUS", !.bus_req = TRUE, !.mar = cpu.addr,
                             !.mdr = IF cpu.wr THEN cpu.data ELSE @, !.is_wr = cpu.wr]
      BY <1>2 DEF cpu_bus_interface
    <2>2. Q(cbi') /\ cbi'.state = "WAITING_BUS"
      BY <1>1, <2>1
    <2> QED BY <2>2 DEF CbiRegisters
  <1>3. CASE cbi.state = "WAITING_BUS" /\ cpu_grant
    <2>1. cbi' = [cbi EXCEPT !.state = "WAITING_ACK"]
      BY <1>3 DEF cpu_bus_interface
    <2>2. Q(cbi') /\ cbi'.mar = cbi.mar /\ cbi'.is_wr = cbi.is_wr
      BY <1>1, <1>3, <2>1
    <2> QED BY <1>3, <2>2 DEF CbiRegisters
  <1>4. CASE cbi.state = "WAITING_ACK" /\ access_timeout
    <2>1. cbi' = [cbi EXCEPT !.state = "DONE", !.timeout = TRUE, !.bus_req = FALSE]
      BY <1>4 DEF cpu_bus_interface
    <2>2. Q(cbi') /\ cbi'.state = "DONE"
      BY <1>1, <2>1
    <2> QED BY <2>2 DEF CbiRegisters
  <1>5. CASE cbi.state = "WAITING_ACK" /\ ~access_timeout /\ fc_bus
    <2>1. PICK v : cbi' = [cbi EXCEPT !.state = "DONE", !.done = TRUE, !.bus_req = FALSE,
                                      !.mdr = v]
      BY <1>5 DEF cpu_bus_interface
    <2>2. Q(cbi') /\ cbi'.state = "DONE"
      BY <1>1, <2>1
    <2> QED BY <2>2 DEF CbiRegisters
  <1>6. CASE cbi.state = "DONE" /\ ~cpu.rd /\ ~cpu.wr
    <2>1. cbi' = [cbi EXCEPT !.state = "WAITING_REQ", !.done = FALSE, !.timeout = FALSE]
      BY <1>6 DEF cpu_bus_interface
    <2>2. Q(cbi') /\ cbi'.state = "WAITING_REQ"
      BY <1>1, <1>6, <2>1
    <2> QED BY <2>2 DEF CbiRegisters
  <1>7. CASE cbi' = cbi
    BY <1>1, <1>7 DEF CbiRegisters
  <1> QED BY <1>2, <1>3, <1>4, <1>5, <1>6, <1>7 DEF cpu_bus_interface

\* The registers of the DMA after an edge.
LEMMA DmaStep ==
  ASSUME DmaRegisters, dma.bus_req \in BOOLEAN,
         dma.bus_req <=> dma.state \in {"WAIT_BUS", "READING", "WRITING"},
         dma_on_clock
  PROVE  /\ DmaRegisters'
         /\ dma'.bus_req \in BOOLEAN
         /\ (dma'.bus_req <=> dma'.state \in {"WAIT_BUS", "READING", "WRITING"})
         /\ dma'.state \in {"READING", "WRITING"} =>
              \/ dma.state = "WAIT_BUS" /\ dma_grant
              \/ dma.state \in {"READING", "WRITING"}
  <1> DEFINE Q(d) == /\ d = [state |-> d.state, bus_req |-> d.bus_req,
                             process_started |-> d.process_started, src |-> d.src,
                             dest |-> d.dest, cnt |-> d.cnt, src_step |-> d.src_step,
                             dest_step |-> d.dest_step, data |-> d.data]
                     /\ d.bus_req \in BOOLEAN
                     /\ (d.bus_req <=> d.state \in {"WAIT_BUS", "READING", "WRITING"})
  <1>1. Q(dma)
    BY DEF DmaRegisters
  <1>2. CASE dma.state = "IDLE" /\ write_req
    <2> PICK i, v : i = addr_bus - DmaStart /\ v = data_bus
      OBVIOUS
    <2>0. i \in {0, 1, 2, 3}
      <3>1. DmaStart \in Nat /\ addr_bus \in DmaStart .. DmaStart + 3
        BY <1>2, BusAssumption DEF write_req, addr_hit, DmaRegs
      <3> QED BY <3>1
    <2>1. dma' = WriteRegister(i, v)
      BY <1>2 DEF dma_on_clock
    <2> DEFINE d == [dma EXCEPT !.state = "WAIT_ACK"]
    <2>2. Q(d) /\ d.state = "WAIT_ACK"
      BY <1>1, <1>2
    <2>3. CASE i = 0
      <3>1. dma' = [d EXCEPT !.src_step = v.src_step, !.dest_step = v.dest_step,
                             !.process_started = TRUE]
        BY <2>1, <2>3 DEF WriteRegister
      <3> HIDE DEF d
      <3>2. Q(dma') /\ dma'.state = "WAIT_ACK"
        BY <2>2, <3>1
      <3> QED BY <3>2 DEF DmaRegisters
    <2>4. CASE i = 1
      <3>1. dma' = [d EXCEPT !.src = v]
        BY <2>1, <2>4 DEF WriteRegister
      <3> HIDE DEF d
      <3>2. Q(dma') /\ dma'.state = "WAIT_ACK"
        BY <2>2, <3>1
      <3> QED BY <3>2 DEF DmaRegisters
    <2>5. CASE i = 2
      <3>1. dma' = [d EXCEPT !.dest = v]
        BY <2>1, <2>5 DEF WriteRegister
      <3> HIDE DEF d
      <3>2. Q(dma') /\ dma'.state = "WAIT_ACK"
        BY <2>2, <3>1
      <3> QED BY <3>2 DEF DmaRegisters
    <2>6. CASE i = 3
      <3>1. dma' = [d EXCEPT !.cnt = v]
        BY <2>1, <2>6 DEF WriteRegister
      <3> HIDE DEF d
      <3>2. Q(dma') /\ dma'.state = "WAIT_ACK"
        BY <2>2, <3>1
      <3> QED BY <3>2 DEF DmaRegisters
    <2> QED BY <2>0, <2>3, <2>4, <2>5, <2>6
  <1>3. CASE dma.state = "WAIT_ACK" /\ ~addr_hit
    <2> PICK starts : starts = (dma.process_started /\ dma.cnt # 0)
      OBVIOUS
    <2>1. dma' = [dma EXCEPT !.state = IF starts THEN "WAIT_BUS" ELSE "IDLE",
                             !.bus_req = starts, !.process_started = FALSE]
      BY <1>3 DEF dma_on_clock, Acknowledged
    <2>2. CASE starts
      <3>1. Q(dma') /\ dma'.state = "WAIT_BUS"
        BY <1>1, <2>1, <2>2
      <3> QED BY <3>1 DEF DmaRegisters
    <2>3. CASE ~starts
      <3>1. Q(dma') /\ dma'.state = "IDLE"
        BY <1>1, <2>1, <2>3
      <3> QED BY <3>1 DEF DmaRegisters
    <2> QED BY <2>2, <2>3
  <1>4. CASE dma.state = "WAIT_BUS" /\ dma_grant
    <2>1. dma' = [dma EXCEPT !.state = "READING"]
      BY <1>4 DEF dma_on_clock
    <2>2. Q(dma')
      BY <1>1, <1>4, <2>1
    <2> QED BY <1>4, <2>2 DEF DmaRegisters
  <1>5. CASE dma.state \in {"READING", "WRITING"} /\ access_timeout
    <2>1. dma' = [dma EXCEPT !.bus_req = FALSE, !.state = "IDLE"]
      BY <1>5 DEF dma_on_clock, Stopped
    <2>2. Q(dma') /\ dma'.state = "IDLE"
      BY <1>1, <2>1
    <2> QED BY <2>2 DEF DmaRegisters
  <1>6. CASE dma.state = "READING" /\ ~access_timeout /\ fc_bus
    <2> PICK v : v = data_bus
      OBVIOUS
    <2>1. dma' = [dma EXCEPT !.data = v, !.state = "WRITING", !.src = @ + dma.src_step]
      BY <1>6 DEF dma_on_clock
    <2>2. Q(dma')
      BY <1>1, <1>6, <2>1
    <2> QED BY <1>6, <2>2 DEF DmaRegisters
  <1>7. CASE dma.state = "WRITING" /\ ~access_timeout /\ fc_bus
    <2>1. dma' = Written
      BY <1>7 DEF dma_on_clock
    <2> DEFINE d == [dma EXCEPT !.dest = @ + dma.dest_step]
    <2>2. Q(d)
      BY <1>1, <1>7
    <2>a. d.state = "WRITING"
      BY <1>1, <1>7
    <2>3. CASE dma.cnt # 0
      <3>1. dma' = [d EXCEPT !.cnt = @ - 1, !.state = "READING"]
        BY <2>1, <2>3 DEF Written
      <3> HIDE DEF d
      <3>2. Q(dma')
        BY <2>2, <2>a, <3>1
      <3> QED BY <1>7, <3>2 DEF DmaRegisters
    <2>4. CASE dma.cnt = 0
      <3>1. dma' = [d EXCEPT !.bus_req = FALSE, !.state = "IDLE"]
        BY <2>1, <2>4 DEF Written
      <3> HIDE DEF d
      <3>2. Q(dma') /\ dma'.state = "IDLE"
        BY <2>2, <3>1
      <3> QED BY <3>2 DEF DmaRegisters
    <2> QED BY <2>3, <2>4
  <1>8. CASE dma' = dma
    BY <1>1, <1>8 DEF DmaRegisters
  <1> QED BY <1>2, <1>3, <1>4, <1>5, <1>6, <1>7, <1>8 DEF dma_on_clock

\* The arbiter gives the bus to whom it is granted, and leaves it with who uses it.
LEMMA ArbStep ==
  ASSUME Requests, Holders, bus_arbitrator
  PROVE  /\ (cbi.state = "WAITING_BUS" /\ cpu_grant) \/ cbi.state = "WAITING_ACK"
              => arb' = "CPU"
         /\ (dma.state = "WAIT_BUS" /\ dma_grant) \/ dma.state \in {"READING", "WRITING"}
              => arb' = "DMA"
  BY DEF Requests, Holders, bus_arbitrator, cpu_grant, dma_grant, cpu_req, dma_req

LEMMA GrantStep ==
  ASSUME GrantInv, [BusNext]_bus_vars
  PROVE  GrantInv'
  <1>0. CbiRegisters /\ DmaRegisters /\ Requests /\ Holders
    BY DEF GrantInv, Registers, CbiRegisters, DmaRegisters
  <1>1. CASE cpu_bus_interface /\ bus_arbitrator /\ dma_on_clock
    <2>1. /\ CbiRegisters'
          /\ cbi'.bus_req \in BOOLEAN
          /\ (cbi'.bus_req <=> cbi'.state \in {"WAITING_BUS", "WAITING_ACK"})
          /\ cbi'.state = "WAITING_ACK" =>
               (cbi.state = "WAITING_BUS" /\ cpu_grant) \/ cbi.state = "WAITING_ACK"
      BY <1>0, <1>1, CbiStep DEF Requests
    <2>2. /\ DmaRegisters'
          /\ dma'.bus_req \in BOOLEAN
          /\ (dma'.bus_req <=> dma'.state \in {"WAIT_BUS", "READING", "WRITING"})
          /\ dma'.state \in {"READING", "WRITING"} =>
               (dma.state = "WAIT_BUS" /\ dma_grant) \/ dma.state \in {"READING", "WRITING"}
      BY <1>0, <1>1, DmaStep DEF Requests
    <2>3. Requests' /\ Holders'
      BY <1>0, <1>1, <2>1, <2>2, ArbStep DEF Requests, Holders
    <2> QED BY <2>1, <2>2, <2>3 DEF GrantInv, Registers, CbiRegisters, DmaRegisters
  <1>2. CASE UNCHANGED bus_vars
    BY <1>2 DEF bus_vars, GrantInv, Requests, Holders, Registers
  <1> QED BY <1>1, <1>2 DEF BusNext, Edge, Access, Clock

\* Neither master loses the bus in the middle of an access, nor shares it.
THEOREM BusGrantHeld == BusSpec => []GrantHeld
  <1>1. BusInit => GrantInv
    BY GrantInit
  <1>2. GrantInv /\ [BusNext]_bus_vars => GrantInv'
    BY GrantStep
  <1>3. GrantInv => GrantHeld
    BY DEF GrantInv, Requests, Holders, GrantHeld, cpu_grant, dma_grant, cpu_req, dma_req
  <1> QED BY <1>1, <1>2, <1>3, PTL DEF BusSpec

-----------------------------------------------------------------------------
(* The memories answer with the word that is at the address *)

\* The aligned word that holds the byte at a.
word(a) == [i \in 0 .. Lanes - 1 |-> byte(a - (a % Lanes) + i)]

MemRegisters ==
  mem = [state |-> mem.state, out |-> mem.out, ram |-> [a \in Ram |-> mem.ram[a]]]

\* While the processor waits for the answer to a load, what the memory holds ready
\* is the word it asked for, as it is now.
WordReady ==
  cbi.state = "WAITING_ACK" /\ ~cbi.is_wr =>
    \A m \in Mems : cbi.mar \in Bytes(m) => mem.out[m] = word(cbi.mar)

\* Only an access that is over is done.
DoneAtTheEnd == cbi.done => cbi.state = "DONE"

AccessInv == GrantInv /\ MemRegisters /\ WordReady /\ DoneAtTheEnd

\* A byte is in its aligned word.
LEMMA ByteOfWord ==
  ASSUME NEW a \in Rom \union Ram
  PROVE  word(a)[a % Lanes] = byte(a)
  <1>1. a \in Int /\ Lanes \in Int /\ Lanes > 0
    BY BusAssumption DEF Rom, Ram
  <1>2. a % Lanes \in 0 .. Lanes - 1
    BY <1>1
  <1>3. a - (a % Lanes) + (a % Lanes) = a
    BY <1>1, <1>2
  <1> QED BY <1>2, <1>3 DEF word

\* What is on the bus while the processor has it.
LEMMA CpuHasTheBus ==
  ASSUME cpu_grant
  PROVE  /\ ~dma_grant /\ addr_bus = cbi.mar
         /\ wr_bus <=> cbi.is_wr
         /\ rd_bus <=> ~cbi.is_wr
         /\ cbi.is_wr => data_bus = cbi.mdr
  <1>1. ~dma_grant
    BY DEF cpu_grant, dma_grant
  <1>2. addr_bus = cbi.mar
    BY <1>1 DEF addr_bus
  <1>3. (wr_bus <=> cbi.is_wr) /\ (rd_bus <=> ~cbi.is_wr)
    BY <1>1 DEF wr_bus, rd_bus
  <1>4. cbi.is_wr => data_bus = cbi.mdr
    BY <1>3 DEF data_bus
  <1> QED BY <1>1, <1>2, <1>3, <1>4

\* How an access ends.
LEMMA CbiDone ==
  ASSUME CbiRegisters, DoneAtTheEnd, cpu_bus_interface
  PROVE  /\ DoneAtTheEnd'
         /\ cbi.state = "WAITING_ACK" /\ cbi'.done =>
              fc_bus /\ cbi'.mdr = IF cbi.is_wr THEN cbi.mdr ELSE data_bus
  <1>1. CASE cbi.state = "WAITING_REQ" /\ (cpu.rd \/ cpu.wr)
    BY <1>1 DEF cpu_bus_interface, CbiRegisters, DoneAtTheEnd
  <1>2. CASE cbi.state = "WAITING_BUS" /\ cpu_grant
    BY <1>2 DEF cpu_bus_interface, CbiRegisters, DoneAtTheEnd
  <1>3. CASE cbi.state = "WAITING_ACK" /\ access_timeout
    BY <1>3 DEF cpu_bus_interface, CbiRegisters, DoneAtTheEnd
  <1>4. CASE cbi.state = "WAITING_ACK" /\ ~access_timeout /\ fc_bus
    <2> PICK v : v = data_bus
      OBVIOUS
    <2>1. cbi' = [cbi EXCEPT !.state = "DONE", !.done = TRUE, !.bus_req = FALSE,
                             !.mdr = IF cbi.is_wr THEN @ ELSE v]
      BY <1>4 DEF cpu_bus_interface
    <2>2. /\ cbi'.state = "DONE"
          /\ cbi'.mdr = IF cbi.is_wr THEN cbi.mdr ELSE v
      BY <2>1 DEF CbiRegisters
    <2> QED BY <1>4, <2>2 DEF DoneAtTheEnd
  <1>5. CASE cbi.state = "DONE" /\ ~cpu.rd /\ ~cpu.wr
    BY <1>5 DEF cpu_bus_interface, CbiRegisters, DoneAtTheEnd
  <1>6. CASE cbi' = cbi /\ ~(cbi.state = "WAITING_ACK" /\ ~access_timeout /\ fc_bus)
    BY <1>6 DEF DoneAtTheEnd
  <1> QED BY <1>1, <1>2, <1>3, <1>4, <1>5, <1>6 DEF cpu_bus_interface

LEMMA AccessInit == BusInit => AccessInv
  <1> SUFFICES ASSUME BusInit PROVE AccessInv
    OBVIOUS
  <1>1. cbi.state = "WAITING_REQ" /\ cbi.done = FALSE
    BY DEF BusInit
  <1>2. MemRegisters
    BY DEF BusInit, MemRegisters
  <1> QED BY <1>1, <1>2, GrantInit DEF AccessInv, WordReady, DoneAtTheEnd

LEMMA AccessStep ==
  ASSUME AccessInv, [BusNext]_bus_vars
  PROVE  AccessInv'
  <1>0. GrantInv /\ MemRegisters /\ WordReady /\ DoneAtTheEnd
    BY DEF AccessInv
  <1>1. GrantInv'
    BY <1>0, GrantStep
  <1>2. CASE cpu_bus_interface /\ memory
    <2>1. MemRegisters'
      BY <1>2 DEF memory, MemRegisters
    <2>2. ASSUME cbi'.state = "WAITING_ACK", ~cbi'.is_wr,
                 NEW m \in Mems, cbi'.mar \in Bytes(m)
          PROVE  mem'.out[m] = word(cbi.mar)'
      <3>1. /\ (cbi.state = "WAITING_BUS" /\ cpu_grant) \/ cbi.state = "WAITING_ACK"
            /\ cbi'.mar = cbi.mar /\ cbi'.is_wr = cbi.is_wr
        BY <1>0, <1>2, <2>2, CbiStep DEF GrantInv, Registers, CbiRegisters, Requests
      <3>2. cpu_grant
        BY <1>0, <3>1 DEF GrantInv, Requests, Holders, cpu_grant, cpu_req, dma_req
      <3>3. addr_bus = cbi.mar /\ ~wr_bus
        BY <2>2, <3>1, <3>2, CpuHasTheBus
      <3>4. mem'.ram = mem.ram
        BY <1>0, <1>2, <3>3 DEF memory, MemRegisters
      <3>5. word(cbi.mar)' = word(cbi.mar)
        BY <3>1, <3>4 DEF word, byte
      <3>6. mem'.out[m] = word(cbi.mar)
        BY <1>2, <2>2, <3>1, <3>3 DEF memory, word, Mems
      <3> QED BY <3>5, <3>6
    <2>3. WordReady'
      BY <2>2 DEF WordReady, Bytes
    <2>4. DoneAtTheEnd'
      BY <1>0, <1>2, CbiDone DEF GrantInv, Registers, CbiRegisters
    <2> QED BY <1>1, <2>1, <2>3, <2>4 DEF AccessInv
  <1>3. CASE UNCHANGED bus_vars
    BY <1>0, <1>1, <1>3 DEF AccessInv, MemRegisters, WordReady, DoneAtTheEnd, bus_vars, word, byte,
       Bytes
  <1> QED BY <1>2, <1>3 DEF BusNext, Edge, Access, Clock

\* The answer the processor takes is the one to its access.
LEMMA AccessAnswered ==
  ASSUME AccessInv, cpu_bus_interface, memory, cbi.state = "WAITING_ACK", cbi'.done
  PROVE  /\ ~cbi.is_wr /\ cbi.mar \in Rom \union Ram => cbi'.mdr = byte(cbi.mar)
         /\ cbi.is_wr /\ cbi.mar \in Ram => mem'.ram[cbi.mar] = cbi.mdr
  <1>0. GrantInv /\ WordReady /\ DoneAtTheEnd
    BY DEF AccessInv
  <1>1. cpu_grant
    BY <1>0 DEF GrantInv, Requests, Holders, cpu_grant, cpu_req, dma_req
  <1>2. /\ ~dma_grant /\ addr_bus = cbi.mar
        /\ wr_bus <=> cbi.is_wr
        /\ rd_bus <=> ~cbi.is_wr
        /\ cbi.is_wr => data_bus = cbi.mdr
    BY <1>1, CpuHasTheBus
  <1>3. ASSUME ~cbi.is_wr, cbi.mar \in Rom \union Ram
        PROVE  cbi'.mdr = byte(cbi.mar)
    <2>1. cbi'.mdr = data_bus
      BY <1>0, <1>3, CbiDone DEF GrantInv, Registers, CbiRegisters
    <2>2. PICK m \in Mems : cbi.mar \in Bytes(m) /\ m = IF req("ROM") THEN "ROM" ELSE "RAM"
      BY <1>2, <1>3, BusAssumption DEF Mems, Bytes, req
    <2>3. req(m)
      BY <1>2, <1>3, <2>2 DEF req
    <2>4. data_bus = mem.out[m][cbi.mar % Lanes]
      <3>1. ~wr_bus /\ ~read_req
        BY <1>2, <1>3, BusAssumption DEF read_req, addr_hit
      <3>2. \E n \in {"ROM", "RAM"} : req(n)
        BY <2>3 DEF Mems
      <3>3. data_bus = mem_data(m)
        BY <2>2, <3>1, <3>2 DEF data_bus
      <3> QED BY <1>2, <3>3 DEF mem_data
    <2>5. mem.out[m] = word(cbi.mar)
      BY <1>0, <1>3, <2>2 DEF WordReady
    <2> QED BY <1>3, <2>1, <2>4, <2>5, ByteOfWord
  <1>4. ASSUME cbi.is_wr, cbi.mar \in Ram
        PROVE  mem'.ram[cbi.mar] = cbi.mdr
    BY <1>2, <1>4 DEF memory
  <1> QED BY <1>3, <1>4

\* A load brings the byte that is in memory, a store leaves its byte there.
THEOREM BusAccessIsExact == BusSpec => AccessIsExact
  <1>1. BusInit => AccessInv
    BY AccessInit
  <1>2. AccessInv /\ [BusNext]_bus_vars => AccessInv'
    BY AccessStep
  <1>3. AccessInv /\ [BusNext]_bus_vars =>
          [cbi.state = "WAITING_ACK" /\ cbi'.done =>
             /\ ~cbi.is_wr /\ cbi.mar \in Rom \union Ram => cbi'.mdr = byte(cbi.mar)
             /\ cbi.is_wr /\ cbi.mar \in Ram => mem'.ram[cbi.mar] = cbi.mdr]_bus_vars
    BY AccessAnswered DEF BusNext, Edge, Access, Clock
  <1> QED BY <1>1, <1>2, <1>3, PTL DEF BusSpec, AccessIsExact

-----------------------------------------------------------------------------
(* What each part does at an edge, field by field *)

\* The processor runs an instruction with access i.
CpuMoves(i) ==
  /\ cpu' = [state |-> cpu'.state, rd |-> cpu'.rd, wr |-> cpu'.wr, addr |-> cpu'.addr,
             data |-> cpu'.data]
  /\ cpu.state = "RD_INST_REQ" =>
       cpu'.state = "RD_INST_WAIT" /\ cpu'.rd = TRUE /\ cpu'.wr = cpu.wr /\ cpu'.addr = RomStart
  /\ cpu.state = "RD_INST_WAIT" /\ cbi.timeout =>
       cpu'.state = "CHECK_EXC" /\ cpu'.rd = FALSE /\ cpu'.wr = cpu.wr
  /\ cpu.state = "RD_INST_WAIT" /\ ~cbi.timeout /\ cbi.done =>
       cpu'.state = "DECODE_INST" /\ cpu'.rd = FALSE /\ cpu'.wr = cpu.wr
  /\ cpu.state = "DECODE_INST" =>
       cpu'.state = "EXEC_INST" /\ cpu'.rd = cpu.rd /\ cpu'.wr = cpu.wr
  /\ cpu.state = "EXEC_INST" /\ (i.load \/ i.store) =>
       /\ cpu'.state = "EXEC_INST_MEM_WAIT" /\ cpu'.rd = i.load /\ cpu'.wr = i.store
       /\ cpu'.addr = i.addr /\ cpu'.data = i.data
  /\ cpu.state = "EXEC_INST" /\ ~i.load /\ ~i.store =>
       cpu'.state = "CHECK_EXC" /\ cpu'.rd = cpu.rd /\ cpu'.wr = cpu.wr
  /\ cpu.state = "EXEC_INST_MEM_WAIT" /\ (cbi.timeout \/ cbi.done) =>
       cpu'.state = "CHECK_EXC" /\ cpu'.rd = FALSE /\ cpu'.wr = FALSE
  /\ cpu.state = "CHECK_EXC" =>
       cpu'.state = "RD_INST_REQ" /\ cpu'.rd = cpu.rd /\ cpu'.wr = cpu.wr
  /\ cpu.state \in {"RD_INST_WAIT", "EXEC_INST_MEM_WAIT"} /\ ~cbi.timeout /\ ~cbi.done =>
       cpu' = cpu

LEMMA CpuEdge ==
  ASSUME MoreRegisters, NEW i, processor(i)
  PROVE  CpuMoves(i)
  <1> DEFINE Q(c) == c = [state |-> c.state, rd |-> c.rd, wr |-> c.wr, addr |-> c.addr,
                          data |-> c.data]
  <1>1. Q(cpu)
    BY DEF MoreRegisters
  <1>2. CASE cpu.state = "RD_INST_REQ"
    <2>1. cpu' = [cpu EXCEPT !.state = "RD_INST_WAIT", !.rd = TRUE, !.addr = RomStart]
      BY <1>2 DEF processor
    <2> QED BY <1>1, <1>2, <2>1 DEF CpuMoves
  <1>3. CASE cpu.state = "RD_INST_WAIT" /\ cbi.timeout
    <2>1. cpu' = [cpu EXCEPT !.state = "CHECK_EXC", !.rd = FALSE]
      BY <1>3 DEF processor
    <2> QED BY <1>1, <1>3, <2>1 DEF CpuMoves
  <1>4. CASE cpu.state = "RD_INST_WAIT" /\ ~cbi.timeout /\ cbi.done
    <2>1. cpu' = [cpu EXCEPT !.state = "DECODE_INST", !.rd = FALSE]
      BY <1>4 DEF processor
    <2> QED BY <1>1, <1>4, <2>1 DEF CpuMoves
  <1>5. CASE cpu.state = "DECODE_INST"
    <2>1. cpu' = [cpu EXCEPT !.state = "EXEC_INST"]
      BY <1>5 DEF processor
    <2> QED BY <1>1, <1>5, <2>1 DEF CpuMoves
  <1>6. CASE cpu.state = "EXEC_INST" /\ (i.load \/ i.store)
    <2>1. cpu' = [state |-> "EXEC_INST_MEM_WAIT", rd |-> i.load, wr |-> i.store,
                  addr |-> i.addr, data |-> i.data]
      BY <1>6 DEF processor
    <2> QED BY <1>1, <1>6, <2>1 DEF CpuMoves
  <1>7. CASE cpu.state = "EXEC_INST" /\ ~i.load /\ ~i.store
    <2>1. cpu' = [cpu EXCEPT !.state = "CHECK_EXC"]
      BY <1>7 DEF processor
    <2> QED BY <1>1, <1>7, <2>1 DEF CpuMoves
  <1>8. CASE cpu.state = "EXEC_INST_MEM_WAIT" /\ (cbi.timeout \/ cbi.done)
    <2>1. cpu' = [cpu EXCEPT !.state = "CHECK_EXC", !.rd = FALSE, !.wr = FALSE]
      BY <1>8 DEF processor
    <2> QED BY <1>1, <1>8, <2>1 DEF CpuMoves
  <1>9. CASE cpu.state = "CHECK_EXC"
    <2>1. cpu' = [cpu EXCEPT !.state = "RD_INST_REQ"]
      BY <1>9 DEF processor
    <2> QED BY <1>1, <1>9, <2>1 DEF CpuMoves
  <1>10. CASE /\ cpu.state \in {"RD_INST_WAIT", "EXEC_INST_MEM_WAIT"}
              /\ ~cbi.timeout /\ ~cbi.done
    <2>1. cpu' = cpu
      BY <1>10 DEF processor
    <2> QED BY <1>1, <1>10, <2>1 DEF CpuMoves
  <1>11. CASE cpu.state \notin {"RD_INST_REQ", "RD_INST_WAIT", "DECODE_INST", "EXEC_INST",
                                "EXEC_INST_MEM_WAIT", "CHECK_EXC"}
    <2>1. cpu' = cpu
      BY <1>11 DEF processor
    <2> QED BY <1>1, <1>11, <2>1 DEF CpuMoves
  <1> QED BY <1>2, <1>3, <1>4, <1>5, <1>6, <1>7, <1>8, <1>9, <1>10, <1>11

\* Nobody is on the bus but the processor.
CpuOn == cbi.state \in {"WAITING_BUS", "WAITING_ACK"} /\ ~OnBus
Quiet == ~CpuOn /\ ~OnBus

\* The processor's interface.
CbiMoves ==
  /\ cbi.state = "WAITING_REQ" /\ (cpu.rd \/ cpu.wr) =>
       /\ cbi'.state = "WAITING_BUS" /\ cbi'.mar = cpu.addr /\ cbi'.is_wr = cpu.wr
       /\ cpu.wr => cbi'.mdr = cpu.data
       /\ cbi'.done = cbi.done /\ cbi'.timeout = cbi.timeout
  /\ cbi.state = "WAITING_BUS" /\ ~OnBus =>
       /\ cbi'.state = "WAITING_ACK" /\ cbi'.mar = cbi.mar /\ cbi'.is_wr = cbi.is_wr
       /\ cbi'.mdr = cbi.mdr /\ cbi'.done = cbi.done /\ cbi'.timeout = cbi.timeout
  /\ cbi.state = "WAITING_ACK" /\ access_timeout =>
       /\ cbi'.state = "DONE" /\ cbi'.mar = cbi.mar /\ cbi'.is_wr = cbi.is_wr
       /\ cbi'.mdr = cbi.mdr /\ cbi'.done = cbi.done /\ cbi'.timeout = TRUE
  /\ cbi.state = "WAITING_ACK" /\ ~access_timeout /\ fc_bus =>
       /\ cbi'.state = "DONE" /\ cbi'.mar = cbi.mar /\ cbi'.is_wr = cbi.is_wr
       /\ cbi'.mdr = IF cbi.is_wr THEN cbi.mdr ELSE data_bus
       /\ cbi'.done = TRUE /\ cbi'.timeout = cbi.timeout
  /\ cbi.state = "DONE" /\ ~cpu.rd /\ ~cpu.wr =>
       /\ cbi'.state = "WAITING_REQ" /\ cbi'.is_wr = cbi.is_wr
       /\ cbi'.done = FALSE /\ cbi'.timeout = FALSE
  /\ \/ cbi.state = "WAITING_REQ" /\ ~cpu.rd /\ ~cpu.wr
     \/ cbi.state = "WAITING_BUS" /\ OnBus
     \/ cbi.state = "WAITING_ACK" /\ ~access_timeout /\ ~fc_bus
     \/ cbi.state = "DONE" /\ (cpu.rd \/ cpu.wr)
     => cbi' = cbi

\* Who has the bus.
LEMMA WhoHasTheBus ==
  ASSUME GrantInv, Turns
  PROVE  /\ OnBus <=> dma_grant /\ Busy /\ dma.state # "WAIT_BUS"
         /\ OnBus => ~cpu_grant
         /\ CpuOn <=> cpu_grant
         /\ dma.state = "WAIT_BUS" => dma_grant
  BY DEF GrantInv, Requests, Holders, Turns, OnBus, Busy, CpuOn, cpu_grant, dma_grant,
         cpu_req, dma_req

LEMMA CbiEdge ==
  ASSUME GrantInv, Turns, cpu_bus_interface
  PROVE  CbiMoves
  <1>0. CbiRegisters
    BY DEF GrantInv, Registers, CbiRegisters
  <1>1. (cbi.state = "WAITING_BUS" /\ ~OnBus => cpu_grant) /\ (OnBus => ~cpu_grant)
    BY WhoHasTheBus DEF CpuOn
  <1>2. CASE cbi.state = "WAITING_REQ" /\ (cpu.rd \/ cpu.wr)
    <2>1. cbi' = [cbi EXCEPT !.state = "WAITING_BUS", !.bus_req = TRUE, !.mar = cpu.addr,
                             !.mdr = IF cpu.wr THEN cpu.data ELSE @, !.is_wr = cpu.wr]
      BY <1>2 DEF cpu_bus_interface
    <2> QED BY <1>0, <1>2, <2>1 DEF CbiMoves, CbiRegisters
  <1>3. CASE cbi.state = "WAITING_BUS" /\ ~OnBus
    <2>1. cbi' = [cbi EXCEPT !.state = "WAITING_ACK"]
      BY <1>1, <1>3 DEF cpu_bus_interface
    <2> QED BY <1>0, <1>3, <2>1 DEF CbiMoves, CbiRegisters
  <1>4. CASE cbi.state = "WAITING_ACK" /\ access_timeout
    <2>1. cbi' = [cbi EXCEPT !.state = "DONE", !.timeout = TRUE, !.bus_req = FALSE]
      BY <1>4 DEF cpu_bus_interface
    <2> QED BY <1>0, <1>4, <2>1 DEF CbiMoves, CbiRegisters
  <1>5. CASE cbi.state = "WAITING_ACK" /\ ~access_timeout /\ fc_bus
    <2> PICK v : v = data_bus
      OBVIOUS
    <2>1. cbi' = [cbi EXCEPT !.state = "DONE", !.done = TRUE, !.bus_req = FALSE,
                             !.mdr = IF cbi.is_wr THEN @ ELSE v]
      BY <1>5 DEF cpu_bus_interface
    <2> QED BY <1>0, <1>5, <2>1 DEF CbiMoves, CbiRegisters
  <1>6. CASE cbi.state = "DONE" /\ ~cpu.rd /\ ~cpu.wr
    <2>1. cbi' = [cbi EXCEPT !.state = "WAITING_REQ", !.done = FALSE, !.timeout = FALSE]
      BY <1>6 DEF cpu_bus_interface
    <2> QED BY <1>0, <1>6, <2>1 DEF CbiMoves, CbiRegisters
  <1>7. CASE \/ cbi.state = "WAITING_REQ" /\ ~cpu.rd /\ ~cpu.wr
             \/ cbi.state = "WAITING_BUS" /\ OnBus
             \/ cbi.state = "WAITING_ACK" /\ ~access_timeout /\ ~fc_bus
             \/ cbi.state = "DONE" /\ (cpu.rd \/ cpu.wr)
    <2>1. cbi' = cbi
      BY <1>1, <1>7 DEF cpu_bus_interface
    <2> QED BY <1>7, <2>1 DEF CbiMoves
  <1> QED BY <1>2, <1>3, <1>4, <1>5, <1>6, <1>7 DEF Turns

\* The watchdog.
WdMoves ==
  /\ wd' = [state |-> wd'.state, counter |-> wd'.counter]
  /\ wd.state = "IDLE" /\ ~Quiet => wd'.state = "COUNTING" /\ wd'.counter = wd.counter
  /\ wd.state = "IDLE" /\ Quiet => wd' = wd
  /\ wd.state = "COUNTING" /\ fc_bus => wd'.state = "IDLE" /\ wd'.counter = 0
  /\ wd.state = "COUNTING" /\ ~fc_bus /\ wd.counter = ALLOWED_CYCLES =>
       wd'.state = "NOTIFYING" /\ wd'.counter = wd.counter
  /\ wd.state = "COUNTING" /\ ~fc_bus /\ wd.counter # ALLOWED_CYCLES =>
       wd'.state = "COUNTING" /\ wd'.counter = wd.counter + 1
  /\ wd.state = "NOTIFYING" /\ Quiet => wd'.state = "IDLE" /\ wd'.counter = 1
  /\ wd.state = "NOTIFYING" /\ ~Quiet => wd' = wd

\* Reading and writing, by whoever has the bus.
LEMMA BusInUse ==
  ASSUME GrantInv, Turns
  PROVE  /\ CpuOn => /\ addr_bus = cbi.mar /\ (wr_bus <=> cbi.is_wr) /\ (rd_bus <=> ~cbi.is_wr)
                     /\ cbi.is_wr => data_bus = cbi.mdr
         /\ dma.state = "READING" => addr_bus = dma.src /\ rd_bus /\ ~wr_bus
         /\ dma.state = "WRITING" => addr_bus = dma.dest /\ wr_bus /\ ~rd_bus /\ data_bus = dma.data
         /\ Quiet => addr_bus = 0 /\ ~rd_bus /\ ~wr_bus
  <1>1. CASE CpuOn
    <2>1. cpu_grant
      BY <1>1, WhoHasTheBus
    <2>2. ~OnBus
      BY <1>1 DEF CpuOn
    <2> QED BY <1>1, <2>1, <2>2, CpuHasTheBus DEF Quiet, OnBus
  <1>2. CASE OnBus
    <2>1. dma_grant /\ ~cpu_grant
      BY <1>2, WhoHasTheBus
    <2>2. /\ dma.state = "READING" => addr_bus = dma.src /\ rd_bus /\ ~wr_bus
          /\ dma.state = "WRITING" => addr_bus = dma.dest /\ wr_bus /\ ~rd_bus
      BY <2>1 DEF addr_bus, rd_bus, wr_bus
    <2>3. dma.state = "WRITING" => data_bus = dma.data
      BY <2>1, <2>2 DEF data_bus
    <2> QED BY <1>2, <2>2, <2>3 DEF CpuOn, Quiet
  <1>3. CASE Quiet
    <2>1. ~cpu_grant /\ ~OnBus
      BY <1>3, WhoHasTheBus DEF Quiet
    <2> QED BY <1>3, <2>1 DEF addr_bus, rd_bus, wr_bus, OnBus, Quiet
  <1> QED BY <1>1, <1>2, <1>3 DEF Quiet

LEMMA WdEdge ==
  ASSUME GrantInv, Turns, MoreRegisters, Watching, watchdog
  PROVE  WdMoves
  <1>1. (rd_bus \/ wr_bus) <=> ~Quiet
    BY BusInUse DEF Quiet, OnBus
  <1>2. wd = [state |-> wd.state, counter |-> wd.counter]
    BY DEF MoreRegisters
  <1>3. CASE wd.state = "IDLE" /\ ~Quiet
    <2>1. wd' = [wd EXCEPT !.state = "COUNTING"]
      BY <1>1, <1>3 DEF watchdog
    <2> QED BY <1>2, <1>3, <2>1 DEF WdMoves
  <1>4. CASE wd.state = "IDLE" /\ Quiet
    <2>1. wd' = wd
      BY <1>1, <1>4 DEF watchdog
    <2> QED BY <1>2, <1>4, <2>1 DEF WdMoves
  <1>5. CASE wd.state = "COUNTING" /\ fc_bus
    <2>1. wd' = [state |-> "IDLE", counter |-> 0]
      BY <1>5 DEF watchdog, Answered
    <2> QED BY <1>2, <1>5, <2>1 DEF WdMoves
  <1>6. CASE wd.state = "COUNTING" /\ ~fc_bus /\ wd.counter = ALLOWED_CYCLES
    <2>1. wd' = [wd EXCEPT !.state = "NOTIFYING"]
      BY <1>6 DEF watchdog, Counted
    <2> QED BY <1>2, <1>6, <2>1 DEF WdMoves
  <1>7. CASE wd.state = "COUNTING" /\ ~fc_bus /\ wd.counter # ALLOWED_CYCLES
    <2>1. wd' = [wd EXCEPT !.counter = @ + 1]
      BY <1>7 DEF watchdog, Counted
    <2> QED BY <1>2, <1>7, <2>1 DEF WdMoves
  <1>8. CASE wd.state = "NOTIFYING" /\ Quiet
    <2>1. wd' = [state |-> "IDLE", counter |-> 1]
      BY <1>1, <1>8 DEF watchdog
    <2> QED BY <1>2, <1>8, <2>1 DEF WdMoves
  <1>9. CASE wd.state = "NOTIFYING" /\ ~Quiet
    <2>1. wd' = wd
      BY <1>1, <1>9 DEF watchdog
    <2> QED BY <1>2, <1>9, <2>1 DEF WdMoves
  <1> QED BY <1>3, <1>4, <1>5, <1>6, <1>7, <1>8, <1>9 DEF Watching

\* The DMA.
StoresRegister == CpuOn /\ cbi.is_wr /\ cbi.mar \in DmaRegs

DmaMoves ==
  /\ dma.state = "IDLE" /\ ~StoresRegister => dma' = dma
  /\ dma.state = "IDLE" /\ StoresRegister =>
       /\ dma'.state = "WAIT_ACK" /\ dma'.data = dma.data
       /\ dma'.process_started = IF cbi.mar = DmaStart THEN TRUE ELSE dma.process_started
       /\ dma'.src_step = IF cbi.mar = DmaStart THEN cbi.mdr.src_step ELSE dma.src_step
       /\ dma'.dest_step = IF cbi.mar = DmaStart THEN cbi.mdr.dest_step ELSE dma.dest_step
       /\ dma'.src = IF cbi.mar = DmaStart + 1 THEN cbi.mdr ELSE dma.src
       /\ dma'.dest = IF cbi.mar = DmaStart + 2 THEN cbi.mdr ELSE dma.dest
       /\ dma'.cnt = IF cbi.mar = DmaStart + 3 THEN cbi.mdr ELSE dma.cnt
  /\ dma.state = "WAIT_ACK" /\ CpuOn /\ cbi.mar \in DmaRegs => dma' = dma
  /\ dma.state = "WAIT_ACK" /\ ~(CpuOn /\ cbi.mar \in DmaRegs) =>
       /\ dma'.state = IF dma.process_started /\ dma.cnt # 0 THEN "WAIT_BUS" ELSE "IDLE"
       /\ dma'.process_started = FALSE
       /\ dma'.src = dma.src /\ dma'.dest = dma.dest /\ dma'.cnt = dma.cnt
       /\ dma'.src_step = dma.src_step /\ dma'.dest_step = dma.dest_step
  /\ dma.state = "WAIT_BUS" =>
       /\ dma'.state = "READING" /\ dma'.process_started = dma.process_started
       /\ dma'.src = dma.src /\ dma'.dest = dma.dest /\ dma'.cnt = dma.cnt
       /\ dma'.src_step = dma.src_step /\ dma'.dest_step = dma.dest_step
  /\ OnBus /\ access_timeout =>
       /\ dma'.state = "IDLE" /\ dma'.process_started = dma.process_started
       /\ dma'.src = dma.src /\ dma'.dest = dma.dest /\ dma'.cnt = dma.cnt
  /\ OnBus /\ ~access_timeout /\ ~fc_bus => dma' = dma
  /\ dma.state = "READING" /\ ~access_timeout /\ fc_bus =>
       /\ dma'.state = "WRITING" /\ dma'.process_started = dma.process_started
       /\ dma'.data = data_bus /\ dma'.src = dma.src + dma.src_step
       /\ dma'.dest = dma.dest /\ dma'.cnt = dma.cnt
       /\ dma'.src_step = dma.src_step /\ dma'.dest_step = dma.dest_step
  /\ dma.state = "WRITING" /\ ~access_timeout /\ fc_bus =>
       /\ dma'.state = IF dma.cnt # 0 THEN "READING" ELSE "IDLE"
       /\ dma'.process_started = dma.process_started
       /\ dma'.src = dma.src /\ dma'.dest = dma.dest + dma.dest_step
       /\ dma'.cnt = IF dma.cnt # 0 THEN dma.cnt - 1 ELSE dma.cnt
       /\ dma'.src_step = dma.src_step /\ dma'.dest_step = dma.dest_step

LEMMA DmaEdge ==
  ASSUME GrantInv, Turns, dma_on_clock
  PROVE  DmaMoves
  <1>0. DmaRegisters
    BY DEF GrantInv, Registers, DmaRegisters
  <1>a. DmaStart \in Nat /\ DmaStart # 0
    BY BusAssumption
  <1>1. /\ (write_req <=> StoresRegister \/ (dma.state = "WRITING" /\ dma.dest \in DmaRegs))
        /\ ~OnBus => (addr_hit <=> CpuOn /\ cbi.mar \in DmaRegs)
        /\ StoresRegister => addr_bus = cbi.mar /\ data_bus = cbi.mdr
    BY <1>a, BusInUse DEF write_req, addr_hit, StoresRegister, Quiet, OnBus, CpuOn, DmaRegs
  <1>b. dma.state = "WAIT_BUS" => dma_grant
    BY WhoHasTheBus
  <1>2. CASE dma.state = "IDLE" /\ ~StoresRegister
    <2>1. dma' = dma
      BY <1>1, <1>2 DEF dma_on_clock
    <2> QED BY <1>2, <2>1 DEF DmaMoves, OnBus
  <1>3. CASE dma.state = "IDLE" /\ StoresRegister
    <2> PICK v : v = cbi.mdr
      OBVIOUS
    <2>0. PICK j \in 0 .. 3 : cbi.mar = DmaStart + j
      <3>1. cbi.mar \in DmaStart .. DmaStart + 3
        BY <1>3 DEF StoresRegister, DmaRegs
      <3>2. cbi.mar - DmaStart \in 0 .. 3 /\ cbi.mar = DmaStart + (cbi.mar - DmaStart)
        BY <1>a, <3>1
      <3> QED BY <3>2
    <2>1. dma' = WriteRegister(j, v)
      <3>1. addr_bus - DmaStart = j
        BY <1>a, <1>1, <1>3, <2>0
      <3> QED BY <1>1, <1>3, <3>1 DEF dma_on_clock
    <2>3. CASE j = 0
      <3>1. dma' = [[dma EXCEPT !.state = "WAIT_ACK"] EXCEPT
                      !.src_step = v.src_step, !.dest_step = v.dest_step,
                      !.process_started = TRUE]
        BY <2>1, <2>3 DEF WriteRegister
      <3>2. /\ dma'.state = "WAIT_ACK" /\ dma'.data = dma.data /\ dma'.process_started = TRUE
            /\ dma'.src_step = v.src_step /\ dma'.dest_step = v.dest_step
            /\ dma'.src = dma.src /\ dma'.dest = dma.dest /\ dma'.cnt = dma.cnt
        BY <1>0, <3>1 DEF DmaRegisters
      <3>3. cbi.mar = DmaStart /\ cbi.mar # DmaStart + 1 /\ cbi.mar # DmaStart + 2
              /\ cbi.mar # DmaStart + 3
        BY <1>a, <2>0, <2>3
      <3> HIDE DEF StoresRegister
      <3> QED BY <1>3, <3>2, <3>3 DEF DmaMoves, OnBus
    <2>4. CASE j = 1
      <3>1. dma' = [[dma EXCEPT !.state = "WAIT_ACK"] EXCEPT !.src = v]
        BY <2>1, <2>4 DEF WriteRegister
      <3>2. /\ dma'.state = "WAIT_ACK" /\ dma'.data = dma.data
            /\ dma'.process_started = dma.process_started
            /\ dma'.src_step = dma.src_step /\ dma'.dest_step = dma.dest_step
            /\ dma'.src = v /\ dma'.dest = dma.dest /\ dma'.cnt = dma.cnt
        BY <1>0, <3>1 DEF DmaRegisters
      <3>3. cbi.mar # DmaStart /\ cbi.mar = DmaStart + 1 /\ cbi.mar # DmaStart + 2
              /\ cbi.mar # DmaStart + 3
        BY <1>a, <2>0, <2>4
      <3> QED BY <1>3, <3>2, <3>3 DEF DmaMoves, OnBus
    <2>5. CASE j = 2
      <3>1. dma' = [[dma EXCEPT !.state = "WAIT_ACK"] EXCEPT !.dest = v]
        BY <2>1, <2>5 DEF WriteRegister
      <3>2. /\ dma'.state = "WAIT_ACK" /\ dma'.data = dma.data
            /\ dma'.process_started = dma.process_started
            /\ dma'.src_step = dma.src_step /\ dma'.dest_step = dma.dest_step
            /\ dma'.src = dma.src /\ dma'.dest = v /\ dma'.cnt = dma.cnt
        BY <1>0, <3>1 DEF DmaRegisters
      <3>3. cbi.mar # DmaStart /\ cbi.mar # DmaStart + 1 /\ cbi.mar = DmaStart + 2
              /\ cbi.mar # DmaStart + 3
        BY <1>a, <2>0, <2>5
      <3> QED BY <1>3, <3>2, <3>3 DEF DmaMoves, OnBus
    <2>6. CASE j = 3
      <3>1. dma' = [[dma EXCEPT !.state = "WAIT_ACK"] EXCEPT !.cnt = v]
        BY <2>1, <2>6 DEF WriteRegister
      <3>2. /\ dma'.state = "WAIT_ACK" /\ dma'.data = dma.data
            /\ dma'.process_started = dma.process_started
            /\ dma'.src_step = dma.src_step /\ dma'.dest_step = dma.dest_step
            /\ dma'.src = dma.src /\ dma'.dest = dma.dest /\ dma'.cnt = v
        BY <1>0, <3>1 DEF DmaRegisters
      <3>3. cbi.mar # DmaStart /\ cbi.mar # DmaStart + 1 /\ cbi.mar # DmaStart + 2
              /\ cbi.mar = DmaStart + 3
        BY <1>a, <2>0, <2>6
      <3> QED BY <1>3, <3>2, <3>3 DEF DmaMoves, OnBus
    <2> QED BY <2>0, <2>3, <2>4, <2>5, <2>6
  <1>4. CASE dma.state = "WAIT_ACK" /\ CpuOn /\ cbi.mar \in DmaRegs
    <2>1. dma' = dma
      BY <1>1, <1>4 DEF dma_on_clock, OnBus
    <2> QED BY <1>4, <2>1 DEF DmaMoves, OnBus
  <1>5. CASE dma.state = "WAIT_ACK" /\ ~(CpuOn /\ cbi.mar \in DmaRegs)
    <2> PICK starts : starts = (dma.process_started /\ dma.cnt # 0)
      OBVIOUS
    <2>1. dma' = [dma EXCEPT !.state = IF starts THEN "WAIT_BUS" ELSE "IDLE",
                             !.bus_req = starts, !.process_started = FALSE]
      BY <1>1, <1>5 DEF dma_on_clock, Acknowledged, OnBus
    <2>2. /\ dma'.state = IF starts THEN "WAIT_BUS" ELSE "IDLE"
          /\ dma'.process_started = FALSE
          /\ dma'.src = dma.src /\ dma'.dest = dma.dest /\ dma'.cnt = dma.cnt
          /\ dma'.src_step = dma.src_step /\ dma'.dest_step = dma.dest_step
      BY <1>0, <2>1 DEF DmaRegisters
    <2> QED BY <1>5, <2>2 DEF DmaMoves, OnBus
  <1>6. CASE dma.state = "WAIT_BUS"
    <2>1. dma' = [dma EXCEPT !.state = "READING"]
      BY <1>b, <1>6 DEF dma_on_clock
    <2> QED BY <1>0, <1>6, <2>1 DEF DmaMoves, DmaRegisters, OnBus
  <1>7. CASE OnBus /\ access_timeout
    <2>1. dma' = [dma EXCEPT !.bus_req = FALSE, !.state = "IDLE"]
      BY <1>7 DEF dma_on_clock, Stopped, OnBus
    <2> QED BY <1>0, <1>7, <2>1 DEF DmaMoves, DmaRegisters, OnBus
  <1>8. CASE OnBus /\ ~access_timeout /\ ~fc_bus
    <2>1. dma' = dma
      BY <1>8 DEF dma_on_clock, OnBus
    <2> QED BY <1>8, <2>1 DEF DmaMoves, OnBus
  <1>9. CASE dma.state = "READING" /\ ~access_timeout /\ fc_bus
    <2> PICK v : v = data_bus
      OBVIOUS
    <2>1. dma' = [dma EXCEPT !.data = v, !.state = "WRITING", !.src = @ + dma.src_step]
      BY <1>9 DEF dma_on_clock
    <2> QED BY <1>0, <1>9, <2>1 DEF DmaMoves, DmaRegisters, OnBus
  <1>10. CASE dma.state = "WRITING" /\ ~access_timeout /\ fc_bus
    <2>1. dma' = Written
      BY <1>10 DEF dma_on_clock
    <2>3. CASE dma.cnt # 0
      <3>1. dma' = [[dma EXCEPT !.dest = @ + dma.dest_step] EXCEPT
                      !.cnt = @ - 1, !.state = "READING"]
        BY <2>1, <2>3 DEF Written
      <3> QED BY <1>0, <1>10, <2>3, <3>1 DEF DmaMoves, DmaRegisters, OnBus
    <2>4. CASE dma.cnt = 0
      <3>1. dma' = [[dma EXCEPT !.dest = @ + dma.dest_step] EXCEPT
                      !.bus_req = FALSE, !.state = "IDLE"]
        BY <2>1, <2>4 DEF Written
      <3> QED BY <1>0, <1>10, <2>4, <3>1 DEF DmaMoves, DmaRegisters, OnBus
    <2> QED BY <2>3, <2>4
  <1> QED BY <1>2, <1>3, <1>4, <1>5, <1>6, <1>7, <1>8, <1>9, <1>10 DEF Turns, OnBus

\* The driver, and what is remembered of its transfer.
Begins ==
  /\ drv.pc = "idle" /\ cpu.state = "CHECK_EXC" /\ drv'.pc = "src" /\ drv'.t \in Transfers
  /\ ghost'.ram = mem.ram /\ ghost'.aborted = FALSE

Goes ==
  /\ drv'.t = drv.t
  /\ \/ MemoryFault /\ drv'.pc = "idle"
     \/ AccessDone /\ drv.pc = "src" /\ drv'.pc = "dest"
     \/ AccessDone /\ drv.pc = "dest" /\ drv'.pc = "cnt"
     \/ AccessDone /\ drv.pc = "cnt" /\ drv'.pc = "ctrl"
     \/ AccessDone /\ drv.pc = "ctrl" /\ drv'.pc = "poll"
     \/ AccessDone /\ drv.pc = "poll" /\ cbi.mdr = 0 /\ drv'.pc = "idle"
     \/ ~(AccessDone /\ drv.pc \in Stores) /\ drv'.pc = drv.pc
  /\ ghost'.ram = ghost.ram
  /\ OnBus /\ access_timeout => ghost'.aborted = TRUE
  /\ ~(OnBus /\ access_timeout) => ghost'.aborted = ghost.aborted

DrvMoves ==
  /\ drv' = [pc |-> drv'.pc, t |-> drv'.t] /\ drv'.t \in Transfers
  /\ ghost' = [ram |-> ghost'.ram, aborted |-> ghost'.aborted]
  /\ Begins \/ Goes

LEMMA DrvEdge ==
  ASSUME MoreRegisters, Driven, Driver
  PROVE  DrvMoves
  <1>0. /\ drv = [pc |-> drv.pc, t |-> drv.t] /\ drv.t \in Transfers
        /\ ghost = [ram |-> ghost.ram, aborted |-> ghost.aborted]
    BY DEF MoreRegisters
  <1>a. drv.pc \in Stores \union {"idle", "poll"}
    BY DEF Driven
  <1>1. CASE drv.pc = "idle" /\ drv'.pc = "src"
    <2>0. ~OnBus
      BY <1>1 DEF Driven, Busy, OnBus
    <2>1. ghost' = [ram |-> mem.ram, aborted |-> FALSE]
      BY <1>1, <2>0 DEF Driver, OnBus
    <2>2. cpu.state = "CHECK_EXC" /\ \E t \in Transfers : drv' = [pc |-> "src", t |-> t]
      <3>1. CASE MemoryFault /\ drv' = [drv EXCEPT !.pc = "idle"]
        BY <1>0, <1>1, <3>1
      <3>2. CASE drv' = drv
        BY <1>1, <3>2
      <3> QED BY <1>0, <1>1, <3>1, <3>2 DEF Driver
    <2> QED BY <1>0, <1>1, <2>1, <2>2 DEF DrvMoves, Begins
  <1>2. CASE ~(drv.pc = "idle" /\ drv'.pc = "src")
    <2>1. ghost' = IF OnBus /\ access_timeout THEN [ghost EXCEPT !.aborted = TRUE] ELSE ghost
      BY <1>2 DEF Driver, OnBus
    <2>2. /\ ghost' = [ram |-> ghost'.ram, aborted |-> ghost'.aborted]
          /\ ghost'.ram = ghost.ram
          /\ OnBus /\ access_timeout => ghost'.aborted = TRUE
          /\ ~(OnBus /\ access_timeout) => ghost'.aborted = ghost.aborted
      BY <1>0, <2>1
    <2> DEFINE Next(p) == drv' = [drv EXCEPT !.pc = p]
    <2>3. \/ MemoryFault /\ Next("idle")
          \/ AccessDone /\ drv.pc = "src" /\ Next("dest")
          \/ AccessDone /\ drv.pc = "dest" /\ Next("cnt")
          \/ AccessDone /\ drv.pc = "cnt" /\ Next("ctrl")
          \/ AccessDone /\ drv.pc = "ctrl" /\ Next("poll")
          \/ AccessDone /\ drv.pc = "poll" /\ cbi.mdr = 0 /\ Next("idle")
          \/ ~(AccessDone /\ drv.pc \in Stores) /\ Next(drv.pc)
      BY <1>0, <1>a, <1>2 DEF Driver, Stores
    <2>4. \A p : Next(p) => drv' = [pc |-> p, t |-> drv.t]
      BY <1>0
    <2> HIDE DEF Next
    <2>5. drv' = [pc |-> drv'.pc, t |-> drv'.t] /\ drv'.t = drv.t
      BY <2>3, <2>4
    <2>6. \A p : Next(p) => drv'.pc = p
      BY <2>4
    <2> QED BY <1>0, <2>2, <2>3, <2>5, <2>6 DEF DrvMoves, Goes
  <1> QED BY <1>1, <1>2

\* The memories.
MemMoves ==
  /\ \A m \in Mems : mem'.state[m] = IF req(m) THEN "DONE" ELSE "IDLE"
  /\ \A m \in Mems : addr_bus \in Bytes(m) =>
       mem'.out[m] = [i \in 0 .. Lanes - 1 |-> byte(addr_bus - (addr_bus % Lanes) + i)]
  /\ \A a \in Ram : mem'.ram[a] = IF wr_bus /\ a = addr_bus THEN data_bus ELSE mem.ram[a]
  /\ mem' = [state |-> [m \in Mems |-> mem'.state[m]], out |-> mem'.out,
             ram |-> [a \in Ram |-> mem'.ram[a]]]

LEMMA MemEdge ==
  ASSUME memory
  PROVE  MemMoves
  BY DEF memory, mem_state, MemMoves, Mems

\* Who answers.
CpuAnswered ==
  \/ \E m \in Mems : cbi.mar \in Bytes(m) /\ mem.state[m] = "DONE"
  \/ cbi.mar \in DmaRegs /\ (~cbi.is_wr \/ dma.state = "WAIT_ACK")

DmaAnswered ==
  \/ \E m \in Mems : DmaAddr \in Bytes(m) /\ mem.state[m] = "DONE"
  \/ dma.state = "READING" /\ dma.src \in DmaRegs

LEMMA Answering ==
  ASSUME GrantInv, Turns
  PROVE  /\ CpuOn => (fc_bus <=> CpuAnswered)
         /\ OnBus => (fc_bus <=> DmaAnswered)
  <1>1. CASE CpuOn
    <2>1. addr_bus = cbi.mar /\ (wr_bus <=> cbi.is_wr) /\ (rd_bus <=> ~cbi.is_wr)
      BY <1>1, BusInUse
    <2>2. \A m \in Mems : req(m) <=> cbi.mar \in Bytes(m)
      BY <2>1 DEF req
    <2>3. ~OnBus
      BY <1>1 DEF CpuOn
    <2> QED BY <1>1, <2>1, <2>2, <2>3 DEF fc_bus, addr_hit, read_req, Mems,
           CpuAnswered
  <1>2. CASE OnBus
    <2>1. addr_bus = DmaAddr /\ (rd_bus <=> dma.state = "READING") /\ (rd_bus \/ wr_bus)
      BY <1>2, BusInUse DEF OnBus, DmaAddr
    <2>2. \A m \in Mems : req(m) <=> DmaAddr \in Bytes(m)
      BY <2>1 DEF req
    <2>3. addr_hit /\ (read_req \/ dma.state = "WAIT_ACK")
            <=> dma.state = "READING" /\ dma.src \in DmaRegs
      BY <1>2, <2>1 DEF addr_hit, read_req, DmaAddr, OnBus
    <2>4. ~CpuOn
      BY <1>2 DEF CpuOn
    <2> QED BY <2>2, <2>3, <2>4 DEF fc_bus, Mems, DmaAnswered
  <1> QED BY <1>1, <1>2

\* The access that is made, by the state of the driver.
IsAccess(i) ==
  /\ i = [load |-> i.load, store |-> i.store, addr |-> i.addr, data |-> i.data]
  /\ i.load \in BOOLEAN /\ i.store = ~i.load
  /\ drv.pc = "idle" => i.addr \notin DmaRegs
  /\ drv.pc = "src" => i.store /\ i.addr = DmaStart + 1 /\ i.data = drv.t.src
  /\ drv.pc = "dest" => i.store /\ i.addr = DmaStart + 2 /\ i.data = drv.t.dest
  /\ drv.pc = "cnt" => i.store /\ i.addr = DmaStart + 3 /\ i.data = drv.t.count
  /\ drv.pc = "ctrl" => /\ i.store /\ i.addr = DmaStart
                        /\ i.data = [src_step |-> drv.t.src_step, dest_step |-> drv.t.dest_step]
  /\ drv.pc = "poll" => i.load /\ i.addr = DmaStart + 3

LEMMA AccessShape ==
  ASSUME NEW i \in Accesses, drv.pc \in Stores \union {"idle", "poll"}
  PROVE  IsAccess(i)
  <1>1. CASE drv.pc = "idle"
    <2>1. \A a \in Targets : a \notin DmaRegs
      BY BusSystemAssumption
    <2>2. CASE \E a \in Targets : i = Load(a)
      <3>1. PICK a \in Targets : i = Load(a)
        BY <2>2
      <3> QED BY <1>1, <2>1, <3>1 DEF Load, IsAccess
    <2>3. CASE \E a \in Targets, v \in Values : i = Store(a, v)
      <3>1. PICK a \in Targets, v \in Values : i = Store(a, v)
        BY <2>3
      <3> QED BY <1>1, <2>1, <3>1 DEF Store, IsAccess
    <2> QED BY <1>1, <2>2, <2>3 DEF Accesses
  <1>2. CASE drv.pc # "idle"
    <2>1. i = DriverAccess
      BY <1>2 DEF Accesses
    <2> QED BY <1>2, <2>1 DEF DriverAccess, Load, Store, Stores, IsAccess
  <1> QED BY <1>1, <1>2

\* The access on the bus, if it is the processor's.
LEMMA Served ==
  ASSUME Turns, Asking, Serving, Driven, cbi.state \in {"WAITING_BUS", "WAITING_ACK"}
  PROVE  /\ cpu.state \in {"RD_INST_WAIT", "EXEC_INST_MEM_WAIT"} /\ (cpu.rd \/ cpu.wr)
         /\ cbi.is_wr \in BOOLEAN
         /\ cpu.state = "RD_INST_WAIT" =>
              ~cbi.is_wr /\ cbi.mar = RomStart /\ cbi.mar \in Rom /\ cbi.mar \notin DmaRegs
         /\ cpu.state = "EXEC_INST_MEM_WAIT" =>
              /\ drv.pc = "idle" => cbi.mar \notin DmaRegs
              /\ drv.pc \in Stores => cbi.is_wr /\ cbi.mar \in DmaRegs
              /\ drv.pc = "src" => cbi.mar = DmaStart + 1 /\ cbi.mdr = drv.t.src
              /\ drv.pc = "dest" => cbi.mar = DmaStart + 2 /\ cbi.mdr = drv.t.dest
              /\ drv.pc = "cnt" => cbi.mar = DmaStart + 3 /\ cbi.mdr = drv.t.count
              /\ drv.pc = "ctrl" => /\ cbi.mar = DmaStart
                                    /\ cbi.mdr.src_step = drv.t.src_step
                                    /\ cbi.mdr.dest_step = drv.t.dest_step
              /\ drv.pc = "poll" => ~cbi.is_wr /\ cbi.mar = DmaStart + 3
  <1>a. DmaStart \in Nat /\ RomStart \in Rom /\ Rom \intersect DmaRegs = {}
    BY BusAssumption DEF Rom
  <1>b. /\ DmaStart \in DmaRegs /\ DmaStart + 1 \in DmaRegs /\ DmaStart + 2 \in DmaRegs
        /\ DmaStart + 3 \in DmaRegs
    BY <1>a DEF DmaRegs
  <1>1. CASE cpu.state = "RD_INST_WAIT"
    <2>1. cpu.rd = TRUE /\ cpu.wr = FALSE /\ cpu.addr = RomStart
      BY <1>1 DEF Asking
    <2>2. cbi.mar = RomStart /\ cbi.is_wr = FALSE
      BY <2>1 DEF Serving
    <2> QED BY <1>1, <1>a, <2>1, <2>2
  <1>2. CASE cpu.state = "EXEC_INST_MEM_WAIT"
    <2>1. IsAccess(Asked)
      BY <1>2, AccessShape DEF Asking, Driven
    <2>2. /\ Asked.load = cpu.rd /\ Asked.store = cpu.wr /\ Asked.addr = cpu.addr
          /\ Asked.data = cpu.data
      BY DEF Asked
    <2>3. cpu.rd \in BOOLEAN /\ cpu.wr = ~cpu.rd
      BY <2>1, <2>2 DEF IsAccess
    <2>4. cbi.mar = cpu.addr /\ cbi.is_wr = cpu.wr /\ (cpu.wr => cbi.mdr = cpu.data)
      BY <2>3 DEF Serving
    <2>5. /\ drv.pc = "idle" => cbi.mar \notin DmaRegs
          /\ drv.pc = "src" => cpu.wr /\ cbi.mar = DmaStart + 1 /\ cpu.data = drv.t.src
          /\ drv.pc = "dest" => cpu.wr /\ cbi.mar = DmaStart + 2 /\ cpu.data = drv.t.dest
          /\ drv.pc = "cnt" => cpu.wr /\ cbi.mar = DmaStart + 3 /\ cpu.data = drv.t.count
          /\ drv.pc = "ctrl" =>
               /\ cpu.wr /\ cbi.mar = DmaStart
               /\ cpu.data.src_step = drv.t.src_step /\ cpu.data.dest_step = drv.t.dest_step
          /\ drv.pc = "poll" => cpu.rd /\ cbi.mar = DmaStart + 3
      BY <2>1, <2>2, <2>4 DEF IsAccess
    <2> QED BY <1>2, <1>b, <2>3, <2>4, <2>5 DEF Stores
  <1> QED BY <1>1, <1>2 DEF Turns

-----------------------------------------------------------------------------
(* The inductive invariant, conjunct by conjunct *)

\* One edge of the clock, the processor running an instruction with access i.
Moves(i) ==
  /\ i = NoAccess \/ (cpu.state = "EXEC_INST" /\ i \in Accesses)
  /\ CpuMoves(i) /\ CbiMoves /\ WdMoves /\ DmaMoves /\ DrvMoves /\ MemMoves

LEMMA EdgeMoves ==
  ASSUME TurnsInv, BusNext
  PROVE  \E i : Moves(i)
  <1>1. PICK i : Clock(i) /\ (i = NoAccess \/ (cpu.state = "EXEC_INST" /\ i \in Accesses))
    BY DEF BusNext, Edge, Access
  <1>2. CpuMoves(i)
    BY <1>1, CpuEdge DEF Clock, TurnsInv
  <1>3. CbiMoves
    BY <1>1, CbiEdge DEF Clock, TurnsInv
  <1>4. WdMoves
    BY <1>1, WdEdge DEF Clock, TurnsInv
  <1>5. DmaMoves
    BY <1>1, DmaEdge DEF Clock, TurnsInv
  <1>6. DrvMoves
    BY <1>1, DrvEdge DEF Clock, TurnsInv
  <1>7. MemMoves
    BY <1>1, MemEdge DEF Clock
  <1> QED BY <1>1, <1>2, <1>3, <1>4, <1>5, <1>6, <1>7 DEF Moves

LEMMA MoreRegistersStep ==
  ASSUME NEW i, Moves(i)
  PROVE  MoreRegisters'
  BY DEF Moves, CpuMoves, WdMoves, DrvMoves, MemMoves, MoreRegisters

\* The wires and states are what they should be.
LEMMA TypesStep ==
  ASSUME TurnsInv, NEW i, Moves(i), BusNext
  PROVE  Types'
  <1>1. arb' \in {"IDLE", "CPU", "DMA"}
    BY DEF BusNext, Edge, Access, Clock, bus_arbitrator
  <1>2. cbi'.is_wr \in BOOLEAN
    <2>1. cbi.state = "WAITING_REQ" /\ (cpu.rd \/ cpu.wr) => cpu.wr \in BOOLEAN
      <3>1. cpu.state = "EXEC_INST_MEM_WAIT" => IsAccess(Asked)
        BY AccessShape DEF TurnsInv, Asking, Driven
      <3> QED BY <3>1 DEF TurnsInv, Asking, IsAccess, Asked
    <2>2. cbi'.is_wr = cbi.is_wr \/ (cbi'.is_wr = cpu.wr /\ cbi.state = "WAITING_REQ"
                                     /\ (cpu.rd \/ cpu.wr))
      BY DEF TurnsInv, Turns, Moves, CbiMoves
    <2> QED BY <2>1, <2>2 DEF TurnsInv, Types
  <1>3. \A m \in Mems : mem'.state[m] \in {"IDLE", "DONE"}
    BY DEF Moves, MemMoves
  <1> QED BY <1>1, <1>2, <1>3 DEF Types

\* The processor, its interface and the DMA take turns.
LEMMA TurnsStep ==
  ASSUME TurnsInv, NEW i, Moves(i)
  PROVE  Turns'
  <1>0. /\ Turns /\ Asking /\ Serving /\ Driven
        /\ CpuMoves(i) /\ CbiMoves /\ DmaMoves
    BY DEF TurnsInv, Moves
  <1>1. CASE cpu.state = "RD_INST_REQ"
    <2>1. cbi.state = "WAITING_REQ" /\ dma.state \in {"IDLE", "READING"} /\ ~CpuOn
      BY <1>0, <1>1 DEF Turns, CpuOn
    <2>2. cpu'.state = "RD_INST_WAIT"
      BY <1>0, <1>1 DEF CpuMoves
    <2>3. cbi'.state = "WAITING_REQ"
      BY <1>0, <1>1, <2>1 DEF CbiMoves, Asking
    <2>4. dma'.state \in {"IDLE", "READING", "WRITING"}
      BY <1>0, <2>1 DEF DmaMoves, StoresRegister, OnBus
    <2> QED BY <2>2, <2>3, <2>4 DEF Turns
  <1>2. CASE cpu.state = "RD_INST_WAIT" /\ cbi.state \in {"WAITING_REQ", "WAITING_BUS"}
    <2>1. cpu'.state = "RD_INST_WAIT"
      BY <1>0, <1>2 DEF CpuMoves, Serving
    <2>2. CASE OnBus \/ cbi.state = "WAITING_REQ"
      <3>1. cbi'.state = "WAITING_BUS"
        BY <1>0, <1>2, <2>2 DEF CbiMoves, Asking
      <3>2. dma'.state \in {"IDLE", "READING", "WRITING"}
        BY <1>0, <1>2, <2>2 DEF Turns, DmaMoves, StoresRegister, OnBus, CpuOn
      <3> QED BY <2>1, <3>1, <3>2 DEF Turns
    <2>3. CASE ~OnBus /\ cbi.state = "WAITING_BUS"
      <3>1. cbi'.state = "WAITING_ACK"
        BY <1>0, <2>3 DEF CbiMoves
      <3>2. dma.state = "IDLE" /\ ~StoresRegister
        BY <1>0, <1>2, <2>3, Served DEF Turns, StoresRegister, OnBus
      <3>3. dma'.state = "IDLE"
        BY <1>0, <3>2 DEF DmaMoves
      <3> QED BY <2>1, <3>1, <3>3 DEF Turns
    <2> QED BY <1>2, <2>2, <2>3
  <1>3. CASE cpu.state = "RD_INST_WAIT" /\ cbi.state = "WAITING_ACK"
    <2>1. cpu'.state = "RD_INST_WAIT"
      BY <1>0, <1>3 DEF CpuMoves, Serving
    <2>2. cbi'.state \in {"WAITING_ACK", "DONE"}
      BY <1>0, <1>3 DEF CbiMoves
    <2>3. dma.state = "IDLE" /\ ~StoresRegister
      BY <1>0, <1>3, Served DEF Turns, StoresRegister
    <2>4. dma'.state = "IDLE"
      BY <1>0, <2>3 DEF DmaMoves
    <2> QED BY <2>1, <2>2, <2>4 DEF Turns
  <1>4. CASE cpu.state = "RD_INST_WAIT" /\ cbi.state = "DONE"
    <2>1. cpu'.state \in {"CHECK_EXC", "DECODE_INST"}
      BY <1>0, <1>4 DEF CpuMoves, Serving
    <2>2. cbi'.state = "DONE"
      BY <1>0, <1>4 DEF CbiMoves, Asking
    <2>3. dma'.state = "IDLE"
      BY <1>0, <1>4 DEF Turns, DmaMoves, StoresRegister, CpuOn
    <2> QED BY <2>1, <2>2, <2>3 DEF Turns
  <1>5. CASE cpu.state = "DECODE_INST"
    <2>1. cpu'.state = "EXEC_INST"
      BY <1>0, <1>5 DEF CpuMoves
    <2>2. cbi'.state = "WAITING_REQ"
      BY <1>0, <1>5 DEF Turns, CbiMoves, Asking
    <2>3. dma'.state = "IDLE"
      BY <1>0, <1>5 DEF Turns, DmaMoves, StoresRegister, CpuOn
    <2> QED BY <2>1, <2>2, <2>3 DEF Turns
  <1>6. CASE cpu.state = "EXEC_INST"
    <2>1. cpu'.state \in {"EXEC_INST_MEM_WAIT", "CHECK_EXC"}
      BY <1>0, <1>6 DEF CpuMoves
    <2>2. cbi'.state = "WAITING_REQ"
      BY <1>0, <1>6 DEF Turns, CbiMoves, Asking
    <2>3. dma'.state = "IDLE"
      BY <1>0, <1>6 DEF Turns, DmaMoves, StoresRegister, CpuOn
    <2> QED BY <2>1, <2>2, <2>3 DEF Turns
  <1>7. CASE cpu.state = "EXEC_INST_MEM_WAIT" /\ cbi.state # "DONE"
    <2>1. cpu'.state = "EXEC_INST_MEM_WAIT"
      BY <1>0, <1>7 DEF CpuMoves, Serving
    <2>2. CASE cbi.state = "WAITING_REQ"
      <3>1. cpu.rd \/ cpu.wr
        <4>1. IsAccess(Asked)
          BY <1>0, <1>7, AccessShape DEF Asking, Driven
        <4> QED BY <4>1 DEF IsAccess, Asked
      <3>2. cbi'.state = "WAITING_BUS"
        BY <1>0, <2>2, <3>1 DEF CbiMoves
      <3>3. dma'.state = "IDLE"
        BY <1>0, <1>7, <2>2 DEF Turns, DmaMoves, StoresRegister, CpuOn
      <3> QED BY <2>1, <3>2, <3>3 DEF Turns
    <2>3. CASE cbi.state = "WAITING_BUS"
      <3>1. cbi'.state = "WAITING_ACK"
        BY <1>0, <1>7, <2>3 DEF Turns, CbiMoves, OnBus
      <3>2. dma'.state \in {"IDLE", "WAIT_ACK"}
        BY <1>0, <1>7, <2>3 DEF Turns, DmaMoves
      <3> QED BY <2>1, <3>1, <3>2 DEF Turns
    <2>4. CASE cbi.state = "WAITING_ACK"
      <3>1. cbi'.state \in {"WAITING_ACK", "DONE"}
        BY <1>0, <2>4 DEF CbiMoves
      <3>2. dma.state = "WAIT_ACK" => CpuOn /\ cbi.mar \in DmaRegs
        BY <1>0, <1>7, <2>4, Served DEF CpuOn, OnBus, Driven
      <3>3. dma'.state \in {"IDLE", "WAIT_ACK"}
        BY <1>0, <1>7, <2>4, <3>2 DEF Turns, DmaMoves
      <3> QED BY <2>1, <3>1, <3>3 DEF Turns
    <2> QED BY <1>0, <1>7, <2>2, <2>3, <2>4 DEF Turns
  <1>8. CASE cpu.state = "EXEC_INST_MEM_WAIT" /\ cbi.state = "DONE"
    <2>1. cpu'.state = "CHECK_EXC"
      BY <1>0, <1>8 DEF CpuMoves, Serving
    <2>2. cbi'.state = "DONE"
      <3>1. cpu.rd \/ cpu.wr
        <4>1. IsAccess(Asked)
          BY <1>0, <1>8, AccessShape DEF Asking, Driven
        <4> QED BY <4>1 DEF IsAccess, Asked
      <3> QED BY <1>0, <1>8, <3>1 DEF CbiMoves
    <2>3. dma'.state \in {"IDLE", "WAIT_BUS"}
      BY <1>0, <1>8 DEF Turns, DmaMoves, StoresRegister, CpuOn
    <2> QED BY <2>1, <2>2, <2>3 DEF Turns
  <1>9. CASE cpu.state = "CHECK_EXC"
    <2>1. cpu'.state = "RD_INST_REQ"
      BY <1>0, <1>9 DEF CpuMoves
    <2>2. cbi'.state = "WAITING_REQ"
      BY <1>0, <1>9 DEF Turns, CbiMoves, Asking
    <2>3. dma'.state \in {"IDLE", "READING"}
      BY <1>0, <1>9 DEF Turns, DmaMoves, StoresRegister, CpuOn
    <2> QED BY <2>1, <2>2, <2>3 DEF Turns
  <1> QED BY <1>0, <1>1, <1>2, <1>3, <1>4, <1>5, <1>6, <1>7, <1>8, <1>9 DEF Turns

\* While an access is under way the driver waits.
LEMMA DriverWaits ==
  ASSUME Serving, NEW i, Moves(i),
         cbi.state # "DONE" \/ cpu.state \notin {"RD_INST_WAIT", "EXEC_INST_MEM_WAIT"}
  PROVE  Begins \/ (drv'.t = drv.t /\ drv'.pc = drv.pc)
  BY DEF Moves, DrvMoves, Goes, MemoryFault, AccessDone, Serving

\* Only the driver's stores and the DMA itself change its registers.
LEMMA DmaStays ==
  ASSUME TurnsInv, NEW i, Moves(i), drv.pc \notin Stores, ~Busy
  PROVE  dma.state = "IDLE" /\ dma' = dma
  <1>1. dma.state = "IDLE"
    BY DEF TurnsInv, Turns, Busy, Driven
  <1>2. ~StoresRegister
    BY Served DEF TurnsInv, Driven, StoresRegister, CpuOn
  <1> QED BY <1>1, <1>2 DEF Moves, DmaMoves

\* The processor asks for the access of its instruction.
LEMMA AskingStep ==
  ASSUME TurnsInv, NEW i, Moves(i)
  PROVE  Asking'
  <1>0. /\ Turns /\ Asking /\ Serving /\ Driven
        /\ CpuMoves(i) /\ CbiMoves /\ DrvMoves
    BY DEF TurnsInv, Moves
  <1>1. cpu'.state = "RD_INST_WAIT" => cpu'.rd = TRUE /\ cpu'.wr = FALSE /\ cpu'.addr = RomStart
    BY <1>0 DEF Turns, CpuMoves, Asking, Serving
  <1>2. ASSUME cpu'.state = "EXEC_INST_MEM_WAIT"
        PROVE  Asked' \in Accesses'
    <2>1. \/ cpu.state = "EXEC_INST" /\ (i.load \/ i.store)
          \/ cpu.state = "EXEC_INST_MEM_WAIT" /\ ~cbi.timeout /\ ~cbi.done
      BY <1>0, <1>2 DEF Turns, CpuMoves, Serving
    <2>2. drv'.t = drv.t /\ drv'.pc = drv.pc
      BY <1>0, <2>1 DEF DrvMoves, Goes, Begins, MemoryFault, AccessDone
    <2>3. Accesses' = Accesses
      BY <2>2 DEF Accesses, DriverAccess
    <2>4. CASE cpu.state = "EXEC_INST" /\ (i.load \/ i.store)
      <3>1. i \in Accesses
        <4>1. i # NoAccess
          BY <2>4 DEF NoAccess
        <4> QED BY <4>1 DEF Moves
      <3>2. IsAccess(i)
        BY <1>0, <3>1, AccessShape DEF Driven
      <3>3. Asked' = i
        BY <1>0, <2>4, <3>2 DEF CpuMoves, Asked, IsAccess
      <3> QED BY <2>3, <3>1, <3>3
    <2>5. CASE cpu.state = "EXEC_INST_MEM_WAIT" /\ ~cbi.timeout /\ ~cbi.done
      <3>1. cpu' = cpu
        BY <1>0, <2>5 DEF CpuMoves
      <3>2. Asked' = Asked
        BY <3>1 DEF Asked
      <3> QED BY <1>0, <2>3, <2>5, <3>2 DEF Asking
    <2> QED BY <2>1, <2>4, <2>5
  <1>3. cpu'.state \notin {"RD_INST_WAIT", "EXEC_INST_MEM_WAIT"} =>
          cpu'.rd = FALSE /\ cpu'.wr = FALSE
    BY <1>0 DEF Turns, CpuMoves, Asking, Serving
  <1> QED BY <1>1, <1>2, <1>3 DEF Asking

\* The interface makes the access it is asked for.
LEMMA ServingStep ==
  ASSUME TurnsInv, NEW i, Moves(i)
  PROVE  Serving'
  <1>0. /\ Turns /\ Asking /\ Serving
        /\ CpuMoves(i) /\ CbiMoves
    BY DEF TurnsInv, Moves
  <1>1. Asking' /\ Turns'
    BY AskingStep, TurnsStep
  <1>2. ASSUME cbi'.state # "WAITING_REQ", cpu'.rd \/ cpu'.wr
        PROVE  cbi'.mar = cpu'.addr /\ cbi'.is_wr = cpu'.wr /\ (cpu'.wr => cbi'.mdr = cpu'.data)
    <2>1. cpu'.state \in {"RD_INST_WAIT", "EXEC_INST_MEM_WAIT"}
      BY <1>1, <1>2 DEF Asking
    <2>2. cpu' = cpu /\ cpu.state \in {"RD_INST_WAIT", "EXEC_INST_MEM_WAIT"}
      <3>1. cbi.state # "WAITING_REQ" \/ cpu.rd \/ cpu.wr
        BY <1>0, <1>2 DEF CbiMoves
      <3>2. cpu.state \in {"RD_INST_WAIT", "EXEC_INST_MEM_WAIT"}
        BY <1>0, <2>1, <3>1 DEF Turns, Asking, CpuMoves
      <3> QED BY <1>0, <2>1, <3>2 DEF CpuMoves
    <2>3. CASE cbi.state = "WAITING_REQ"
      BY <1>0, <1>2, <2>2, <2>3 DEF CbiMoves
    <2>4. CASE cbi.state # "WAITING_REQ"
      <3>1. cbi.mar = cpu.addr /\ cbi.is_wr = cpu.wr /\ (cpu.wr => cbi.mdr = cpu.data)
        BY <1>0, <1>2, <2>2, <2>4 DEF Serving
      <3>2. /\ cbi'.mar = cbi.mar /\ cbi'.is_wr = cbi.is_wr
            /\ cbi.is_wr => cbi'.mdr = cbi.mdr
        BY <1>0, <1>2, <2>2, <2>4 DEF CbiMoves, Turns
      <3> QED BY <2>2, <3>1, <3>2
    <2> QED BY <2>3, <2>4
  <1>3. /\ cbi'.state # "DONE" => cbi'.done = FALSE /\ cbi'.timeout = FALSE
        /\ cbi'.state = "DONE" => cbi'.done \in BOOLEAN /\ cbi'.timeout = ~cbi'.done
    BY <1>0 DEF CbiMoves, Serving, Turns
  <1> QED BY <1>2, <1>3 DEF Serving

\* No access to the DMA's registers is stopped by the watchdog.
LEMMA StoresAnswered ==
  ASSUME TurnsInv, cbi.state = "WAITING_ACK", cbi.mar \in Answers,
         cpu.state = "EXEC_INST_MEM_WAIT"
  PROVE  wd.state # "NOTIFYING"
  BY DEF TurnsInv, Watching, Unanswered, Turns

\* Only dma_transfer stores registers, and only it is polling while the DMA works.
LEMMA DrivenStep ==
  ASSUME TurnsInv, NEW i, Moves(i)
  PROVE  Driven'
  <1>0. /\ Turns /\ Asking /\ Serving /\ Driven /\ Turns' /\ Serving'
        /\ CpuMoves(i) /\ CbiMoves /\ DmaMoves /\ DrvMoves
    BY TurnsStep, ServingStep DEF TurnsInv, Moves
  <1>1. drv'.pc \in Stores \union {"idle", "poll"}
    BY <1>0 DEF Driven, DrvMoves, Begins, Goes, Stores
  <1>2. ASSUME Busy' PROVE drv'.pc = "poll"
    <2>1. CASE Busy
      <3>1. /\ drv.pc = "poll"
            /\ (cbi.done = FALSE /\ cbi.timeout = FALSE) \/ cpu.state = "CHECK_EXC"
        BY <1>0, <2>1 DEF Turns, Driven, Busy, Serving
      <3> QED BY <1>0, <3>1 DEF DrvMoves, Begins, Goes, MemoryFault, AccessDone
    <2>2. CASE ~Busy
      <3>1. dma.state = "WAIT_ACK" /\ dma.process_started /\ ~(CpuOn /\ cbi.mar \in DmaRegs)
        BY <1>0, <1>2, <2>2 DEF Turns, DmaMoves, Busy
      <3>2. drv.pc = "ctrl"
        BY <1>0, <3>1 DEF Driven
      <3>3. cpu.state = "EXEC_INST_MEM_WAIT" /\ cbi.state = "DONE"
        BY <1>0, <3>1, <3>2, Served DEF Turns, CpuOn, OnBus, Stores
      <3>4. AccessDone
        BY <1>0, <3>1, <3>3 DEF Driven, Serving, AccessDone
      <3> QED BY <1>0, <3>2, <3>4 DEF DrvMoves, Begins, Goes, MemoryFault, AccessDone, Stores
    <2> QED BY <2>1, <2>2
  <1>3. ASSUME dma'.state = "WAIT_ACK"
        PROVE  drv'.pc = drv.pc /\ drv.pc \in Stores /\ cbi'.timeout = FALSE
                 /\ CpuOn /\ cbi.mar \in DmaRegs /\ cpu.state = "EXEC_INST_MEM_WAIT"
    <2>1. /\ CpuOn /\ cbi.mar \in DmaRegs /\ dma.state \in {"IDLE", "WAIT_ACK"}
          /\ dma.state = "IDLE" => cbi.is_wr
      BY <1>0, <1>3 DEF Turns, DmaMoves, StoresRegister, OnBus
    <2>2. cpu.state = "EXEC_INST_MEM_WAIT" /\ drv.pc \in Stores
      BY <1>0, <2>1, Served DEF CpuOn, Driven
    <2>3. drv'.pc = drv.pc
      BY <1>0, <2>1, <2>2, DriverWaits DEF CpuOn, Begins
    <2>4. cbi'.timeout = FALSE
      <3>1. CASE cbi.state = "WAITING_BUS"
        BY <1>0, <2>1, <3>1 DEF CpuOn, CbiMoves, Serving
      <3>2. CASE cbi.state = "WAITING_ACK"
        <4>1. ~access_timeout
          BY <2>1, <2>2, <3>2, StoresAnswered DEF access_timeout, Answers
        <4> QED BY <1>0, <3>2, <4>1 DEF CbiMoves, Serving
      <3> QED BY <2>1, <3>1, <3>2 DEF CpuOn
    <2> QED BY <2>1, <2>2, <2>3, <2>4
  <1>4. ASSUME drv'.pc \in Stores, cpu'.state = "EXEC_INST_MEM_WAIT",
               cbi'.state \in {"WAITING_ACK", "DONE"}
        PROVE  dma'.state = "WAIT_ACK"
    <2>1. cpu.state = "EXEC_INST_MEM_WAIT" /\ cbi.state \in {"WAITING_BUS", "WAITING_ACK"}
      BY <1>0, <1>4 DEF Turns, CpuMoves, CbiMoves, Asking, Serving
    <2>2. drv'.pc = drv.pc
      BY <1>0, <2>1, DriverWaits DEF Begins
    <2>3. cbi.is_wr /\ cbi.mar \in DmaRegs
      BY <1>0, <1>4, <2>1, <2>2, Served
    <2>4. CpuOn /\ dma.state \in {"IDLE", "WAIT_ACK"}
      BY <1>0, <2>1 DEF Turns, CpuOn, OnBus
    <2> QED BY <1>0, <2>3, <2>4 DEF DmaMoves, StoresRegister
  <1>5. dma'.process_started = (dma'.state = "WAIT_ACK" /\ drv'.pc = "ctrl")
    <2>1. CASE dma'.state = "WAIT_ACK"
      <3>1. (drv.pc = "ctrl") = (cbi.mar = DmaStart)
        <4>1. DmaStart \in Nat
          BY BusAssumption
        <4> QED BY <1>0, <1>3, <2>1, <4>1, Served DEF CpuOn, Stores
      <3>2. CASE dma.state = "IDLE"
        BY <1>0, <1>3, <2>1, <3>1, <3>2 DEF DmaMoves, StoresRegister, Driven
      <3>3. CASE dma.state # "IDLE"
        <4>1. dma.state = "WAIT_ACK"
          BY <1>0, <1>3, <2>1, <3>3 DEF Turns, CpuOn, OnBus
        <4> QED BY <1>0, <1>3, <2>1, <4>1 DEF DmaMoves, Driven
      <3> QED BY <3>2, <3>3
    <2>2. CASE dma'.state # "WAIT_ACK"
      BY <1>0, <2>2 DEF Turns, DmaMoves, Driven, OnBus
    <2> QED BY <2>1, <2>2
  <1>6. ASSUME ghost'.aborted PROVE drv'.pc \in {"idle", "poll"} /\ ~Busy'
    <2>1. CASE OnBus /\ access_timeout
      <3>1. drv.pc = "poll"
        BY <1>0, <2>1 DEF Driven, Busy, OnBus
      <3>2. drv'.pc \in {"idle", "poll"}
        BY <1>0, <3>1 DEF DrvMoves, Begins, Goes
      <3> QED BY <1>0, <2>1, <3>2 DEF DmaMoves, Busy
    <2>2. CASE ~(OnBus /\ access_timeout)
      <3>1. Goes /\ ghost.aborted
        <4>1. ghost.aborted \in BOOLEAN
          BY DEF TurnsInv, Stops
        <4>2. ghost'.aborted # FALSE
          BY <1>6
        <4>3. Goes
          BY <1>0, <4>2 DEF DrvMoves, Begins
        <4>4. ghost'.aborted = ghost.aborted
          BY <2>2, <4>3 DEF Goes
        <4> QED BY <4>1, <4>2, <4>3, <4>4
      <3>2. drv.pc \in {"idle", "poll"} /\ ~Busy
        BY <1>0, <3>1 DEF Driven
      <3>3. dma.state = "IDLE" /\ dma' = dma
        BY <3>2, DmaStays DEF Stores
      <3> QED BY <3>1, <3>2, <3>3 DEF Goes, Busy
    <2> QED BY <2>1, <2>2
  <1> QED BY <1>1, <1>2, <1>3, <1>4, <1>5, <1>6 DEF Driven

\* What the driver has stored is in the registers.
LEMMA ProgrammedStep ==
  ASSUME TurnsInv, NEW i, Moves(i)
  PROVE  Programmed'
  <1>0. /\ Turns /\ Asking /\ Serving /\ Driven /\ Programmed /\ Driven'
        /\ DmaMoves /\ DrvMoves
    BY DrivenStep DEF TurnsInv, Moves
  <1>a. DmaStart \in Nat
    BY BusAssumption
  <1>1. CASE dma'.state = "WAIT_ACK"
    <2>1. /\ CpuOn /\ cbi.mar \in DmaRegs /\ dma.state \in {"IDLE", "WAIT_ACK"}
          /\ dma.state = "IDLE" => cbi.is_wr
      BY <1>0, <1>1 DEF Turns, DmaMoves, StoresRegister, OnBus
    <2>2. cpu.state = "EXEC_INST_MEM_WAIT" /\ drv.pc \in Stores
      BY <1>0, <2>1, Served DEF CpuOn, Driven
    <2>3. drv'.pc = drv.pc /\ drv'.t = drv.t
      BY <1>0, <2>1, <2>2, DriverWaits DEF CpuOn, Begins
    <2>4. CASE dma.state = "WAIT_ACK"
      <3>1. dma' = dma
        BY <1>0, <2>1, <2>4 DEF DmaMoves
      <3> QED BY <1>0, <2>3, <3>1 DEF Programmed, Stored
    <2>5. CASE dma.state = "IDLE"
      <3>1. /\ drv.pc = "src" => cbi.mar = DmaStart + 1 /\ cbi.mdr = drv.t.src
            /\ drv.pc = "dest" => cbi.mar = DmaStart + 2 /\ cbi.mdr = drv.t.dest
            /\ drv.pc = "cnt" => cbi.mar = DmaStart + 3 /\ cbi.mdr = drv.t.count
            /\ drv.pc = "ctrl" => /\ cbi.mar = DmaStart
                                  /\ cbi.mdr.src_step = drv.t.src_step
                                  /\ cbi.mdr.dest_step = drv.t.dest_step
        BY <1>0, <2>1, <2>2, Served DEF CpuOn
      <3>2. /\ dma'.src_step = IF cbi.mar = DmaStart THEN cbi.mdr.src_step ELSE dma.src_step
            /\ dma'.dest_step = IF cbi.mar = DmaStart THEN cbi.mdr.dest_step ELSE dma.dest_step
            /\ dma'.src = IF cbi.mar = DmaStart + 1 THEN cbi.mdr ELSE dma.src
            /\ dma'.dest = IF cbi.mar = DmaStart + 2 THEN cbi.mdr ELSE dma.dest
            /\ dma'.cnt = IF cbi.mar = DmaStart + 3 THEN cbi.mdr ELSE dma.cnt
        BY <1>0, <2>1, <2>5 DEF DmaMoves, StoresRegister
      <3>3. CASE drv.pc = "src"
        BY <1>0, <1>a, <2>3, <3>1, <3>2, <3>3 DEF Programmed, Stored
      <3>4. CASE drv.pc = "dest"
        BY <1>0, <1>a, <2>3, <3>1, <3>2, <3>4 DEF Programmed, Stored
      <3>5. CASE drv.pc = "cnt"
        BY <1>0, <1>a, <2>3, <3>1, <3>2, <3>5 DEF Programmed, Stored
      <3>6. CASE drv.pc = "ctrl"
        BY <1>0, <1>a, <2>3, <3>1, <3>2, <3>6 DEF Programmed, Stored
      <3> QED BY <2>2, <3>3, <3>4, <3>5, <3>6 DEF Stores
    <2> QED BY <2>1, <2>4, <2>5
  <1>2. CASE dma'.state # "WAIT_ACK" /\ drv'.pc \in {"dest", "cnt", "ctrl"}
    <2>1. drv'.t = drv.t /\ drv.pc \in Stores
      BY <1>0, <1>2 DEF DrvMoves, Begins, Goes, Stores
    <2>2. ~Busy
      BY <1>0, <2>1 DEF Driven, Stores
    <2>3. ~StoresRegister \/ dma.state = "WAIT_ACK"
      BY <1>0, <1>2, <2>2 DEF Turns, Busy, DmaMoves
    <2>4. /\ dma'.src = dma.src /\ dma'.dest = dma.dest /\ dma'.cnt = dma.cnt
          /\ dma'.src_step = dma.src_step /\ dma'.dest_step = dma.dest_step
      BY <1>0, <2>2, <2>3 DEF Turns, Busy, DmaMoves
    <2>5. drv'.pc = drv.pc \/ (AccessDone /\ dma.state = "WAIT_ACK")
      BY <1>0, <1>2, <2>1 DEF DrvMoves, Begins, Goes, AccessDone, Driven, Serving
    <2>6. /\ drv'.pc = "dest" => drv.pc \in {"dest", "src"}
          /\ drv'.pc = "cnt" => drv.pc \in {"cnt", "dest"}
          /\ drv'.pc = "ctrl" => drv.pc \in {"ctrl", "cnt"}
      BY <1>0, <1>2, <2>1 DEF DrvMoves, Begins, Goes
    <2>7. /\ Stored("src")' => Stored("src")
          /\ Stored("dest")' => Stored("dest")
          /\ Stored("cnt")' => Stored("cnt")
          /\ ~Stored("ctrl")'
      BY <1>2, <2>5, <2>6 DEF Stored
    <2> QED BY <1>0, <2>1, <2>4, <2>7 DEF Programmed
  <1>3. CASE dma'.state # "WAIT_ACK" /\ drv'.pc \notin {"dest", "cnt", "ctrl"}
    BY <1>3 DEF Programmed, Stored
  <1> QED BY <1>1, <1>2, <1>3

\* The addresses of a transfer.
Steps == {-1, 0, 1}

LEMMA AtNext ==
  ASSUME NEW a \in Int, NEW step \in Steps
  PROVE  /\ At(a, step, 0) = a
         /\ \A k \in Int : /\ At(a, step, k) \in Int
                            /\ At(a, step, k + 1) = At(a, step, k) + step
  <1>1. CASE step = -1
    BY <1>1 DEF At
  <1>2. CASE step = 0
    BY <1>2 DEF At
  <1>3. CASE step = 1
    BY <1>3 DEF At
  <1> QED BY <1>1, <1>2, <1>3 DEF Steps

LEMMA AtOther ==
  ASSUME NEW a \in Int, NEW step \in {-1, 1}, NEW k \in Int, NEW j \in Int, j # k
  PROVE  At(a, step, j) # At(a, step, k)
  <1>1. CASE step = -1
    BY <1>1 DEF At
  <1>2. CASE step = 1
    BY <1>2 DEF At
  <1> QED BY <1>1, <1>2

LEMMA TransferShape ==
  ASSUME NEW t \in Transfers
  PROVE  /\ t.src \in Nat /\ t.dest \in Nat /\ t.count \in Nat /\ t.count > 0
         /\ t.src_step \in Steps /\ t.dest_step \in Steps
  <1>1. t \in [src : Nat, dest : Nat, count : Nat \ {0}, src_step : {-1, 0, 1},
               dest_step : {-1, 0, 1}]
    BY BusSystemAssumption
  <1> QED BY <1>1 DEF Steps

\* The DMA while it is polled.
PolledStates == {"IDLE", "WAIT_BUS", "READING", "WRITING"}

\* How the driver comes to poll, or goes on.
LEMMA Polling ==
  ASSUME TurnsInv, NEW i, Moves(i), drv'.pc = "poll"
  PROVE  /\ drv'.t = drv.t
         /\ \/ /\ drv.pc = "ctrl" /\ AccessDone /\ dma.state = "WAIT_ACK" /\ Quiet
               /\ dma'.state \in {"IDLE", "WAIT_BUS"}
               /\ dma'.src = drv.t.src /\ dma'.dest = drv.t.dest /\ dma'.cnt = drv.t.count
               /\ dma'.src_step = drv.t.src_step /\ dma'.dest_step = drv.t.dest_step
            \/ drv.pc = "poll" /\ dma.state \in PolledStates
                 /\ (dma.state = "IDLE" => dma' = dma)
  <1>0. /\ Turns /\ Asking /\ Serving /\ Driven /\ Programmed
        /\ DmaMoves /\ DrvMoves
    BY DEF TurnsInv, Moves
  <1>1. drv'.t = drv.t /\ (drv.pc = "poll" \/ (drv.pc = "ctrl" /\ AccessDone))
    BY <1>0 DEF DrvMoves, Begins, Goes
  <1>2. CASE drv.pc = "ctrl" /\ AccessDone
    <2>1. cbi.state = "DONE"
      BY <1>0, <1>2 DEF AccessDone, Serving
    <2>2. dma.state = "WAIT_ACK"
      BY <1>0, <1>2, <2>1 DEF AccessDone, Driven, Stores
    <2>3. Quiet
      BY <2>1, <2>2 DEF Quiet, CpuOn, OnBus
    <2>4. /\ dma.src = drv.t.src /\ dma.dest = drv.t.dest /\ dma.cnt = drv.t.count
          /\ dma.src_step = drv.t.src_step /\ dma.dest_step = drv.t.dest_step
      BY <1>0, <1>2, <2>2 DEF Programmed, Stored
    <2>5. /\ dma'.state \in {"IDLE", "WAIT_BUS"}
          /\ dma'.src = dma.src /\ dma'.dest = dma.dest /\ dma'.cnt = dma.cnt
          /\ dma'.src_step = dma.src_step /\ dma'.dest_step = dma.dest_step
      BY <1>0, <2>2, <2>3 DEF DmaMoves, Quiet
    <2> QED BY <1>1, <1>2, <2>2, <2>3, <2>4, <2>5
  <1>3. CASE drv.pc = "poll"
    <2>1. dma.state \in PolledStates
      BY <1>0, <1>3 DEF Turns, Driven, PolledStates, Stores
    <2>2. dma.state = "IDLE" => dma' = dma
      BY <1>3, DmaStays DEF Busy, Stores
    <2> QED BY <1>1, <1>3, <2>1, <2>2
  <1> QED BY <1>1, <1>2, <1>3

\* A transfer goes through its addresses in order.
LEMMA ProgressStep ==
  ASSUME TurnsInv, NEW i, Moves(i)
  PROVE  Progress'
  <1> SUFFICES ASSUME drv'.pc = "poll" PROVE Progress'
    BY DEF Progress
  <1>0. Progress /\ DmaMoves /\ drv.t \in Transfers /\ MoreRegisters
    BY DEF TurnsInv, MoreRegisters, Moves
  <1> DEFINE t == drv.t
  <1>a. /\ t.src \in Nat /\ t.dest \in Nat /\ t.count \in Nat /\ t.count > 0
        /\ t.src_step \in Steps /\ t.dest_step \in Steps
    BY <1>0, TransferShape
  <1>t. drv'.t = t
    BY Polling
  <1> HIDE DEF t
  <1>b. \A k \in Int : /\ At(t.src, t.src_step, 0) = t.src /\ At(t.dest, t.dest_step, 0) = t.dest
                       /\ At(t.src, t.src_step, k + 1) = At(t.src, t.src_step, k) + t.src_step
                       /\ At(t.dest, t.dest_step, k + 1) = At(t.dest, t.dest_step, k) + t.dest_step
    <2>1. /\ At(t.src, t.src_step, 0) = t.src
          /\ \A k \in Int : At(t.src, t.src_step, k + 1) = At(t.src, t.src_step, k) + t.src_step
      <3>1. t.src \in Int
        BY <1>a
      <3> QED BY <1>a, <3>1, AtNext, Zenon
    <2>2. /\ At(t.dest, t.dest_step, 0) = t.dest
          /\ \A k \in Int :
               At(t.dest, t.dest_step, k + 1) = At(t.dest, t.dest_step, k) + t.dest_step
      <3>1. t.dest \in Int
        BY <1>a
      <3> QED BY <1>a, <3>1, AtNext, Zenon
    <2> QED BY <2>1, <2>2
  <1>1. CASE drv.pc = "ctrl"
    <2>1. /\ dma'.state \in {"IDLE", "WAIT_BUS"}
          /\ dma'.src = t.src /\ dma'.dest = t.dest /\ dma'.cnt = t.count
          /\ dma'.src_step = t.src_step /\ dma'.dest_step = t.dest_step
      BY <1>1, Polling DEF t
    <2>2. Copied' = 0
      BY <1>a, <1>t, <2>1 DEF Copied
    <2> QED BY <1>a, <1>b, <1>t, <2>1, <2>2 DEF Progress
  <1>2. CASE drv.pc = "poll"
    <2>0. dma.cnt \in 0 .. t.count /\ Copied = t.count - dma.cnt
      BY <1>0, <1>2 DEF Progress, Copied, t
    <2>a. dma.state \in PolledStates /\ (dma.state = "IDLE" => dma' = dma)
      BY <1>2, Polling
    <2>1. CASE dma.state = "IDLE"
      BY <1>t, <2>0, <2>1, <2>a DEF Progress, Busy
    <2>2. CASE Busy
      <3>1. /\ dma.src_step = t.src_step /\ dma.dest_step = t.dest_step
            /\ dma.dest = At(t.dest, t.dest_step, Copied)
            /\ dma.src = At(t.src, t.src_step, IF dma.state = "WRITING" THEN Copied + 1 ELSE Copied)
        BY <1>0, <1>2, <2>2 DEF Progress, t
      <3>2. CASE dma.state = "WAIT_BUS"
        <4>1. Copied' = Copied
          BY <1>0, <1>t, <2>0, <3>2 DEF DmaMoves, Copied
        <4> QED BY <1>0, <1>t, <2>0, <3>1, <3>2, <4>1 DEF DmaMoves, Progress
      <3>3. CASE OnBus /\ access_timeout
        BY <1>0, <1>t, <2>0, <3>3 DEF DmaMoves, Progress, Busy
      <3>4. CASE OnBus /\ ~access_timeout /\ ~fc_bus
        <4>1. dma' = dma /\ Copied' = Copied
          BY <1>0, <1>t, <2>0, <3>4 DEF DmaMoves, Copied
        <4> QED BY <1>0, <1>t, <2>0, <3>1, <4>1 DEF Progress
      <3>5. CASE dma.state = "READING" /\ ~access_timeout /\ fc_bus
        <4>1. Copied' = Copied
          BY <1>0, <1>t, <2>0, <3>5 DEF DmaMoves, Copied
        <4>2. dma'.src = At(t.src, t.src_step, Copied + 1)
          BY <1>0, <1>a, <1>b, <2>0, <3>1, <3>5 DEF DmaMoves
        <4> QED BY <1>0, <1>t, <2>0, <3>1, <3>5, <4>1, <4>2 DEF DmaMoves, Progress
      <3>6. CASE dma.state = "WRITING" /\ ~access_timeout /\ fc_bus /\ dma.cnt # 0
        <4>1. dma'.cnt = dma.cnt - 1 /\ dma'.state = "READING"
          BY <1>0, <3>6 DEF DmaMoves
        <4>2. Copied' = Copied + 1 /\ dma'.cnt \in 0 .. t.count
          BY <1>a, <1>t, <2>0, <3>6, <4>1 DEF Copied
        <4>3. dma'.dest = At(t.dest, t.dest_step, Copied + 1)
          BY <1>0, <1>a, <1>b, <2>0, <3>1, <3>6 DEF DmaMoves
        <4> QED BY <1>0, <1>t, <3>1, <3>6, <4>1, <4>2, <4>3 DEF DmaMoves, Progress
      <3>7. CASE dma.state = "WRITING" /\ ~access_timeout /\ fc_bus /\ dma.cnt = 0
        BY <1>0, <1>t, <2>0, <3>7 DEF DmaMoves, Progress, Busy
      <3> QED BY <2>2, <3>2, <3>3, <3>4, <3>5, <3>6, <3>7 DEF Busy, OnBus
    <2> QED BY <2>1, <2>2, <2>a DEF PolledStates, Busy
  <1> QED BY <1>1, <1>2, Polling

\* A load of the count brings the count.
LEMMA PolledStep ==
  ASSUME TurnsInv, NEW i, Moves(i)
  PROVE  Polled'
  <1> SUFFICES ASSUME drv'.pc = "poll", cpu'.state = "EXEC_INST_MEM_WAIT", cbi'.done
               PROVE  cbi'.mdr = dma'.cnt
    BY DEF Polled
  <1>0. /\ GrantInv /\ Turns /\ Asking /\ Serving /\ Driven
        /\ CpuMoves(i) /\ CbiMoves /\ DmaMoves /\ DrvMoves /\ Serving' /\ Turns'
    BY ServingStep, TurnsStep DEF TurnsInv, Moves
  <1>1. cpu.state = "EXEC_INST_MEM_WAIT" /\ cbi.state = "WAITING_ACK"
    <2>1. cbi'.state = "DONE"
      BY <1>0 DEF Serving
    <2>2. cpu.state = "EXEC_INST_MEM_WAIT"
      BY <1>0, <2>1 DEF CpuMoves, CbiMoves, Turns
    <2> QED BY <1>0, <2>1, <2>2 DEF CpuMoves, CbiMoves, Turns, Serving
  <1>2. ~access_timeout /\ fc_bus /\ cbi'.mdr = IF cbi.is_wr THEN cbi.mdr ELSE data_bus
    BY <1>0, <1>1 DEF CbiMoves, Serving
  <1>3. drv.pc = "poll"
    BY <1>0, <1>1, DriverWaits DEF Begins
  <1>4. ~cbi.is_wr /\ cbi.mar = DmaStart + 3 /\ cbi.mar \in DmaRegs
    <2>1. ~cbi.is_wr /\ cbi.mar = DmaStart + 3
      BY <1>0, <1>1, <1>3, Served
    <2> QED BY <2>1, BusAssumption DEF DmaRegs
  <1>5. dma.state = "IDLE" /\ dma' = dma
    <2>1. ~Busy
      BY <1>0, <1>1 DEF Turns, Busy
    <2> QED BY <1>3, <2>1, DmaStays DEF Stores
  <1>6. data_bus = dma.cnt
    <2>1. CpuOn
      BY <1>1, <1>5 DEF CpuOn, OnBus
    <2>2. addr_bus = DmaStart + 3 /\ ~wr_bus /\ rd_bus
      BY <1>0, <1>4, <2>1, BusInUse
    <2>3. ~(\E m \in {"ROM", "RAM"} : req(m))
      BY <1>4, <2>2, BusAssumption DEF req, Bytes
    <2>4. read_req
      BY <1>4, <2>2 DEF read_req, addr_hit
    <2>5. data_bus = dma_register(addr_bus - DmaStart)
      BY <1>5, <2>2, <2>3, <2>4 DEF data_bus
    <2>6. addr_bus - DmaStart = 3
      BY <2>2, BusAssumption
    <2> QED BY <2>5, <2>6 DEF dma_register
  <1> QED BY <1>2, <1>4, <1>5, <1>6

\* While a transfer is programmed or polled, only the DMA writes the RAM.
LEMMA RamWritten ==
  ASSUME TurnsInv, NEW i, Moves(i), drv.pc # "idle" \/ Quiet
  PROVE  /\ \A a \in Ram : mem'.ram[a] = IF dma.state = "WRITING" /\ a = dma.dest THEN dma.data
                                         ELSE mem.ram[a]
         /\ dma.state # "WRITING" => mem'.ram = mem.ram
  <1>0. /\ GrantInv /\ Turns /\ Asking /\ Serving /\ Driven /\ MoreRegisters /\ MoreRegisters'
        /\ MemMoves
    BY MoreRegistersStep DEF TurnsInv, Moves
  <1>1. wr_bus /\ addr_bus \in Ram => dma.state = "WRITING"
    <2>1. CASE CpuOn
      <3>1. addr_bus = cbi.mar /\ (wr_bus <=> cbi.is_wr)
        BY <1>0, <2>1, BusInUse
      <3>2. cbi.is_wr => cbi.mar \in DmaRegs
        BY <1>0, <2>1, Served DEF CpuOn, Quiet, Driven
      <3>3. Ram \intersect DmaRegs = {}
        BY BusAssumption
      <3> QED BY <3>1, <3>2, <3>3
    <2>2. CASE OnBus
      BY <1>0, <2>2, BusInUse DEF OnBus
    <2>3. CASE Quiet
      BY <1>0, <2>3, BusInUse
    <2> QED BY <2>1, <2>2, <2>3 DEF Quiet
  <1>2. dma.state = "WRITING" => addr_bus = dma.dest /\ wr_bus /\ data_bus = dma.data
    BY <1>0, BusInUse
  <1>3. ASSUME NEW a \in Ram
        PROVE  mem'.ram[a] = IF dma.state = "WRITING" /\ a = dma.dest THEN dma.data
                             ELSE mem.ram[a]
    <2>1. mem'.ram[a] = IF wr_bus /\ a = addr_bus THEN data_bus ELSE mem.ram[a]
      BY <1>0 DEF MemMoves
    <2> QED BY <1>1, <1>2, <2>1
  <1>4. ASSUME dma.state # "WRITING" PROVE mem'.ram = mem.ram
    <2>1. \A a \in Ram : mem'.ram[a] = mem.ram[a]
      BY <1>3, <1>4
    <2>2. mem.ram = [a \in Ram |-> mem.ram[a]] /\ mem'.ram = [a \in Ram |-> mem'.ram[a]]
      BY <1>0 DEF MoreRegisters
    <2> QED BY <2>1, <2>2
  <1> QED BY <1>3, <1>4

\* Bytes change only where they should.
LEMMA ChangedStep ==
  ASSUME TurnsInv, NEW i, Moves(i)
  PROVE  Changed'
  <1>0. /\ Turns /\ Driven /\ Progress /\ Changed /\ DrvMoves /\ MoreRegisters
    BY DEF TurnsInv, Moves
  <1>1. ASSUME drv'.pc \in Stores PROVE mem'.ram = ghost'.ram
    <2>1. CASE Begins
      <3>1. Quiet /\ dma.state # "WRITING"
        BY <1>0, <2>1 DEF Begins, Turns, Driven, Busy, Quiet, CpuOn, OnBus
      <3>2. mem'.ram = mem.ram
        BY <3>1, RamWritten
      <3> QED BY <2>1, <3>2 DEF Begins
    <2>2. CASE Goes
      <3>1. drv.pc \in Stores
        BY <1>1, <2>2 DEF Goes, Stores
      <3>2. dma.state # "WRITING" /\ drv.pc # "idle"
        BY <1>0, <3>1 DEF Driven, Busy, Stores
      <3>3. mem'.ram = mem.ram
        BY <3>2, RamWritten
      <3> QED BY <1>0, <2>2, <3>1, <3>3 DEF Goes, Changed
    <2> QED BY <1>0, <2>1, <2>2 DEF DrvMoves
  <1>2. ASSUME drv'.pc = "poll", NEW a \in Ram, mem'.ram[a] # ghost'.ram[a]
        PROVE  \E j \in 0 .. drv'.t.count : a = At(drv'.t.dest, drv'.t.dest_step, j)
    <2>1. drv'.t = drv.t /\ drv.pc \in {"ctrl", "poll"}
      BY <1>2, Polling
    <2>2. ghost'.ram = ghost.ram
      BY <1>0, <1>2 DEF DrvMoves, Begins, Goes
    <2>3. mem'.ram[a] = IF dma.state = "WRITING" /\ a = dma.dest THEN dma.data ELSE mem.ram[a]
      BY <2>1, RamWritten
    <2>4. CASE drv.pc = "ctrl"
      <3>1. dma.state # "WRITING" /\ mem.ram = ghost.ram
        BY <1>0, <2>4 DEF Driven, Busy, Changed, Stores
      <3> QED BY <1>2, <2>2, <2>3, <3>1
    <2>5. CASE drv.pc = "poll" /\ dma.state = "WRITING" /\ a = dma.dest
      <3>1. drv.t.count \in Nat
        BY <1>0, TransferShape DEF MoreRegisters
      <3>2. dma.cnt \in 0 .. drv.t.count /\ dma.dest = At(drv.t.dest, drv.t.dest_step, Copied)
        BY <1>0, <2>5 DEF Progress, Busy
      <3>3. Copied \in 0 .. drv.t.count
        BY <3>1, <3>2 DEF Copied
      <3> QED BY <2>1, <2>5, <3>2, <3>3
    <2>6. CASE drv.pc = "poll" /\ ~(dma.state = "WRITING" /\ a = dma.dest)
      BY <1>0, <1>2, <2>1, <2>2, <2>3, <2>6 DEF Changed
    <2> QED BY <2>1, <2>4, <2>5, <2>6
  <1> QED BY <1>1, <1>2 DEF Changed

\* Multiples.
LEMMA Distribute ==
  ASSUME NEW x \in Int, NEW y \in Int, NEW z \in Int
  PROVE  x * (y + z) = x * y + x * z
  OBVIOUS

LEMMA Monotone ==
  ASSUME NEW x \in Nat, NEW y \in Int, NEW z \in Int, y <= z
  PROVE  x * y <= x * z
  OBVIOUS

LEMMA Division ==
  ASSUME NEW a \in Int, NEW n \in Int, n > 0
  PROVE  \E q \in Int : a = n * q + (a % n)
  <1>1. a \div n \in Int
    OBVIOUS
  <1>2. a = n * (a \div n) + (a % n)
    OBVIOUS
  <1> QED BY <1>1, <1>2

\* Between multiples of n there are whole words of n.
LEMMA WordBetween ==
  ASSUME NEW n \in Nat, n > 0, NEW q \in Int, NEW r \in Int, NEW s \in Int,
         NEW x \in 0 .. n - 1, n * q <= n * s + x, n * s + x < n * r
  PROVE  n * q <= n * s /\ n * s + n <= n * r
  <1>0. n * q \in Int /\ n * s \in Int /\ n * r \in Int /\ n \in Int /\ x \in Int
    OBVIOUS
  <1>1. q <= s
    <2> SUFFICES ASSUME s + 1 <= q PROVE FALSE
      OBVIOUS
    <2>1. n * (s + 1) <= n * q
      BY Monotone
    <2>2. n * (s + 1) = n * s + n * 1 /\ n * 1 = n
      BY Distribute
    <2> QED BY <1>0, <2>1, <2>2
  <1>2. s + 1 <= r
    <2> SUFFICES ASSUME r <= s PROVE FALSE
      OBVIOUS
    <2>1. n * r <= n * s
      BY Monotone
    <2> QED BY <1>0, <2>1
  <1>3. n * q <= n * s
    BY <1>1, Monotone
  <1>4. n * (s + 1) <= n * r
    BY <1>2, Monotone
  <1>5. n * (s + 1) = n * s + n * 1 /\ n * 1 = n
    BY Distribute
  <1> QED BY <1>0, <1>3, <1>4, <1>5

\* The words of the ROM are in the ROM.
LEMMA RomWord ==
  ASSUME NEW a \in Rom, NEW k \in 0 .. Lanes - 1
  PROVE  a - (a % Lanes) + k \in Rom
  <1>1. /\ RomStart \in Nat /\ RomSize \in Nat /\ Lanes \in Nat /\ Lanes > 0
        /\ RomStart % Lanes = 0 /\ RomSize % Lanes = 0
        /\ a \in Int /\ a >= RomStart /\ a < RomStart + RomSize
        /\ RomStart \in Int /\ RomSize \in Int /\ Lanes \in Int
    BY BusAssumption DEF Rom
  <1>2. a % Lanes \in 0 .. Lanes - 1
    BY <1>1
  <1>3. PICK q \in Int : RomStart = Lanes * q + (RomStart % Lanes)
    BY <1>1, Division, Zenon
  <1>4. PICK r \in Int : RomSize = Lanes * r + (RomSize % Lanes)
    BY <1>1, Division, Zenon
  <1>5. PICK s \in Int : a = Lanes * s + (a % Lanes)
    BY <1>1, Division, Zenon
  <1>6. Lanes * q \in Int /\ Lanes * r \in Int /\ Lanes * s \in Int
    BY <1>1
  <1>7. RomStart = Lanes * q /\ RomSize = Lanes * r
    BY <1>1, <1>3, <1>4, <1>6
  <1>8. Lanes * (q + r) = RomStart + RomSize
    BY <1>1, <1>7, Distribute
  <1>9. Lanes * q <= Lanes * s /\ Lanes * s + Lanes <= Lanes * (q + r)
    <2>1. Lanes * q <= Lanes * s + (a % Lanes) /\ Lanes * s + (a % Lanes) < Lanes * (q + r)
      BY <1>1, <1>5, <1>7, <1>8
    <2>2. q + r \in Int
      OBVIOUS
    <2> QED BY <1>1, <1>2, <2>1, <2>2, WordBetween
  <1> DEFINE w == Lanes * s  z == a % Lanes
  <1>10. w \in Int /\ z \in Int /\ a = w + z /\ RomStart <= w /\ w + Lanes <= RomStart + RomSize
    BY <1>2, <1>5, <1>6, <1>7, <1>8, <1>9
  <1> HIDE DEF w, z
  <1>11. a - z + k \in Rom
    BY <1>1, <1>10 DEF Rom
  <1> QED BY <1>11 DEF z

\* The byte at a in the word of its address.
LEMMA RomByte ==
  ASSUME NEW a \in Rom
  PROVE  [n \in 0 .. Lanes - 1 |-> a - (a % Lanes) + n][a % Lanes] = a
  <1>1. a \in Int /\ Lanes \in Int /\ Lanes > 0
    BY BusAssumption DEF Rom
  <1>2. a % Lanes \in 0 .. Lanes - 1
    BY <1>1
  <1>3. a - (a % Lanes) + (a % Lanes) = a
    BY <1>1, <1>2
  <1> QED BY <1>2, <1>3

\* What is read from the ROM is the byte of the address.
LEMMA RomRead ==
  ASSUME TurnsInv, drv.pc = "poll", FromRom(drv.t), dma.state = "READING", dma.src \in Rom,
         fc_bus
  PROVE  data_bus = dma.src
  <1>0. GrantInv /\ Turns /\ Arrived
    BY DEF TurnsInv
  <1>1. addr_bus = dma.src /\ rd_bus /\ ~wr_bus /\ OnBus
    BY <1>0, BusInUse DEF OnBus
  <1>2. mem.state["ROM"] = "DONE"
    <2>1. DmaAnswered
      BY <1>0, <1>1, Answering
    <2> QED BY <2>1, BusAssumption DEF DmaAnswered, DmaAddr, Bytes, Mems
  <1>3. mem.out["ROM"] = [n \in 0 .. Lanes - 1 |-> dma.src - (dma.src % Lanes) + n]
    BY <1>0, <1>2 DEF Arrived
  <1>4. req("ROM") /\ ~read_req
    BY <1>1, BusAssumption DEF req, Bytes, read_req, addr_hit
  <1>5. data_bus = mem.out["ROM"][dma.src % Lanes]
    BY <1>1, <1>4 DEF data_bus, mem_data
  <1> QED BY <1>3, <1>5, RomByte

\* What has been copied from the ROM is there.
LEMMA ArrivedStep ==
  ASSUME TurnsInv, NEW i, Moves(i)
  PROVE  Arrived'
  <1> SUFFICES ASSUME drv'.pc = "poll", FromRom(drv'.t) PROVE Arrived'
    BY DEF Arrived
  <1> DEFINE t == drv.t
             S(j) == At(t.src, t.src_step, j)
             D(j) == At(t.dest, t.dest_step, j)
             c == Copied
  <1>0. /\ GrantInv /\ Turns /\ Driven /\ Progress /\ Arrived /\ DmaMoves /\ MemMoves
        /\ t \in Transfers
    BY DEF TurnsInv, MoreRegisters, Moves
  <1>a. /\ t.src \in Nat /\ t.dest \in Nat /\ t.count \in Nat
        /\ t.src_step \in Steps /\ t.dest_step \in Steps
    BY <1>0, TransferShape
  <1>t. drv'.t = t
    BY Polling
  <1>f. FromRom(t)
    BY <1>t
  <1>r. /\ \A k \in 0 .. t.count : S(k) \in Rom /\ D(k) \in Ram
        /\ t.dest_step \in {-1, 1}
    BY <1>a, <1>f DEF FromRom, Within, Steps
  <1>s. SUFFICES /\ \A j \in 0 .. Copied' - 1 : mem'.ram[D(j)] = S(j)
                 /\ dma'.state = "WRITING" => dma'.data = S(Copied')
                 /\ dma'.state = "READING" /\ mem'.state["ROM"] = "DONE" =>
                      mem'.out["ROM"] = [n \in 0 .. Lanes - 1 |->
                                           dma'.src - (dma'.src % Lanes) + n]
    BY <1>t DEF Arrived
  <1>1. CASE drv.pc = "ctrl"
    <2>1. dma'.state \in {"IDLE", "WAIT_BUS"} /\ dma'.cnt = t.count
      BY <1>1, Polling
    <2>2. Copied' = 0
      BY <1>a, <1>t, <2>1 DEF Copied
    <2> QED BY <2>1, <2>2
  <1>2. CASE drv.pc = "poll"
    <2>0. dma.state \in PolledStates /\ (dma.state = "IDLE" => dma' = dma)
      BY <1>2, Polling
    <2>a. dma.cnt \in 0 .. t.count /\ c = t.count - dma.cnt /\ c \in 0 .. t.count
      BY <1>0, <1>2, <1>a DEF Progress, Copied
    <2>b. /\ \A j \in 0 .. c - 1 : mem.ram[D(j)] = S(j)
          /\ dma.state = "WRITING" => dma.data = S(c)
      BY <1>0, <1>2, <1>f DEF Arrived
    <2>c. dma.state = "WRITING" => dma.dest = D(c)
      BY <1>0, <1>2 DEF Progress, Busy
    <2>d. dma.state = "READING" => dma.src = S(c)
      BY <1>0, <1>2 DEF Progress, Busy
    <2>e. \A a \in Ram : mem'.ram[a] = IF dma.state = "WRITING" /\ a = dma.dest THEN dma.data
                                       ELSE mem.ram[a]
      BY <1>2, RamWritten
    <2>f. Copied' = c \/ (Copied' = c + 1 /\ dma.state = "WRITING" /\ dma'.state # "WRITING")
      <3>1. \/ dma'.cnt = dma.cnt
            \/ dma'.cnt = dma.cnt - 1 /\ dma.state = "WRITING" /\ dma'.state # "WRITING"
        BY <1>0, <2>0 DEF DmaMoves, PolledStates, OnBus
      <3> QED BY <1>a, <1>t, <2>a, <3>1 DEF Copied
    <2> HIDE DEF t, c, S, D
    <2>1. ASSUME NEW j \in 0 .. Copied' - 1 PROVE mem'.ram[D(j)] = S(j)
      <3>1. j \in 0 .. c /\ (j \in 0 .. c - 1 \/ (j = c /\ dma.state = "WRITING"))
        BY <2>a, <2>f
      <3>2. D(j) \in Ram
        <4>1. j \in 0 .. t.count
          BY <1>a, <2>a, <3>1
        <4> QED BY <1>r, <4>1
      <3>3. CASE j \in 0 .. c - 1
        <4>1. D(j) # D(c)
          <5>1. t.dest \in Int /\ j \in Int /\ c \in Int /\ j # c
            BY <1>a, <2>a, <3>3
          <5> QED BY <1>r, <5>1, AtOther DEF D
        <4> QED BY <2>b, <2>c, <2>e, <3>2, <3>3, <4>1
      <3>4. CASE j = c /\ dma.state = "WRITING"
        BY <2>b, <2>c, <2>e, <3>2, <3>4
      <3> QED BY <3>1, <3>3, <3>4
    <2>2. ASSUME dma'.state = "WRITING" PROVE dma'.data = S(Copied')
      <3>0. Copied' = c
        BY <2>2, <2>f
      <3>1. CASE dma.state = "WRITING"
        BY <1>0, <2>2, <2>b, <3>0, <3>1 DEF DmaMoves, OnBus
      <3>2. CASE dma.state # "WRITING"
        <4>1. dma.state = "READING" /\ fc_bus /\ dma'.data = data_bus
          BY <1>0, <2>0, <2>2, <3>2 DEF DmaMoves, OnBus, PolledStates
        <4>2. dma.src \in Rom
          BY <1>r, <2>a, <2>d, <4>1
        <4>3. data_bus = dma.src
          BY <1>2, <1>f, <4>1, <4>2, RomRead DEF t
        <4> QED BY <2>d, <3>0, <4>1, <4>3
      <3> QED BY <3>1, <3>2
    <2>3. ASSUME dma'.state = "READING", mem'.state["ROM"] = "DONE"
          PROVE  mem'.out["ROM"] = [n \in 0 .. Lanes - 1 |-> dma'.src - (dma'.src % Lanes) + n]
      <3>1. addr_bus \in Rom
        BY <1>0, <2>3 DEF MemMoves, Mems, req, Bytes
      <3>2. dma.state # "WRITING"
        <4>1. ASSUME dma.state = "WRITING" PROVE addr_bus \in Ram
          BY <1>0, <1>r, <2>a, <2>c, <4>1, BusInUse
        <4> QED BY <3>1, <4>1, BusAssumption
      <3>3. dma.state # "WAIT_BUS"
        <4>1. ASSUME dma.state = "WAIT_BUS" PROVE addr_bus = 0
          <5>1. Quiet
            BY <1>0, <4>1 DEF Turns, Quiet, CpuOn, OnBus
          <5> QED BY <1>0, <5>1, BusInUse
        <4>2. 0 \notin Rom
          BY BusAssumption DEF Rom
        <4> QED BY <3>1, <4>1, <4>2
      <3>4. dma.state = "READING" /\ dma' = dma /\ addr_bus = dma.src
        <4>1. dma.state = "READING"
          BY <2>0, <2>3, <3>2, <3>3 DEF PolledStates
        <4>2. dma' = dma
          BY <1>0, <2>3, <4>1 DEF DmaMoves, OnBus
        <4> QED BY <1>0, <4>1, <4>2, BusInUse
      <3>5. mem'.out["ROM"] = [n \in 0 .. Lanes - 1 |-> byte(dma.src - (dma.src % Lanes) + n)]
        BY <1>0, <3>1, <3>4 DEF MemMoves, Mems, Bytes
      <3>6. ASSUME NEW n \in 0 .. Lanes - 1
            PROVE  byte(dma.src - (dma.src % Lanes) + n) = dma.src - (dma.src % Lanes) + n
        BY <3>1, <3>4, RomWord DEF byte
      <3> QED BY <3>4, <3>5, <3>6
    <2> QED BY <2>1, <2>2, <2>3
  <1> QED BY <1>1, <1>2, Polling

\* A memory that is addressed has answered in the next cycle.
LEMMA ReadyStep ==
  ASSUME TurnsInv, NEW i, Moves(i)
  PROVE  Ready'
  <1>0. /\ GrantInv /\ Turns /\ Ready /\ Watching
        /\ CbiMoves /\ WdMoves /\ DmaMoves /\ MemMoves
    BY DEF TurnsInv, Moves
  <1>1. ASSUME cbi'.state = "WAITING_ACK", NEW m \in Mems, cbi'.mar \in Bytes(m)
        PROVE  mem'.state[m] = "DONE"
    <2>1. CpuOn /\ cbi'.mar = cbi.mar
      BY <1>0, <1>1 DEF CbiMoves, Turns, CpuOn, OnBus
    <2>2. addr_bus = cbi.mar /\ (rd_bus \/ wr_bus)
      BY <1>0, <2>1, BusInUse
    <2> QED BY <1>0, <1>1, <2>1, <2>2 DEF MemMoves, req
  <1>2. ASSUME OnBus', wd'.state = "COUNTING", ~Unanswered', wd'.counter > 3,
               NEW m \in Mems, DmaAddr' \in Bytes(m)
        PROVE  mem'.state[m] = "DONE"
    <2>0. wd.counter \in Nat
      BY <1>0 DEF Watching
    <2>1. wd.state = "COUNTING" /\ ~fc_bus /\ wd.counter > 2
      BY <1>0, <1>2, <2>0 DEF WdMoves, Watching
    <2>2. ~access_timeout
      BY <2>1 DEF access_timeout
    <2>3. dma.state # "WAIT_BUS"
      <3> SUFFICES ASSUME dma.state = "WAIT_BUS" PROVE FALSE
        OBVIOUS
      <3>1. cpu.state = "CHECK_EXC" /\ cbi.state = "DONE" /\ ~OnBus
        BY <1>0 DEF Turns, OnBus
      <3>2. ~Unanswered
        BY <3>1 DEF Unanswered, OnBus
      <3>3. Counts = 2
        BY <3>1 DEF Counts
      <3> QED BY <1>0, <2>0, <2>1, <3>2, <3>3 DEF Watching
    <2>4. OnBus /\ dma' = dma
      BY <1>0, <1>2, <2>1, <2>2, <2>3 DEF Turns, DmaMoves, OnBus
    <2>5. DmaAddr' = DmaAddr
      BY <2>4 DEF DmaAddr
    <2>6. addr_bus = DmaAddr /\ (rd_bus \/ wr_bus)
      BY <1>0, <2>4, BusInUse DEF DmaAddr, OnBus
    <2> QED BY <1>0, <1>2, <2>5, <2>6 DEF MemMoves, req, Bytes
  <1> QED BY <1>1, <1>2 DEF Ready, Bytes

\* An access that somebody answers is answered when the processor waits for it, and
\* in time when the DMA makes it.
LEMMA AnsweredInTime ==
  ASSUME TurnsInv, ~Unanswered
  PROVE  /\ cbi.state = "WAITING_ACK" => fc_bus
         /\ OnBus /\ wd.state = "COUNTING" /\ wd.counter > 3 => fc_bus
  <1>0. GrantInv /\ Turns /\ Asking /\ Serving /\ Driven /\ Ready
    BY DEF TurnsInv
  <1>1. ASSUME cbi.state = "WAITING_ACK" PROVE fc_bus
    <2>1. CpuOn /\ cbi.mar \in Answers
      BY <1>0, <1>1 DEF Turns, CpuOn, OnBus, Unanswered
    <2>2. CASE cbi.mar \in DmaRegs
      <3>1. cpu.state = "EXEC_INST_MEM_WAIT" /\ drv.pc # "idle"
        BY <1>0, <1>1, <2>2, Served
      <3>2. drv.pc \in Stores => dma.state = "WAIT_ACK"
        BY <1>0, <1>1, <3>1 DEF Driven
      <3>3. drv.pc = "poll" => ~cbi.is_wr
        BY <1>0, <1>1, <3>1, Served
      <3>4. CpuAnswered
        BY <1>0, <2>2, <3>1, <3>2, <3>3 DEF CpuAnswered, Driven
      <3> QED BY <1>0, <2>1, <3>4, Answering
    <2>3. CASE cbi.mar \in Rom \union Ram
      <3>1. \E m \in Mems : cbi.mar \in Bytes(m)
        BY <2>3 DEF Mems, Bytes
      <3>2. CpuAnswered
        BY <1>0, <1>1, <3>1 DEF Ready, CpuAnswered
      <3> QED BY <1>0, <2>1, <3>2, Answering
    <2> QED BY <2>1, <2>2, <2>3 DEF Answers
  <1>2. ASSUME OnBus, wd.state = "COUNTING", wd.counter > 3 PROVE fc_bus
    <2>1. \/ DmaAddr \in Rom \union Ram
          \/ dma.state = "READING" /\ dma.src \in DmaRegs
      BY <1>2 DEF Unanswered, DmaAddr, OnBus, Answers
    <2>2. CASE DmaAddr \in Rom \union Ram
      <3>1. \E m \in Mems : DmaAddr \in Bytes(m)
        BY <2>2 DEF Mems, Bytes
      <3>2. DmaAnswered
        BY <1>0, <1>2, <3>1 DEF Ready, DmaAnswered
      <3> QED BY <1>0, <1>2, <3>2, Answering
    <2>3. CASE dma.state = "READING" /\ dma.src \in DmaRegs
      <3>1. DmaAnswered
        BY <2>3 DEF DmaAnswered
      <3> QED BY <1>0, <1>2, <3>1, Answering
    <2> QED BY <2>1, <2>2, <2>3
  <1> QED BY <1>1, <1>2

\* An access that nobody answers goes on until the watchdog stops it.
LEMMA UnansweredStays ==
  ASSUME TurnsInv, NEW i, Moves(i), Unanswered, ~access_timeout
  PROVE  ~fc_bus /\ Unanswered'
  <1>0. GrantInv /\ Turns /\ CbiMoves /\ DmaMoves
    BY DEF TurnsInv, Moves
  <1>1. CASE OnBus
    <2>1. /\ dma.state = "READING" => dma.src \notin Answers
          /\ dma.state = "WRITING" => dma.dest \notin Rom \union Ram
      BY <1>1 DEF Unanswered, OnBus
    <2>2. ~DmaAnswered
      BY <1>1, <2>1 DEF DmaAnswered, DmaAddr, Bytes, Mems, Answers, OnBus
    <2>3. ~fc_bus
      BY <1>0, <1>1, <2>2, Answering
    <2>4. dma' = dma
      BY <1>0, <1>1, <2>3 DEF DmaMoves
    <2> QED BY <1>1, <2>1, <2>3, <2>4 DEF Unanswered, OnBus, Answers, DmaRegs, Rom, Ram
  <1>2. CASE ~OnBus
    <2>1. CpuOn /\ cbi.mar \notin Answers
      BY <1>2 DEF Unanswered, OnBus, CpuOn
    <2>2. ~CpuAnswered
      BY <2>1 DEF CpuAnswered, Bytes, Mems, Answers
    <2>3. ~fc_bus
      BY <1>0, <2>1, <2>2, Answering
    <2>4. cbi'.state \in {"WAITING_BUS", "WAITING_ACK"} /\ cbi'.mar = cbi.mar
      BY <1>0, <1>2, <2>1, <2>3 DEF CpuOn, CbiMoves
    <2>5. ~OnBus'
      BY <1>0, <2>1 DEF Turns, CpuOn, DmaMoves, OnBus
    <2> QED BY <2>1, <2>3, <2>4, <2>5 DEF Unanswered, Answers, DmaRegs, Rom, Ram
  <1> QED BY <1>1, <1>2

\* Between two accesses, and during one, the watchdog counts no further than this.
LEMMA CountsStep ==
  ASSUME TurnsInv, NEW i, Moves(i), wd.state = "COUNTING", ~fc_bus, ~Unanswered,
         wd.counter \in Nat, wd.counter <= Counts
  PROVE  wd.counter + 1 <= Counts'
  <1>0. /\ Turns /\ Turns' /\ Asking /\ Serving /\ Driven
        /\ CpuMoves(i) /\ CbiMoves /\ DmaMoves
    BY TurnsStep DEF TurnsInv, Moves
  <1>a. ~access_timeout
    BY DEF access_timeout
  <1>b. cbi.state # "WAITING_ACK" /\ (OnBus => wd.counter <= 3)
    BY AnsweredInTime
  <1>1. CASE OnBus
    <2>1. dma' = dma
      BY <1>0, <1>1, <1>a DEF DmaMoves
    <2>2. Counts' = 4
      BY <1>1, <2>1 DEF Counts, OnBus
    <2> QED BY <1>1, <1>b, <2>2
  <1>2. CASE ~OnBus /\ cpu.state = "RD_INST_REQ"
    <2>1. Counts = 5
      BY <1>2 DEF Counts
    <2>2. dma.state = "IDLE" /\ cbi.state = "WAITING_REQ" /\ ~StoresRegister
      BY <1>0, <1>2 DEF Turns, OnBus, StoresRegister, CpuOn
    <2>3. cpu'.state = "RD_INST_WAIT" /\ cbi'.state = "WAITING_REQ" /\ ~OnBus'
      BY <1>0, <1>2, <2>2 DEF CpuMoves, CbiMoves, DmaMoves, Asking, OnBus
    <2>4. Counts' = 6
      BY <2>3 DEF Counts
    <2> QED BY <2>1, <2>4
  <1>3. CASE ~OnBus /\ cpu.state = "RD_INST_WAIT" /\ cbi.state # "DONE"
    <2>1. /\ cbi.state = "WAITING_REQ" => Counts = 6
          /\ cbi.state = "WAITING_BUS" => Counts = 7
      BY <1>3 DEF Counts
    <2>2. dma.state = "IDLE" /\ ~StoresRegister
      BY <1>0, <1>3, Served DEF Turns, OnBus, StoresRegister, CpuOn
    <2>3. cpu'.state = "RD_INST_WAIT" /\ ~OnBus'
      BY <1>0, <1>3, <2>2 DEF CpuMoves, DmaMoves, Serving, OnBus
    <2>4. /\ cbi.state = "WAITING_REQ" => cbi'.state = "WAITING_BUS"
          /\ cbi.state = "WAITING_BUS" => cbi'.state = "WAITING_ACK"
      BY <1>0, <1>3 DEF CbiMoves, Asking
    <2>5. /\ cbi'.state = "WAITING_BUS" => Counts' = 7
          /\ cbi'.state = "WAITING_ACK" => Counts' = 8
      BY <2>3 DEF Counts
    <2> QED BY <1>0, <1>3, <1>b, <2>1, <2>4, <2>5 DEF Turns
  <1>4. CASE ~OnBus /\ cpu.state = "RD_INST_WAIT" /\ cbi.state = "DONE"
    <2>1. Counts = 1
      BY <1>4 DEF Counts
    <2>2. cpu'.state \in {"CHECK_EXC", "DECODE_INST"} /\ cbi'.state = "DONE" /\ ~OnBus'
      BY <1>0, <1>4 DEF Turns, CpuMoves, CbiMoves, DmaMoves, Asking, Serving, OnBus,
         StoresRegister, CpuOn
    <2>3. Counts' = 2
      BY <2>2 DEF Counts
    <2> QED BY <2>1, <2>3
  <1>5. CASE ~OnBus /\ cpu.state = "DECODE_INST"
    <2>1. Counts = 2
      BY <1>5 DEF Counts
    <2>2. cpu'.state = "EXEC_INST"
      BY <1>0, <1>5 DEF CpuMoves
    <2>3. Counts' = 3
      BY <1>0, <2>2 DEF Counts, Turns, OnBus
    <2> QED BY <2>1, <2>3
  <1>6. CASE ~OnBus /\ cpu.state = "EXEC_INST"
    <2>1. Counts = 3
      BY <1>6 DEF Counts
    <2>2. cpu'.state \in {"EXEC_INST_MEM_WAIT", "CHECK_EXC"} /\ cbi'.state = "WAITING_REQ"
      BY <1>0, <1>6 DEF CpuMoves, CbiMoves, Turns, Asking
    <2>3. Counts' = 4
      BY <1>0, <2>2 DEF Counts, Turns, OnBus
    <2> QED BY <2>1, <2>3
  <1>7. CASE ~OnBus /\ cpu.state = "EXEC_INST_MEM_WAIT" /\ cbi.state # "DONE"
    <2>1. /\ cbi.state = "WAITING_REQ" => Counts = 4
          /\ cbi.state = "WAITING_BUS" => Counts = 5
      BY <1>7 DEF Counts
    <2>2. cpu'.state = "EXEC_INST_MEM_WAIT" /\ cpu' = cpu
      BY <1>0, <1>7 DEF CpuMoves, Serving
    <2>3. cpu.rd \/ cpu.wr
      <3>1. IsAccess(Asked)
        BY <1>0, <1>7, AccessShape DEF Asking, Driven
      <3> QED BY <3>1 DEF IsAccess, Asked
    <2>4. /\ cbi.state = "WAITING_REQ" => cbi'.state = "WAITING_BUS"
          /\ cbi.state = "WAITING_BUS" => cbi'.state = "WAITING_ACK"
      BY <1>0, <1>7, <2>3 DEF CbiMoves
    <2>5. /\ cbi'.state = "WAITING_BUS" => Counts' = 5
          /\ cbi'.state = "WAITING_ACK" => Counts' = 6
      BY <1>0, <2>2 DEF Counts, Turns, OnBus
    <2> QED BY <1>0, <1>7, <1>b, <2>1, <2>4, <2>5 DEF Turns
  <1>8. CASE ~OnBus /\ cpu.state = "EXEC_INST_MEM_WAIT" /\ cbi.state = "DONE"
    <2>1. Counts = 1
      BY <1>8 DEF Counts
    <2>2. cpu'.state = "CHECK_EXC"
      BY <1>0, <1>8 DEF CpuMoves, Serving
    <2>3. Counts' \in {2, 4}
      BY <1>0, <2>2 DEF Counts, Turns, OnBus
    <2> QED BY <2>1, <2>3
  <1>9. CASE ~OnBus /\ cpu.state = "CHECK_EXC"
    <2>1. cpu'.state = "RD_INST_REQ"
      BY <1>0, <1>9 DEF CpuMoves
    <2>2. Counts' = IF OnBus' THEN 4 ELSE 5
      BY <2>1 DEF Counts
    <2>3. CASE cbi.state = "DONE"
      <3>1. Counts = 2
        BY <1>9, <2>3 DEF Counts
      <3> QED BY <2>2, <3>1
    <2>4. CASE cbi.state # "DONE"
      <3>1. Counts = 4
        BY <1>9, <2>4 DEF Counts
      <3>2. dma.state = "IDLE" /\ ~StoresRegister
        BY <1>0, <1>9, <2>4 DEF Turns, StoresRegister, CpuOn
      <3>3. ~OnBus'
        BY <1>0, <3>2 DEF DmaMoves, OnBus
      <3> QED BY <2>2, <3>1, <3>3
    <2> QED BY <2>3, <2>4
  <1> QED BY <1>0, <1>1, <1>2, <1>3, <1>4, <1>5, <1>6, <1>7, <1>8, <1>9 DEF Turns

LEMMA CountsBounds == Turns => Counts \in 1 .. 8 /\ (Counts = 8 => cbi.state = "WAITING_ACK")
  <1> SUFFICES ASSUME Turns
               PROVE  Counts \in 1 .. 8 /\ (Counts = 8 => cbi.state = "WAITING_ACK")
    OBVIOUS
  <1>1. CASE OnBus
    <2>1. Counts = 4
      BY <1>1 DEF Counts
    <2> QED BY <2>1
  <1>2. CASE ~OnBus
    BY <1>2 DEF Turns, Counts
  <1> QED BY <1>1, <1>2

LEMMA CountsBoundsNext ==
  (Turns => Counts \in 1 .. 8 /\ (Counts = 8 => cbi.state = "WAITING_ACK"))'
  BY CountsBounds, PTL

\* A transfer that was stopped stays stopped until another begins.
LEMMA AbortedStays ==
  ASSUME TurnsInv, NEW i, Moves(i), ~(OnBus /\ access_timeout)
  PROVE  /\ ghost'.aborted \in BOOLEAN
         /\ ghost'.aborted => ghost.aborted /\ dma' = dma
         /\ ghost.aborted /\ cpu.state # "CHECK_EXC" => ghost'.aborted
  <1>0. /\ Driven /\ DrvMoves /\ ghost.aborted \in BOOLEAN
    BY DEF TurnsInv, Moves, Stops
  <1>1. CASE Begins
    BY <1>1 DEF Begins
  <1>2. CASE Goes
    <2>1. ghost'.aborted = ghost.aborted
      BY <1>2 DEF Goes
    <2>2. ghost.aborted => drv.pc \notin Stores /\ ~Busy
      BY <1>0 DEF Driven, Stores
    <2> QED BY <1>0, <2>1, <2>2, DmaStays
  <1> QED BY <1>0, <1>1, <1>2 DEF DrvMoves

\* Whoever is stopped by the watchdog.
LEMMA Notified ==
  ASSUME TurnsInv, access_timeout
  PROVE  /\ OnBus => Unanswered
         /\ CpuOn => Unanswered \/ (cpu.state = "RD_INST_WAIT" /\ ghost.aborted)
  BY DEF TurnsInv, Watching, access_timeout, Driven, Busy, OnBus, CpuOn, Turns

\* The watchdog stops nothing that is answered.
LEMMA WatchingStep ==
  ASSUME TurnsInv, NEW i, Moves(i)
  PROVE  Watching'
  <1>0. /\ GrantInv /\ Turns /\ Asking /\ Serving /\ Driven /\ Watching /\ Stops /\ Turns'
        /\ CpuMoves(i) /\ CbiMoves /\ DmaMoves /\ WdMoves /\ DrvMoves
    BY TurnsStep DEF TurnsInv, Moves
  <1>a. ALLOWED_CYCLES \in Nat /\ ALLOWED_CYCLES > 7
    BY BusAssumption
  <1>b. wd.counter \in 0 .. ALLOWED_CYCLES /\ wd.counter \in Nat
    BY <1>0, <1>a DEF Watching
  <1>c. Counts' \in 1 .. 8
    BY <1>0, CountsBoundsNext
  <1>1. CASE wd.state = "IDLE"
    <2>1. wd.counter <= 1 /\ wd'.counter = wd.counter /\ wd'.state \in {"IDLE", "COUNTING"}
      BY <1>0, <1>1 DEF Watching, WdMoves
    <2> QED BY <1>a, <1>b, <1>c, <2>1 DEF Watching
  <1>2. CASE wd.state = "COUNTING" /\ fc_bus
    <2>1. wd'.state = "IDLE" /\ wd'.counter = 0
      BY <1>0, <1>2 DEF WdMoves
    <2> QED BY <1>a, <2>1 DEF Watching
  <1>3. CASE wd.state = "COUNTING" /\ ~fc_bus /\ wd.counter # ALLOWED_CYCLES
    <2>1. wd'.state = "COUNTING" /\ wd'.counter = wd.counter + 1
      BY <1>0, <1>3 DEF WdMoves
    <2>2. wd'.counter <= Counts' \/ Unanswered'
      <3>1. CASE Unanswered
        BY <1>3, <3>1, UnansweredStays DEF access_timeout
      <3>2. CASE ~Unanswered
        <4>1. wd.counter <= Counts
          BY <1>0, <1>3, <3>2 DEF Watching
        <4> QED BY <1>3, <1>b, <2>1, <3>2, <4>1, CountsStep
      <3> QED BY <3>1, <3>2
    <2> QED BY <1>3, <1>a, <1>b, <2>1, <2>2 DEF Watching
  <1>4. CASE wd.state = "COUNTING" /\ ~fc_bus /\ wd.counter = ALLOWED_CYCLES
    <2>1. wd'.state = "NOTIFYING" /\ wd'.counter = wd.counter
      BY <1>0, <1>4 DEF WdMoves
    <2>2. Unanswered
      <3> SUFFICES ASSUME ~Unanswered PROVE FALSE
        OBVIOUS
      <3>1. wd.counter <= Counts
        BY <1>0, <1>4 DEF Watching
      <3>2. cbi.state = "WAITING_ACK"
        BY <1>0, <1>4, <1>a, <3>1, CountsBounds
      <3> QED BY <1>4, <3>2, AnsweredInTime
    <2>3. Unanswered'
      BY <1>4, <2>2, UnansweredStays DEF access_timeout
    <2> QED BY <1>b, <2>1, <2>3 DEF Watching
  <1>5. CASE wd.state = "NOTIFYING" /\ Quiet
    <2>1. wd'.state = "IDLE" /\ wd'.counter = 1
      BY <1>0, <1>5 DEF WdMoves
    <2> QED BY <1>a, <2>1 DEF Watching
  <1>6. CASE wd.state = "NOTIFYING" /\ ~Quiet
    <2>0. access_timeout
      BY <1>6 DEF access_timeout
    <2>1. wd' = wd
      BY <1>0, <1>6 DEF WdMoves
    <2>2. CASE OnBus
      <3>1. cpu.state \in {"RD_INST_REQ", "RD_INST_WAIT"} /\ cpu'.state = "RD_INST_WAIT"
        BY <1>0, <2>2 DEF Turns, OnBus, CpuMoves, Serving
      <3>2. ghost'.aborted = TRUE
        BY <1>0, <2>0, <2>2, <3>1 DEF DrvMoves, Begins, Goes
      <3> QED BY <1>6, <1>b, <2>1, <3>1, <3>2 DEF Watching
    <2>3. CASE CpuOn /\ cpu.state = "RD_INST_WAIT"
      <3>1. cbi.mar \in Answers
        BY <1>0, <2>3, Served DEF CpuOn, Answers
      <3>2. ghost.aborted
        BY <2>0, <2>3, <3>1, Notified DEF Unanswered, CpuOn, OnBus
      <3>3. ghost'.aborted
        BY <2>3, <3>2, AbortedStays DEF CpuOn
      <3>4. cpu'.state = "RD_INST_WAIT"
        BY <1>0, <2>3 DEF CpuMoves, Serving, CpuOn
      <3> QED BY <1>6, <1>b, <2>1, <3>3, <3>4 DEF Watching
    <2>4. CASE CpuOn /\ cpu.state = "EXEC_INST_MEM_WAIT"
      <3>1. Unanswered /\ cbi.mar \notin Answers
        BY <2>0, <2>4, Notified DEF Unanswered, CpuOn, OnBus
      <3>2. cpu'.state = "EXEC_INST_MEM_WAIT"
        BY <1>0, <2>4 DEF CpuMoves, Serving, CpuOn
      <3>3. CASE cbi.state = "WAITING_ACK"
        <4>1. cbi'.state = "DONE" /\ cbi'.mar = cbi.mar
          BY <1>0, <2>0, <3>3 DEF CbiMoves
        <4> QED BY <1>6, <1>b, <2>1, <3>1, <3>2, <4>1 DEF Watching, Answers, DmaRegs, Rom, Ram
      <3>4. CASE cbi.state = "WAITING_BUS"
        <4>1. cbi'.state = "WAITING_ACK" /\ cbi'.mar = cbi.mar
          BY <1>0, <2>4, <3>4 DEF CbiMoves, CpuOn
        <4>2. ~OnBus'
          BY <1>0, <3>2, <4>1 DEF Turns, OnBus
        <4>3. Unanswered'
          BY <3>1, <4>1, <4>2 DEF Unanswered, Answers, DmaRegs, Rom, Ram
        <4> QED BY <1>6, <1>b, <2>1, <4>3 DEF Watching
      <3> QED BY <2>4, <3>3, <3>4 DEF CpuOn
    <2> QED BY <1>0, <1>6, <2>2, <2>3, <2>4, Served DEF Quiet, CpuOn
  <1> QED BY <1>0, <1>1, <1>2, <1>3, <1>4, <1>5, <1>6 DEF Watching

\* Who was stopped deserved it.
LEMMA StopsStep ==
  ASSUME TurnsInv, NEW i, Moves(i)
  PROVE  Stops'
  <1>0. /\ GrantInv /\ Turns /\ Asking /\ Serving /\ Driven /\ Stops
        /\ CbiMoves /\ DmaMoves /\ DrvMoves /\ cbi.timeout \in BOOLEAN
    BY DEF TurnsInv, Moves, Serving
  <1>1. CASE OnBus /\ access_timeout
    <2>1. ghost'.aborted = TRUE
      BY <1>0, <1>1 DEF DrvMoves, Begins, Goes, Driven, Busy, OnBus
    <2>2. dma.src \notin Rom \union Ram \/ dma.dest \notin Rom \union Ram
      BY <1>1, Notified DEF Unanswered, Answers, OnBus
    <2>3. dma'.src = dma.src /\ dma'.dest = dma.dest
      BY <1>0, <1>1 DEF DmaMoves
    <2> QED BY <2>1, <2>2, <2>3 DEF Stops, Rom, Ram
  <1>2. CASE ~(OnBus /\ access_timeout)
    <2>1. ghost'.aborted \in BOOLEAN
      BY <1>2, AbortedStays
    <2>2. ASSUME ghost'.aborted
          PROVE  dma'.src \notin Rom \union Ram \/ dma'.dest \notin Rom \union Ram
      <3>1. ghost.aborted /\ dma' = dma
        BY <1>2, <2>2, AbortedStays
      <3> QED BY <1>0, <3>1 DEF Stops
    <2>3. ASSUME cbi'.timeout PROVE cbi'.mar \notin Answers \/ ghost'.aborted
      <3>1. CASE cbi.state = "WAITING_ACK" /\ access_timeout
        <4>1. CpuOn /\ cbi'.mar = cbi.mar /\ cpu.state # "CHECK_EXC"
          BY <1>0, <3>1 DEF Turns, CpuOn, OnBus, CbiMoves
        <4>2. cbi.mar \notin Answers \/ ghost.aborted
          BY <3>1, <4>1, Notified DEF Unanswered, CpuOn, OnBus
        <4> QED BY <1>2, <4>1, <4>2, AbortedStays
      <3>2. CASE ~(cbi.state = "WAITING_ACK" /\ access_timeout)
        <4>1. cbi.state = "DONE" /\ cbi.timeout /\ cbi' = cbi /\ (cpu.rd \/ cpu.wr)
          <5>1. cbi'.timeout # FALSE
            BY <2>3
          <5>2. cbi.state = "DONE" /\ cbi' = cbi /\ (cpu.rd \/ cpu.wr)
            BY <1>0, <3>2, <5>1 DEF CbiMoves, Serving, Turns
          <5> QED BY <2>3, <5>2
        <4>2. cpu.state # "CHECK_EXC"
          BY <1>0, <4>1 DEF Asking
        <4> QED BY <1>0, <1>2, <4>1, <4>2, AbortedStays DEF Stops
      <3> QED BY <3>1, <3>2
    <2> QED BY <2>1, <2>2, <2>3 DEF Stops, Answers, DmaRegs, Rom, Ram
  <1> QED BY <1>1, <1>2

LEMMA TurnsInit == BusInit => TurnsInv
  <1> SUFFICES ASSUME BusInit PROVE TurnsInv
    OBVIOUS
  <1>1. /\ cpu.state = "RD_INST_REQ" /\ cpu.rd = FALSE /\ cpu.wr = FALSE
        /\ cbi.state = "WAITING_REQ" /\ cbi.done = FALSE /\ cbi.timeout = FALSE
        /\ wd.state = "IDLE" /\ wd.counter = 0
        /\ dma.state = "IDLE" /\ dma.process_started = FALSE
        /\ drv.pc = "idle" /\ drv.t \in Transfers
        /\ ghost.aborted = FALSE
    BY DEF BusInit
  <1>2. MoreRegisters
    <2>1. drv = [pc |-> drv.pc, t |-> drv.t] /\ drv.t \in Transfers
      BY DEF BusInit
    <2>2. /\ cpu = [state |-> cpu.state, rd |-> cpu.rd, wr |-> cpu.wr, addr |-> cpu.addr,
                    data |-> cpu.data]
          /\ wd = [state |-> wd.state, counter |-> wd.counter]
          /\ ghost = [ram |-> ghost.ram, aborted |-> ghost.aborted]
      BY DEF BusInit
    <2>3. mem = [state |-> [m \in Mems |-> mem.state[m]], out |-> mem.out,
                 ram |-> [a \in Ram |-> mem.ram[a]]]
      BY DEF BusInit, Mems
    <2> QED BY <2>1, <2>2, <2>3 DEF MoreRegisters
  <1>t. Types
    BY DEF BusInit, Types, Mems
  <1>3. Turns /\ Asking /\ Serving /\ Driven
    BY <1>1 DEF Turns, Asking, Serving, Driven, Busy, Stores
  <1>4. Programmed /\ Progress /\ Polled /\ Changed /\ Arrived
    BY <1>1 DEF Programmed, Stored, Progress, Polled, Changed, Arrived, Stores
  <1>5. Ready /\ Watching /\ Stops
    <2>1. ALLOWED_CYCLES \in Nat
      BY BusAssumption
    <2>2. Ready
      BY <1>1 DEF Ready, OnBus
    <2>3. Watching
      BY <1>1, <2>1 DEF Watching
    <2>4. Stops
      <3>1. cbi.timeout = FALSE /\ ghost.aborted = FALSE
        BY <1>1
      <3> QED BY <3>1 DEF Stops
    <2> QED BY <2>2, <2>3, <2>4
  <1> QED BY <1>2, <1>t, <1>3, <1>4, <1>5, GrantInit DEF TurnsInv

LEMMA TurnsInvStep ==
  ASSUME TurnsInv, [BusNext]_bus_vars
  PROVE  TurnsInv'
  <1>1. GrantInv'
    BY GrantStep DEF TurnsInv
  <1>2. CASE BusNext
    <2>1. PICK i : Moves(i)
      BY <1>2, EdgeMoves
    <2> QED BY <1>1, <1>2, <2>1, MoreRegistersStep, TypesStep, TurnsStep, AskingStep, ServingStep, DrivenStep,
               ProgrammedStep, ProgressStep, PolledStep, ChangedStep, ArrivedStep, ReadyStep,
               WatchingStep, StopsStep DEF TurnsInv
  <1>3. CASE UNCHANGED bus_vars
    <2>0. TurnsInv /\ UNCHANGED <<cpu, cbi, arb, wd, mem, dma, drv, ghost>>
      BY <1>3 DEF bus_vars
    <2>1. MoreRegisters' /\ Types' /\ Turns' /\ Serving' /\ Driven'
      BY <2>0 DEF TurnsInv, MoreRegisters, Types, Turns, Serving, Driven, Busy
    <2>2. Asking'
      <3>1. Accesses' = Accesses
        BY <2>0 DEF Accesses, DriverAccess
      <3>2. Asked' = Asked /\ cpu' = cpu
        BY <2>0 DEF Asked
      <3> QED BY <2>0, <3>1, <3>2 DEF TurnsInv, Asking
    <2>3. Programmed' /\ Progress' /\ Polled' /\ Changed' /\ Arrived'
      BY <2>0 DEF TurnsInv, Programmed, Stored, Progress, Polled, Changed, Arrived, Busy, Copied
    <2>4. Unanswered' = Unanswered /\ Counts' = Counts /\ OnBus' = OnBus /\ DmaAddr' = DmaAddr
      BY <2>0 DEF Unanswered, Counts, OnBus, DmaAddr, Answers
    <2>5. Ready' /\ Watching' /\ Stops'
      BY <2>0, <2>4 DEF TurnsInv, Ready, Watching, Stops
    <2> QED BY <1>1, <2>1, <2>2, <2>3, <2>5 DEF TurnsInv
  <1> QED BY <1>2, <1>3

\* The processor, the DMA and its driver take turns, and the watchdog knows.
THEOREM BusTurns == BusSpec => []TurnsInv
  <1>1. BusInit => TurnsInv
    BY TurnsInit
  <1>2. TurnsInv /\ [BusNext]_bus_vars => TurnsInv'
    BY TurnsInvStep
  <1> QED BY <1>1, <1>2, PTL DEF BusSpec

\* The invariant is more than BusInv.
LEMMA TurnsInvEnough ==
  ASSUME TurnsInv
  PROVE  BusInv
  <1>0. /\ GrantInv /\ MoreRegisters /\ Types /\ Turns /\ Asking /\ Serving /\ Driven
        /\ Watching /\ Stops
    BY DEF TurnsInv
  <1>1. BusTypeOK
    <2>1. cpu.rd \in BOOLEAN /\ cpu.wr \in BOOLEAN
      <3>1. cpu.state = "EXEC_INST_MEM_WAIT" => IsAccess(Asked)
        BY <1>0, AccessShape DEF Asking, Driven
      <3> QED BY <1>0, <3>1 DEF Asking, IsAccess, Asked
    <2>2. /\ cpu.state \in CpuStates /\ dma.state \in DmaStates
          /\ cbi.state \in {"WAITING_REQ", "WAITING_BUS", "WAITING_ACK", "DONE"}
      BY <1>0 DEF Turns, CpuStates, DmaStates
    <2>3. cbi.done \in BOOLEAN /\ cbi.timeout \in BOOLEAN
      BY <1>0, <2>2 DEF Serving
    <2>4. cbi.bus_req \in BOOLEAN /\ dma.bus_req \in BOOLEAN
      BY <1>0 DEF GrantInv, Requests
    <2>5. mem.state \in [{"ROM", "RAM"} -> {"IDLE", "DONE"}]
      <3>1. mem.state = [m \in Mems |-> mem.state[m]]
        BY <1>0 DEF MoreRegisters
      <3> QED BY <1>0, <3>1 DEF Types, Mems
    <2>6. dma.process_started \in BOOLEAN /\ drv.pc \in Stores \union {"idle", "poll"}
      BY <1>0 DEF Driven
    <2> QED BY <1>0, <2>1, <2>2, <2>3, <2>4, <2>5, <2>6 DEF BusTypeOK, Types, Watching, Stops, Stores
  <1>2. TimeoutsDeserved
    BY <1>0 DEF Stops, TimeoutsDeserved
  <1>3. OneByteMore
    BY DEF TurnsInv, Changed, OneByteMore
  <1> QED BY <1>1, <1>2, <1>3 DEF BusInv

\* Accesses are stopped only if nobody answers, and a transfer changes one byte more
\* than it was asked to at most.
THEOREM BusIsRight == BusSpec => []BusInv
  BY BusTurns, TurnsInvEnough, PTL

\* When dma_transfer returns.
LEMMA Returning ==
  ASSUME TurnsInv, BusNext, drv.pc = "poll", drv'.pc = "idle", cbi.done
  PROVE  dma.state = "IDLE" /\ ~dma.bus_req /\ dma.cnt = 0
  <1>0. /\ GrantInv /\ Turns /\ Serving /\ Driven /\ Polled
    BY DEF TurnsInv
  <1>1. PICK i : Moves(i)
    BY EdgeMoves
  <1>2. cbi.state = "DONE" /\ cbi.timeout = FALSE
    BY <1>0 DEF Serving, Turns
  <1>3. AccessDone /\ cbi.mdr = 0
    BY <1>1, <1>2 DEF Moves, DrvMoves, Begins, Goes, MemoryFault
  <1>4. dma.state = "IDLE"
    BY <1>0, <1>3, <1>2 DEF Turns, Driven, AccessDone, Stores
  <1>5. dma.cnt = 0
    BY <1>0, <1>3 DEF Polled, AccessDone
  <1> QED BY <1>0, <1>4, <1>5 DEF GrantInv, Requests

\* dma_transfer returns only when the DMA is at rest.
THEOREM BusReturnsAtRest == BusSpec => ReturnsAtRest
  <1>1. TurnsInv /\ [BusNext]_bus_vars =>
          [drv.pc = "poll" /\ drv'.pc = "idle" /\ cbi.done =>
             dma.state = "IDLE" /\ ~dma.bus_req]_bus_vars
    BY Returning
  <1> QED BY <1>1, BusTurns, PTL DEF BusSpec, ReturnsAtRest

\* What is copied from the ROM arrives.
THEOREM BusRomCopyArrives == BusSpec => RomCopyArrives
  <1>1. TurnsInv /\ [BusNext]_bus_vars =>
          [drv.pc = "poll" /\ drv'.pc = "idle" /\ cbi.done /\ FromRom(drv.t) =>
             \A k \in 0 .. drv.t.count - 1 :
               mem.ram[At(drv.t.dest, drv.t.dest_step, k)]
                 = At(drv.t.src, drv.t.src_step, k)]_bus_vars
    <2> SUFFICES ASSUME TurnsInv, BusNext, drv.pc = "poll", drv'.pc = "idle", cbi.done,
                        FromRom(drv.t)
                 PROVE  \A k \in 0 .. drv.t.count - 1 :
                          mem.ram[At(drv.t.dest, drv.t.dest_step, k)]
                            = At(drv.t.src, drv.t.src_step, k)
      OBVIOUS
    <2>1. dma.cnt = 0
      BY Returning
    <2>2. Copied = drv.t.count
      BY <2>1, TransferShape DEF TurnsInv, MoreRegisters, Copied
    <2> QED BY <2>2 DEF TurnsInv, Arrived
  <1> QED BY <1>1, BusTurns, PTL DEF BusSpec, RomCopyArrives
=============================================================================
