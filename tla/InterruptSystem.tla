-------------------------- MODULE InterruptSystem ---------------------------
(***************************************************************************)
(* The path of an interrupt: the lines of the buttons, the PLIC            *)
(* (Controller.sv), the edge detector between the PLIC and the processor,  *)
(* the processor's pending bits (CSRs.v), and the handler that claims      *)
(* interrupts (external_interrupts.c).  All the hardware runs on one       *)
(* clock, so a step is one edge of that clock: every register takes its    *)
(* next value at once.  Of the program, what it does to the other parts is *)
(* exact to the cycle; how many cycles it takes in between is left open.   *)
(***************************************************************************)
EXTENDS Integers, FiniteSets

CONSTANTS
  Irqs,   \* the numbers of the PLIC's inputs, those in use
  Late    \* may a button be pressed while the handler runs?

ASSUME InterruptSystemAssumption ==
  /\ Irqs \subseteq 1 .. 15 /\ IsFiniteSet(Irqs)
  /\ Late \in BOOLEAN

VARIABLES
  pending_intr_reg,   \* the PLIC's inputs that are pending, as a set
  plic,               \* the PLIC's state: "IDLE" or "READ"
  old_value, curr_value,  \* the edge detector
  sip_ext, sip_timer, \* bits 9 and 5 of sip
  cpu,                \* what the processor executes
  intr,               \* the local variable of handle_ext_intr
  owed,               \* pressed, and its handler not called since (not in the code)
  slice_over          \* a tick has come since the last timer trap (not in the code)

vars == <<pending_intr_reg, plic, old_value, curr_value, sip_ext, sip_timer,
          cpu, intr, owed, slice_over>>

\* What the processor executes: a thread; a system call or a fault; the timer's
\* trap; the idle loop; or handle_ext_intr: on its way to the load of PLIC.claim,
\* the three cycles of the load on the bus, in the handler of intr, on its way to
\* the csrc, at it.  All but the thread run in supervisor mode with SIE = 0, the
\* idle loop too (entry.S:19 clears sstatus).
Handler == {"claim", "grant", "ack", "release", "handle", "leave", "clear"}
Program == {"user", "kernel", "timer", "idle"} \union Handler

\* After init(): every input is enabled (plic_allow_all) and stays so.
Init ==
  /\ pending_intr_reg = {} /\ plic = "IDLE"
  /\ old_value = FALSE /\ curr_value = FALSE
  /\ sip_ext = FALSE /\ sip_timer = FALSE
  /\ cpu = "kernel" /\ intr = 0
  /\ owed = {} /\ slice_over = FALSE

-----------------------------------------------------------------------------
(* Wires *)

next_intr ==
  IF pending_intr_reg = {} THEN 0
  ELSE CHOOSE i \in pending_intr_reg : \A j \in pending_intr_reg : i >= j

has_req == next_intr # 0

rising_edge == ~old_value /\ curr_value

\* The load of PLIC.claim drives the bus from the grant to the acknowledgement.
read_req == cpu \in {"grant", "ack"}

has_intr == cpu = "user" /\ (sip_ext \/ sip_timer)

Mutant_timer_first == IF sip_timer THEN "timer" ELSE "external"

\* Bit 9 comes before bit 5.
intr_index == IF sip_ext THEN "external" ELSE "timer"

-----------------------------------------------------------------------------
(* The hardware at a clock edge *)

Mutant_clear_at_start(irqs) ==
  IF plic = "IDLE" /\ read_req THEN (pending_intr_reg \union irqs) \ {next_intr}
  ELSE pending_intr_reg \union irqs

\* An input that rises at the very edge of the clear is cleared with it.
next_pending(irqs) ==
  IF plic = "READ" /\ ~read_req THEN (pending_intr_reg \union irqs) \ {next_intr}
  ELSE pending_intr_reg \union irqs

plic_on_clock(irqs) ==
  /\ pending_intr_reg' = next_pending(irqs)
  /\ plic' = IF read_req THEN "READ" ELSE "IDLE"

rising_edge_detector ==
  /\ old_value' = curr_value
  /\ curr_value' = has_req

Mutant_clear_nothing(timer_tick) ==
  /\ sip_ext' = (sip_ext \/ rising_edge)
  /\ sip_timer' = (sip_timer \/ timer_tick)

\* The handler's csrc writes sip first, the ticks set their bits after it.
cpu_csrs(timer_tick) ==
  /\ sip_ext' = ((sip_ext /\ cpu # "clear") \/ rising_edge)
  /\ sip_timer' = (sip_timer \/ timer_tick)

-----------------------------------------------------------------------------
(* The processor at a clock edge *)

Goto(label) == cpu' = label

\* An instruction of a user thread ends and an interrupt is allowed.
raise_interrupt ==
  /\ has_intr
  /\ Goto(IF intr_index = "external" THEN "claim" ELSE "timer")
  /\ UNCHANGED intr

\* A system call or a fault, which an interrupt does not hold up.
raise_exception == cpu = "user" /\ Goto("kernel") /\ UNCHANGED intr

\* The end of a trap: back to a thread, or to the idle loop if none is ready.
sret == cpu \in {"kernel", "timer"} /\ cpu' \in {"user", "idle"} /\ UNCHANGED intr

\* plic_get_next: the bus is granted; the PLIC sees the request; the processor
\* takes the word; the request is gone, and the PLIC sees that.
plic_get_next ==
  \/ cpu = "claim" /\ Goto("grant") /\ UNCHANGED intr
  \/ cpu = "grant" /\ Goto("ack") /\ UNCHANGED intr
  \/ cpu = "ack" /\ Goto("release") /\ intr' = next_intr

Mutant_claim_once ==
  \/ cpu = "release" /\ Goto(IF intr = 0 THEN "leave" ELSE "handle")
  \/ cpu = "handle" /\ Goto("leave")
  \/ cpu = "leave" /\ Goto("clear")
  \/ cpu = "clear" /\ Goto("kernel")

\* The rest of the loop, and its end.
handle_ext_intr ==
  \/ cpu = "release" /\ Goto(IF intr = 0 THEN "leave" ELSE "handle")
  \/ cpu = "handle" /\ Goto("claim")
  \/ cpu = "leave" /\ Goto("clear")
  \/ cpu = "clear" /\ Goto("kernel")

Advance == plic_get_next \/ (handle_ext_intr /\ UNCHANGED intr) \/ sret

\* A cycle within the code between two of these.
Elapse ==
  /\ cpu \notin {"grant", "ack", "release", "clear"}
  /\ UNCHANGED <<cpu, intr>>

-----------------------------------------------------------------------------
\* Without Late, nobody presses a button while the handler of another runs.
MayPress(irqs) == irqs # {} => Late \/ cpu \notin Handler

Handled == IF cpu = "handle" /\ cpu' # "handle" THEN {intr} ELSE {}

Next ==
  \E irqs \in SUBSET Irqs, timer_tick \in BOOLEAN :
    /\ MayPress(irqs)
    /\ Advance \/ raise_interrupt \/ raise_exception \/ Elapse
    /\ plic_on_clock(irqs) /\ rising_edge_detector /\ cpu_csrs(timer_tick)
    /\ owed' = (owed \ Handled) \union irqs
    /\ slice_over' = ((slice_over /\ cpu' # "timer") \/ timer_tick)

Spec == Init /\ [][Next]_vars

\* The clock runs, the kernel's code and the handlers end, and a thread that is given the
\* processor again and again ends an instruction that is not an ecall.
FairSpec ==
  Spec /\ WF_vars(Next) /\ WF_vars(Next /\ Advance) /\ SF_vars(Next /\ raise_interrupt)

-----------------------------------------------------------------------------
(* Properties *)

TypeOK ==
  /\ pending_intr_reg \subseteq Irqs /\ plic \in {"IDLE", "READ"}
  /\ {old_value, curr_value, sip_ext, sip_timer, slice_over} \subseteq BOOLEAN
  /\ cpu \in Program /\ intr \in Irqs \union {0}
  /\ owed \subseteq Irqs

\* Between a press and the call of its handler the interrupt is pending in the
\* PLIC or in the hands of the handler, and nothing else is: what a claim
\* answers is what it clears (Controller.sv:57,117).  True if no button is pressed
\* while the handler runs, because the PLIC answers at one edge and clears at the
\* next.
OwedIsTracked ==
  owed = pending_intr_reg \union
           (IF cpu \in {"release", "handle"} /\ intr # 0 THEN {intr} ELSE {})

\* The edge-triggered line is never left high with nobody to look at it: while
\* the PLIC requests, its edge is on the way to sip, or in sip, or the handler is
\* going to claim again.
NeverDeaf ==
  has_req =>
    \/ ~curr_value \/ rising_edge \/ sip_ext
    \/ cpu \in {"claim", "grant", "ack", "handle"}
    \/ cpu = "release" /\ intr # 0

\* A trap for external interrupts finds one to claim: no leftover bit in sip, and
\* no second edge of one request, sends the processor there for nothing.
NoSpuriousTrap ==
  [][cpu \notin Handler /\ cpu' \in Handler => has_req]_vars

\* The inductive invariant behind the three, for users who press no button while
\* the handler runs.  The PLIC is in a read exactly when a claim is on the bus; the
\* answer of a claim is what it will clear; the handler leaves when nothing is
\* pending; and a bit that is set, or an edge on its way, always has a request.
IInv ==
  /\ TypeOK /\ OwedIsTracked /\ NeverDeaf
  /\ plic = "READ" <=> cpu \in {"ack", "release"}
  /\ cpu = "release" => intr = next_intr
  /\ cpu = "handle" => intr \in Irqs \ pending_intr_reg
  /\ cpu \in {"leave", "clear"} => ~has_req
  /\ cpu \in Handler \ {"handle"} /\ ~has_req => ~curr_value
  /\ cpu \notin Handler /\ (sip_ext \/ curr_value) => has_req

\* The handler of a pressed button is called, unless every thread sleeps and the
\* idle loop runs: the timer, whose bit is never cleared, does not keep it away,
\* nor do system calls.
HandledUnlessIdle ==
  \A i \in Irqs : i \in owed ~> (i \notin owed \/ cpu = "idle")

\* The handler of a pressed button is called, whatever the processor does: the
\* PLIC's interrupts reach the processor.  False: the idle loop does not allow
\* interrupts (CSRs.v:57).
Forwarded == \A i \in Irqs : i \in owed ~> i \notin owed

\* The timer takes the processor from a thread only when a tick has come since it
\* last did: a thread has the processor for its time slice.  False: nothing clears
\* the bit in sip (handler.c:34-36), so after the first tick every thread is
\* stopped after an instruction.
TimeSlice == [][cpu' = "timer" /\ cpu # "timer" => slice_over]_vars
=============================================================================
