-------------------------- MODULE InterruptProofs ---------------------------
(***************************************************************************)
(* Theorems about InterruptSystem for any inputs of the PLIC, if no button *)
(* is pressed while the handler runs (Late = FALSE).                       *)
(***************************************************************************)
EXTENDS InterruptSystem, TLAPS

-----------------------------------------------------------------------------
(* The most urgent interrupt *)

HasMax(S) == \E i \in S : \A j \in S : i >= j

\* A bound that is reached, or can be lowered, gives a maximum.
LEMMA MaxStep ==
  ASSUME NEW n \in Nat, NEW S,
         S \subseteq 1 .. n + 1, S # {},
         S \subseteq 1 .. n => HasMax(S)
  PROVE  HasMax(S)
  <1>1. CASE n + 1 \in S
    BY <1>1 DEF HasMax
  <1>2. CASE n + 1 \notin S
    <2>1. S \subseteq 1 .. n
      BY <1>2
    <2> QED BY <2>1
  <1> QED BY <1>1, <1>2

\* Every set of inputs has a greatest one (fifteen steps: the PLIC has fifteen
\* inputs, and the provers have no induction).
LEMMA MaxExists ==
  ASSUME NEW S, S \subseteq 1 .. 15, S # {}
  PROVE  HasMax(S)
  <1>0. S \subseteq 1 .. 0 => HasMax(S)
    <2>1. 1 .. 0 = {} OBVIOUS
    <2> QED BY <2>1
  <1>1. S \subseteq 1 .. 1 => HasMax(S) BY <1>0, MaxStep, 0 + 1 = 1
  <1>2. S \subseteq 1 .. 2 => HasMax(S) BY <1>1, MaxStep, 1 + 1 = 2
  <1>3. S \subseteq 1 .. 3 => HasMax(S) BY <1>2, MaxStep, 2 + 1 = 3
  <1>4. S \subseteq 1 .. 4 => HasMax(S) BY <1>3, MaxStep, 3 + 1 = 4
  <1>5. S \subseteq 1 .. 5 => HasMax(S) BY <1>4, MaxStep, 4 + 1 = 5
  <1>6. S \subseteq 1 .. 6 => HasMax(S) BY <1>5, MaxStep, 5 + 1 = 6
  <1>7. S \subseteq 1 .. 7 => HasMax(S) BY <1>6, MaxStep, 6 + 1 = 7
  <1>8. S \subseteq 1 .. 8 => HasMax(S) BY <1>7, MaxStep, 7 + 1 = 8
  <1>9. S \subseteq 1 .. 9 => HasMax(S) BY <1>8, MaxStep, 8 + 1 = 9
  <1>10. S \subseteq 1 .. 10 => HasMax(S) BY <1>9, MaxStep, 9 + 1 = 10
  <1>11. S \subseteq 1 .. 11 => HasMax(S) BY <1>10, MaxStep, 10 + 1 = 11
  <1>12. S \subseteq 1 .. 12 => HasMax(S) BY <1>11, MaxStep, 11 + 1 = 12
  <1>13. S \subseteq 1 .. 13 => HasMax(S) BY <1>12, MaxStep, 12 + 1 = 13
  <1>14. S \subseteq 1 .. 14 => HasMax(S) BY <1>13, MaxStep, 13 + 1 = 14
  <1> QED BY <1>14, MaxStep, 14 + 1 = 15

\* What the PLIC answers: 0 if nothing is pending, else something that is.
LEMMA NextIntr ==
  ASSUME pending_intr_reg \subseteq Irqs
  PROVE  /\ pending_intr_reg = {} => next_intr = 0
         /\ pending_intr_reg # {} => next_intr \in pending_intr_reg
         /\ has_req <=> pending_intr_reg # {}
  <1>1. pending_intr_reg = {} => next_intr = 0
    BY DEF next_intr
  <1>2. pending_intr_reg # {} => next_intr \in pending_intr_reg
    <2> HAVE pending_intr_reg # {}
    <2>1. HasMax(pending_intr_reg)
      BY MaxExists, InterruptSystemAssumption
    <2> QED BY <2>1 DEF HasMax, next_intr
  <1>3. 0 \notin Irqs
    BY InterruptSystemAssumption
  <1> QED BY <1>1, <1>2, <1>3 DEF has_req

-----------------------------------------------------------------------------
(* The invariant *)

LEMMA InitInvariant == Init => IInv
  <1> SUFFICES ASSUME Init PROVE IInv OBVIOUS
  <1>1. ~has_req
    BY NextIntr DEF Init
  <1> QED
    BY <1>1 DEF Init, IInv, TypeOK, OwedIsTracked, NeverDeaf, Program, Handler

\* What a clock edge does, in terms of the pending set alone.
LEMMA EdgeEffect ==
  ASSUME Late = FALSE, IInv, NEW irqs \in SUBSET Irqs, NEW timer_tick \in BOOLEAN,
         MayPress(irqs), plic_on_clock(irqs), rising_edge_detector,
         cpu_csrs(timer_tick)
  PROVE  /\ cpu \in Handler => irqs = {}
         /\ cpu # "release" => pending_intr_reg' = pending_intr_reg \union irqs
         /\ cpu = "release" => pending_intr_reg' = pending_intr_reg \ {intr}
         /\ pending_intr_reg' \subseteq Irqs
         /\ plic' = "READ" <=> cpu \in {"grant", "ack"}
         /\ plic' \in {"IDLE", "READ"}
         /\ curr_value' = has_req /\ old_value' = curr_value
         /\ sip_ext' = ((sip_ext /\ cpu # "clear") \/ (~old_value /\ curr_value))
         /\ sip_timer' \in BOOLEAN
         /\ has_req <=> pending_intr_reg # {}
         /\ has_req' <=> pending_intr_reg' # {}
  <1>1. cpu \in Handler => irqs = {}
    BY DEF MayPress
  <1>2. pending_intr_reg' \subseteq Irqs
    BY DEF plic_on_clock, next_pending, IInv, TypeOK
  <1>3. has_req <=> pending_intr_reg # {}
    BY NextIntr DEF IInv, TypeOK
  <1>4. has_req' <=> pending_intr_reg' # {}
    <2>1. pending_intr_reg' # {} => next_intr' \in pending_intr_reg'
      <3> HAVE pending_intr_reg' # {}
      <3>1. HasMax(pending_intr_reg')
        BY <1>2, MaxExists, InterruptSystemAssumption
      <3> QED BY <3>1 DEF HasMax, next_intr
    <2>2. pending_intr_reg' = {} => next_intr' = 0
      BY DEF next_intr
    <2>3. 0 \notin Irqs
      BY InterruptSystemAssumption
    <2> QED BY <2>1, <2>2, <2>3, <1>2 DEF has_req
  <1>5. cpu \in {"ack", "release"} <=> plic = "READ"
    BY DEF IInv
  <1>6. cpu # "release" => pending_intr_reg' = pending_intr_reg \union irqs
    BY <1>5 DEF plic_on_clock, next_pending, read_req, IInv, TypeOK
  <1>7. cpu = "release" => pending_intr_reg' = pending_intr_reg \ {intr}
    BY <1>1, <1>5 DEF plic_on_clock, next_pending, read_req, IInv, Handler
  <1>8. /\ plic' = "READ" <=> cpu \in {"grant", "ack"}
        /\ plic' \in {"IDLE", "READ"}
    BY DEF plic_on_clock, read_req
  <1>9. /\ curr_value' = has_req /\ old_value' = curr_value
        /\ sip_ext' = ((sip_ext /\ cpu # "clear") \/ (~old_value /\ curr_value))
        /\ sip_timer' \in BOOLEAN
    BY DEF rising_edge_detector, cpu_csrs, rising_edge, IInv, TypeOK
  <1> QED BY <1>1, <1>2, <1>3, <1>4, <1>6, <1>7, <1>8, <1>9

\* The steps of the processor, one disjunct each.
LEMMA ProgramSteps ==
  ASSUME Advance \/ raise_interrupt \/ raise_exception \/ Elapse
  PROVE  \/ cpu = "user" /\ sip_ext /\ cpu' = "claim" /\ intr' = intr
         \/ cpu = "user" /\ cpu' \in {"timer", "kernel"} /\ intr' = intr
         \/ cpu \in {"kernel", "timer"} /\ cpu' \in {"user", "idle"} /\ intr' = intr
         \/ cpu = "claim" /\ cpu' = "grant" /\ intr' = intr
         \/ cpu = "grant" /\ cpu' = "ack" /\ intr' = intr
         \/ cpu = "ack" /\ cpu' = "release" /\ intr' = next_intr
         \/ cpu = "release" /\ intr = 0 /\ cpu' = "leave" /\ intr' = intr
         \/ cpu = "release" /\ intr # 0 /\ cpu' = "handle" /\ intr' = intr
         \/ cpu = "handle" /\ cpu' = "claim" /\ intr' = intr
         \/ cpu = "leave" /\ cpu' = "clear" /\ intr' = intr
         \/ cpu = "clear" /\ cpu' = "kernel" /\ intr' = intr
         \/ /\ cpu \notin {"grant", "ack", "release", "clear"}
            /\ cpu' = cpu /\ intr' = intr
  <1>1. CASE raise_interrupt
    BY <1>1 DEF raise_interrupt, has_intr, intr_index, Goto
  <1>2. CASE raise_exception
    BY <1>2 DEF raise_exception, Goto
  <1>3. CASE Elapse
    BY <1>3 DEF Elapse
  <1>4. CASE Advance
    BY <1>4 DEF Advance, plic_get_next, handle_ext_intr, sret, Goto
  <1> QED BY <1>1, <1>2, <1>3, <1>4

LEMMA NextInvariant ==
  ASSUME Late = FALSE, IInv, Next
  PROVE  IInv'
  <1> PICK irqs \in SUBSET Irqs, timer_tick \in BOOLEAN :
        /\ MayPress(irqs)
        /\ Advance \/ raise_interrupt \/ raise_exception \/ Elapse
        /\ plic_on_clock(irqs) /\ rising_edge_detector /\ cpu_csrs(timer_tick)
        /\ owed' = (owed \ Handled) \union irqs
        /\ slice_over' = ((slice_over /\ cpu' # "timer") \/ timer_tick)
    BY DEF Next
  <1>e. /\ cpu \in Handler => irqs = {}
        /\ cpu # "release" => pending_intr_reg' = pending_intr_reg \union irqs
        /\ cpu = "release" => pending_intr_reg' = pending_intr_reg \ {intr}
        /\ pending_intr_reg' \subseteq Irqs
        /\ plic' = "READ" <=> cpu \in {"grant", "ack"}
        /\ plic' \in {"IDLE", "READ"}
        /\ curr_value' = has_req /\ old_value' = curr_value
        /\ sip_ext' = ((sip_ext /\ cpu # "clear") \/ (~old_value /\ curr_value))
        /\ sip_timer' \in BOOLEAN
        /\ has_req <=> pending_intr_reg # {}
        /\ has_req' <=> pending_intr_reg' # {}
    BY EdgeEffect
  <1>s. \/ cpu = "user" /\ sip_ext /\ cpu' = "claim" /\ intr' = intr
        \/ cpu = "user" /\ cpu' \in {"timer", "kernel"} /\ intr' = intr
        \/ cpu \in {"kernel", "timer"} /\ cpu' \in {"user", "idle"} /\ intr' = intr
        \/ cpu = "claim" /\ cpu' = "grant" /\ intr' = intr
        \/ cpu = "grant" /\ cpu' = "ack" /\ intr' = intr
        \/ cpu = "ack" /\ cpu' = "release" /\ intr' = next_intr
        \/ cpu = "release" /\ intr = 0 /\ cpu' = "leave" /\ intr' = intr
        \/ cpu = "release" /\ intr # 0 /\ cpu' = "handle" /\ intr' = intr
        \/ cpu = "handle" /\ cpu' = "claim" /\ intr' = intr
        \/ cpu = "leave" /\ cpu' = "clear" /\ intr' = intr
        \/ cpu = "clear" /\ cpu' = "kernel" /\ intr' = intr
        \/ /\ cpu \notin {"grant", "ack", "release", "clear"}
           /\ cpu' = cpu /\ intr' = intr
    BY ProgramSteps
  <1>n. /\ next_intr \in Irqs \union {0}
        /\ next_intr = 0 <=> pending_intr_reg = {}
        /\ next_intr # 0 => next_intr \in pending_intr_reg
        /\ 0 \notin Irqs
    BY NextIntr, InterruptSystemAssumption DEF IInv, TypeOK
  \* Outside the end of a read the answer stays what it is if nothing is pressed.
  <1>u. cpu = "ack" => next_intr' = next_intr
    <2> HAVE cpu = "ack"
    <2>1. pending_intr_reg' = pending_intr_reg
      BY <1>e DEF Handler
    <2> QED BY <2>1 DEF next_intr
  <1>1. TypeOK'
    <2>1. cpu' \in Program /\ intr' \in Irqs \union {0}
      BY <1>s, <1>n DEF IInv, TypeOK, Program, Handler
    <2>2. owed' \subseteq Irqs
      BY DEF IInv, TypeOK, Handled
    <2>3. /\ old_value' \in BOOLEAN /\ curr_value' \in BOOLEAN
          /\ sip_ext' \in BOOLEAN /\ slice_over' \in BOOLEAN
      <3>1. old_value' \in BOOLEAN
        BY <1>e DEF IInv, TypeOK
      <3>2. curr_value' \in BOOLEAN
        BY <1>e DEF has_req
      <3>3. sip_ext' \in BOOLEAN
        BY <1>e
      <3>4. slice_over' \in BOOLEAN
        OBVIOUS
      <3> QED BY <3>1, <3>2, <3>3, <3>4
    <2> QED BY <1>e, <2>1, <2>2, <2>3 DEF TypeOK
  <1>2. OwedIsTracked'
    BY <1>e, <1>s, <1>n DEF IInv, TypeOK, OwedIsTracked, Handled, Handler
  <1>3. NeverDeaf'
    BY <1>e, <1>s, <1>n DEF IInv, TypeOK, NeverDeaf, rising_edge, Handler
  <1>4. plic' = "READ" <=> cpu' \in {"ack", "release"}
    BY <1>e, <1>s
  <1>5. cpu' = "release" => intr' = next_intr'
    BY <1>s, <1>u
  <1>6. cpu' = "handle" => intr' \in Irqs \ pending_intr_reg'
    BY <1>e, <1>s, <1>n DEF IInv, TypeOK, Handler
  <1>7. cpu' \in {"leave", "clear"} => ~has_req'
    BY <1>e, <1>s, <1>n DEF IInv, Handler
  <1>8. cpu' \in Handler \ {"handle"} /\ ~has_req' => ~curr_value'
    BY <1>e, <1>s, <1>n DEF IInv, Handler
  <1>9. cpu' \notin Handler /\ (sip_ext' \/ curr_value') => has_req'
    BY <1>e, <1>s, <1>n DEF IInv, TypeOK, Handler
  <1> QED
    BY <1>1, <1>2, <1>3, <1>4, <1>5, <1>6, <1>7, <1>8, <1>9 DEF IInv

-----------------------------------------------------------------------------
(* Theorems *)

\* The inductive invariant: what a claim answers is what it clears, the handler
\* leaves the PLIC empty, and a pending bit or an edge always has a request.
THEOREM Invariance ==
  ASSUME Late = FALSE
  PROVE  Spec => []IInv
  <1>1. Init => IInv
    BY InitInvariant
  <1>2. IInv /\ [Next]_vars => IInv'
    <2> SUFFICES ASSUME IInv, [Next]_vars PROVE IInv' OBVIOUS
    <2>1. CASE Next
      BY <2>1, NextInvariant
    <2>2. CASE UNCHANGED vars
      BY <2>2 DEF vars, IInv, TypeOK, OwedIsTracked, NeverDeaf, has_req,
                  next_intr, rising_edge
    <2> QED BY <2>1, <2>2
  <1> QED BY <1>1, <1>2, PTL DEF Spec

\* A pressed button is pending in the PLIC or in the hands of the handler, until
\* its handler is called, and nothing else is: no press is lost, none made up.
THEOREM PressesAreTracked ==
  ASSUME Late = FALSE
  PROVE  Spec => []OwedIsTracked
  <1>1. IInv => OwedIsTracked
    BY DEF IInv
  <1> QED BY <1>1, Invariance, PTL

\* The line from the PLIC is never high with its edge forgotten and the handler
\* on its way out (the deafness that Late = TRUE allows).
THEOREM LineIsSeen ==
  ASSUME Late = FALSE
  PROVE  Spec => []NeverDeaf
  <1>1. IInv => NeverDeaf
    BY DEF IInv
  <1> QED BY <1>1, Invariance, PTL

\* The processor enters the handler of external interrupts only while the PLIC
\* has one to claim.
THEOREM TrapsAreCalledFor ==
  ASSUME Late = FALSE
  PROVE  Spec => NoSpuriousTrap
  <1>1. IInv /\ [Next]_vars => [cpu \notin Handler /\ cpu' \in Handler => has_req]_vars
    <2> SUFFICES ASSUME IInv, Next, cpu \notin Handler, cpu' \in Handler
                 PROVE  has_req
      OBVIOUS
    <2>1. Advance \/ raise_interrupt \/ raise_exception \/ Elapse
      BY DEF Next
    <2>2. sip_ext
      BY <2>1, ProgramSteps DEF Handler
    <2> QED BY <2>2 DEF IInv
  <1> QED BY <1>1, Invariance, PTL DEF Spec, NoSpuriousTrap

=============================================================================
