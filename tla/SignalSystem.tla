---------------------------- MODULE SignalSystem ----------------------------
(***************************************************************************)
(* Signals (signals.c): faults, raise and the buttons put a signal into a  *)
(* ring; a thread of the kernel's own, the signal processor, takes them    *)
(* out and calls their handlers.  The processor runs in user mode with     *)
(* interrupts on, so here its loop is one action per access to shared      *)
(* memory: a trap may come between any two of them.  A sender runs inside  *)
(* a trap and is atomic.                                                   *)
(***************************************************************************)
EXTENDS Kernel, Sequences

CONSTANTS
  Signals,            \* enum __signal
  Fatal,              \* those whose first handler is handle_illegal_action
  Faults,             \* those exception_handler sends
  Buttons,            \* those handle_ext_intr sends
  Processor,          \* the address of the signal processor's thread
  requests_mutex, requests_cond,
  RingSize,           \* the length of requests, 10
  HandlersFault       \* may a handler fault, which stops the processor?

ASSUME SignalSystemAssumption ==
  /\ Faults \subseteq Fatal /\ Fatal \subseteq Signals /\ Buttons \subseteq Signals
  /\ Processor \in Threads
  /\ Mutexes = {requests_mutex} /\ Conds = {requests_cond} /\ Recursive = {}
  /\ RingSize \in Nat /\ RingSize > 1
  /\ HandlersFault \in BOOLEAN

VARIABLES
  k,          \* the kernel's memory
  requests, head, tail,
  handlers,   \* the handler of each signal: "illegal_action", "user" or NULL
  pc,         \* what the processor thread executes next
  sig,        \* its local variable
  pending     \* the signals sent and neither taken nor lost, oldest first (not in the code)

ring == <<requests, head, tail>>
vars == <<k, requests, head, tail, handlers, pc, sig, pending>>

Users == Threads \ {Processor}
Slots == 0 .. RingSize - 1

\* ksignal_init() has created the processor, init() the user thread.
Init ==
  /\ \E u \in Users :
       k = kscheduler_enqueue(kthread_create(kscheduler_enqueue(kthread_create(
             Reset, Processor), Processor), u), u)
  /\ \E s \in Signals : requests = [i \in Slots |-> s]
  /\ head = 0 /\ tail = 0
  /\ handlers = [s \in Signals |-> IF s \in Fatal THEN "illegal_action" ELSE NULL]
  /\ pc = "lock"
  /\ sig \in Signals
  /\ pending = <<>>

-----------------------------------------------------------------------------
(* Sending *)

\* The slot is written after the index has moved on.
Mutant_put_after_advance(s) ==
  /\ requests' = [requests EXCEPT ![(tail + 1) % RingSize] = s]
  /\ tail' = (tail + 1) % RingSize

Put(s) ==
  /\ requests' = [requests EXCEPT ![tail] = s]
  /\ tail' = (tail + 1) % RingSize

\* The memory ksignal_send leaves: a processor that sleeps has its mutex again
\* and is ready.
Mutant_wake_without_enqueue(mem) == kcond_signal(mem, requests_cond, FALSE)

Wake(mem) == kcond_signal(mem, requests_cond, TRUE)

\* The ring is full: tail has met head.  The loop of the processor takes that for an
\* empty ring, and the next signal is written over the oldest one.
Full == Len(pending) = RingSize

\* The C function without its last line, Wake.  It does not look whether there is
\* room: sent to a full ring, a signal is the only one left, and a ringful is lost.
ksignal_send(s) ==
  /\ Put(s)
  /\ pending' = IF Full THEN <<s>> ELSE Append(pending, s)
  /\ UNCHANGED <<head, handlers, sig>>

\* The thread that executes user code: a user's, or a handler of the processor.
InUserCode(t) == k.current = t /\ (t = Processor => pc = "handler")

syscall_sig_raise ==
  /\ \E t \in Threads : InUserCode(t)
  /\ \E s \in Signals : ksignal_send(s)
  /\ k' = Wake(k)
  /\ UNCHANGED pc

\* A fault sends its signal and stops the thread, whichever it is.
fault ==
  /\ \E t \in Threads : InUserCode(t) /\ (t = Processor => HandlersFault)
  /\ \E s \in Faults : ksignal_send(s)
  /\ k' = kthread_stop(Wake(k))
  /\ UNCHANGED pc

\* One turn of the loop of handle_ext_intr; a trap that claims two interrupts
\* is two of these in a row.  The idle thread runs with interrupts masked.
handle_ext_intr ==
  /\ k.current # Main
  /\ \E s \in Buttons : ksignal_send(s)
  /\ k' = Wake(k)
  /\ UNCHANGED pc

-----------------------------------------------------------------------------
(* The other traps *)

syscall_sig_set_handler ==
  /\ \E t \in Threads : InUserCode(t)
  /\ \E s \in Signals, h \in {"user", NULL} : handlers' = [handlers EXCEPT ![s] = h]
  /\ UNCHANGED <<k, requests, head, tail, pc, sig, pending>>

syscall_thread_create ==
  /\ \E t \in Threads : InUserCode(t)
  /\ \E u \in Users \ k.heap : k' = kscheduler_enqueue(kthread_create(k, u), u)
  /\ UNCHANGED <<requests, head, tail, handlers, pc, sig, pending>>

syscall_thread_exit ==
  /\ \E t \in Users : InUserCode(t)
  /\ k' = kthread_stop(k)
  /\ UNCHANGED <<requests, head, tail, handlers, pc, sig, pending>>

\* The timer, thrd_yield, and the idle loop.
dispatch ==
  /\ k' = kthread_dispatch(k)
  /\ UNCHANGED <<requests, head, tail, handlers, pc, sig, pending>>

-----------------------------------------------------------------------------
(* The loop of signal_processor *)

At(label) == k.current = Processor /\ pc = label

\* Calls that may block end in a dispatch if they have.
Call(mem) ==
  k' = IF mem.state[Processor] = "BLOCKED" THEN kthread_dispatch(mem) ELSE mem

lock ==
  /\ At("lock") /\ pc' = "test"
  /\ Call(kmutex_lock(k, requests_mutex, Processor))
  /\ UNCHANGED <<ring, handlers, sig, pending>>

\* The test of the loop: only the processor writes head, so what matters is
\* when it reads tail.
test ==
  /\ At("test") /\ pc' = IF head = tail THEN "wait" ELSE "take"
  /\ UNCHANGED <<k, ring, handlers, sig, pending>>

wait ==
  /\ At("wait") /\ pc' = "test"
  /\ Call(kcond_wait(k, requests_cond, requests_mutex, Processor))
  /\ UNCHANGED <<ring, handlers, sig, pending>>

Mutant_take_next ==
  /\ At("take") /\ pc' = "advance"
  /\ sig' = requests[(head + 1) % RingSize]
  /\ UNCHANGED <<k, ring, handlers, pending>>

take ==
  /\ At("take") /\ pc' = "advance"
  /\ sig' = requests[head]
  /\ UNCHANGED <<k, ring, handlers, pending>>

\* From here on the oldest signal is no longer pending: the one that was taken, or, if
\* the ring has overflowed since, the one sent to it full, which is skipped.
advance ==
  /\ At("advance") /\ pc' = "unlock"
  /\ head' = (head + 1) % RingSize
  /\ pending' = IF pending = <<>> THEN <<>> ELSE Tail(pending)
  /\ UNCHANGED <<k, requests, tail, handlers, sig>>

unlock ==
  /\ At("unlock") /\ pc' = "fetch"
  /\ k' = kmutex_unlock(k, requests_mutex, Processor)
  /\ UNCHANGED <<ring, handlers, sig, pending>>

\* The handler is loaded once (the build optimises, Makefile -Os) and called.
fetch ==
  /\ At("fetch") /\ pc' = IF handlers[sig] = NULL THEN "lock" ELSE "handler"
  /\ UNCHANGED <<k, ring, handlers, sig, pending>>

return ==
  /\ At("handler") /\ pc' = "lock"
  /\ UNCHANGED <<k, ring, handlers, sig, pending>>

signal_processor ==
  lock \/ test \/ wait \/ take \/ advance \/ unlock \/ fetch \/ return

-----------------------------------------------------------------------------
Next ==
  \/ syscall_sig_raise \/ fault \/ handle_ext_intr
  \/ syscall_sig_set_handler \/ dispatch
  \/ syscall_thread_create \/ syscall_thread_exit
  \/ signal_processor

Spec == Init /\ [][Next]_vars

\* A time slice is at least an instruction, so a thread that gets the processor
\* again and again executes its next one; the timer and the idle loop dispatch;
\* handlers return.
FairSpec == Spec /\ WF_vars(dispatch) /\ SF_vars(signal_processor)

-----------------------------------------------------------------------------
(* Properties *)

TypeOK ==
  /\ k \in Memory
  /\ requests \in [Slots -> Signals] /\ head \in Slots /\ tail \in Slots
  /\ handlers \in [Signals -> {"illegal_action", "user", NULL}]
  /\ pc \in {"lock", "test", "wait", "take", "advance", "unlock", "fetch", "handler"}
  /\ sig \in Signals
  /\ pending \in Seq(Signals)

\* Signals are lost only by the ringful, and none is duplicated or reordered: however
\* many are sent, the slots from head on (signals.c:87-89) hold exactly those that
\* are pending.  The indices tell how many these are, but for a full ring, which they
\* show as an empty one.
RingHoldsPending ==
  /\ Len(pending) <= RingSize
  /\ Len(pending) % RingSize = (tail - head) % RingSize
  /\ \A i \in 1 .. Len(pending) : requests[(head + i - 1) % RingSize] = pending[i]

\* The processor takes the oldest pending signal, and only if there is one, even
\* though it tested the ring before and was asleep or preempted since, and even if
\* the ring has filled up or overflowed in between (signals.c:57-63).
TakesTheOldest ==
  [][take => pending # <<>> /\ sig' = Head(pending)]_vars

\* Inside its critical section the processor owns the mutex whenever it can
\* execute, because the sender that wakes it locks it on its behalf
\* (condition.c:30-32); asleep it has given the mutex up.
WakesWithMutex ==
  /\ pc \in {"take", "advance", "unlock", "wait"} => k.owner[requests_mutex] = Processor
  /\ pc = "test" =>
       (k.owner[requests_mutex] = Processor <=> k.state[Processor] # "BLOCKED")
  /\ pc \in {"lock", "fetch", "handler"} => k.owner[requests_mutex] = NULL

\* The ring, the mutex and the processor's program agree at every step.
SignalInv == TypeOK /\ RingHoldsPending /\ WakesWithMutex

\* Whoever sends a signal, be the ring full or not, leaves the processor awake
\* (signals.c:89-91).
SendingWakes ==
  [][tail' # tail => k'.state[Processor] # "BLOCKED"]_vars

\* A handler has faulted: the processor has stopped for good.
Faulted == k.state[Processor] = "RUNNING" /\ k.current # Processor

\* A processor that is awake takes a pending signal unless it has already decided
\* to sleep, a handler faults, or the senders fill the ring up, which the processor
\* takes for an empty one: however long its handlers and the other threads' slices
\* delay it, it gets the processor, the mutex and past the test of the loop
\* (signals.c:55-68).
AwakeProcessorTakes ==
  (pending # <<>> /\ k.state[Processor] # "BLOCKED" /\ pc # "wait")
    ~> (pc = "advance" \/ Faulted \/ Full)

\* Every signal that was raised is eventually taken by the processor.  False: a
\* signal sent between the test (signals.c:57) and the wait (signals.c:58) finds
\* nobody to wake.
SignalsAreHandled == pending # <<>> ~> pc = "advance"
=============================================================================
