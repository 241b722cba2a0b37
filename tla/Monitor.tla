------------------------------ MODULE Monitor -------------------------------
(***************************************************************************)
(* What the thread kernel promises its users, without a pointer in sight:  *)
(* threads take turns in first-in first-out order, a mutex is handed to    *)
(* the thread that has waited for it longest, a thread that waits on a     *)
(* condition sleeps until it is the oldest sleeper at a signal (or until a *)
(* broadcast) and goes on only once it has its mutex back.                 *)
(***************************************************************************)
EXTENDS Integers, Sequences, SequencesExt

CONSTANTS Threads, Main, Mutexes, Conds, Recursive, NULL

VARIABLES
  running,    \* the thread that executes, Main when there is none
  ready,      \* the threads that could execute, oldest first
  owner,      \* the thread that holds a mutex
  count,      \* how many times it has locked it
  waiting,    \* the threads that want a mutex, oldest first
  sleeping    \* the threads asleep on a condition, with the mutex they gave up

vars == <<running, ready, owner, count, waiting, sleeping>>

Init ==
  /\ running = Main
  /\ \E p \in Threads, u \in Threads : p # u /\ ready = <<p, u>>
  /\ owner = [m \in Mutexes |-> NULL]
  /\ count = [m \in Mutexes |-> 0]
  /\ waiting = [m \in Mutexes |-> <<>>]
  /\ sleeping = [c \in Conds |-> <<>>]

Asleep == UNION {{s[1] : s \in ToSet(sleeping[c])} : c \in Conds}
Waiting == UNION {ToSet(waiting[m]) : m \in Mutexes}
Idle == Threads \ ({running} \union ToSet(ready) \union Waiting \union Asleep)

\* The oldest of the threads in q gets the processor.
RunFirst(q) ==
  /\ running' = IF q = <<>> THEN Main ELSE Head(q)
  /\ ready' = IF q = <<>> THEN <<>> ELSE Tail(q)

-----------------------------------------------------------------------------
Create ==
  /\ running # Main
  /\ \E t \in Idle : ready' = Append(ready, t)
  /\ UNCHANGED <<running, owner, count, waiting, sleeping>>

Exit ==
  /\ running # Main
  /\ \A m \in Mutexes : owner[m] # running
  /\ RunFirst(ready)
  /\ UNCHANGED <<owner, count, waiting, sleeping>>

Preempt ==
  /\ RunFirst(IF running = Main THEN ready ELSE Append(ready, running))
  /\ UNCHANGED <<owner, count, waiting, sleeping>>

Lock(m) ==
  /\ running # Main
  /\ \/ /\ owner[m] = NULL
        /\ owner' = [owner EXCEPT ![m] = running]
        /\ count' = [count EXCEPT ![m] = 1]
        /\ UNCHANGED <<running, ready, waiting, sleeping>>
     \/ /\ owner[m] = running /\ m \in Recursive
        /\ count' = [count EXCEPT ![m] = @ + 1]
        /\ UNCHANGED <<running, ready, owner, waiting, sleeping>>
     \/ /\ owner[m] \notin {NULL, running}
        /\ waiting' = [waiting EXCEPT ![m] = Append(@, running)]
        /\ RunFirst(ready)
        /\ UNCHANGED <<owner, count, sleeping>>

\* The owner gives m up to the oldest waiter, who becomes ready with it.
GiveUp(m) ==
  IF waiting[m] = <<>>
  THEN /\ owner' = [owner EXCEPT ![m] = NULL]
       /\ count' = [count EXCEPT ![m] = 0]
       /\ UNCHANGED waiting
  ELSE /\ owner' = [owner EXCEPT ![m] = Head(waiting[m])]
       /\ count' = [count EXCEPT ![m] = 1]
       /\ waiting' = [waiting EXCEPT ![m] = Tail(@)]

ReadyAfterGivingUp(m) ==
  IF waiting[m] = <<>> THEN ready ELSE Append(ready, Head(waiting[m]))

Unlock(m) ==
  /\ running # Main /\ owner[m] = running
  /\ IF m \in Recursive /\ count[m] > 1
     THEN /\ count' = [count EXCEPT ![m] = @ - 1]
          /\ UNCHANGED <<ready, owner, waiting>>
     ELSE /\ GiveUp(m)
          /\ ready' = ReadyAfterGivingUp(m)
  /\ UNCHANGED <<running, sleeping>>

\* All that sleep on a condition gave up the same mutex.
Wait(c, m) ==
  /\ running # Main /\ owner[m] = running
  /\ \A i \in DOMAIN sleeping[c] : sleeping[c][i][2] = m
  /\ sleeping' = [sleeping EXCEPT ![c] = Append(@, <<running, m>>)]
  /\ GiveUp(m)
  /\ RunFirst(ReadyAfterGivingUp(m))

\* The n oldest sleepers of c go for their mutex, in order: if it is free the
\* first owns it and is ready, the others wait for it.
Wake(c, m, n) ==
  LET woken == [i \in 1 .. n |-> sleeping[c][i][1]]
  IN /\ running # Main
     /\ \A i \in 1 .. n : sleeping[c][i][2] = m
     /\ sleeping' = [sleeping EXCEPT ![c] = SubSeq(@, n + 1, Len(@))]
     /\ IF owner[m] = NULL
        THEN /\ owner' = [owner EXCEPT ![m] = Head(woken)]
             /\ count' = [count EXCEPT ![m] = 1]
             /\ ready' = Append(ready, Head(woken))
             /\ waiting' = [waiting EXCEPT ![m] = @ \o Tail(woken)]
        ELSE /\ waiting' = [waiting EXCEPT ![m] = @ \o woken]
             /\ UNCHANGED <<ready, owner, count>>
     /\ UNCHANGED running

Signal(c) == sleeping[c] # <<>> /\ \E m \in Mutexes : Wake(c, m, 1)

Broadcast(c) == sleeping[c] # <<>> /\ \E m \in Mutexes : Wake(c, m, Len(sleeping[c]))

-----------------------------------------------------------------------------
Next ==
  \/ Create \/ Exit \/ Preempt
  \/ \E m \in Mutexes : Lock(m) \/ Unlock(m)
  \/ \E c \in Conds : Signal(c) \/ Broadcast(c) \/ \E m \in Mutexes : Wait(c, m)

Spec == Init /\ [][Next]_vars
=============================================================================
