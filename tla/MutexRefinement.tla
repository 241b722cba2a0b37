-------------------------- MODULE MutexRefinement ---------------------------
(***************************************************************************)
(* The linked lists of MutexSystem, read as sequences, implement Monitor.  *)
(***************************************************************************)
EXTENDS MutexSystem, Sequences

\* The threads met by following next from h, in order; at[i] is the one i links
\* further on.
ListFrom(next, h) ==
  LET N == Cardinality(All)
      at[i \in 0 .. N] ==
        IF i = 0 THEN h ELSE IF at[i - 1] = NULL THEN NULL ELSE next[at[i - 1]]
  IN  [i \in 1 .. Cardinality({j \in 0 .. N : at[j] # NULL}) |-> at[i - 1]]

Abstract == INSTANCE Monitor WITH
  running  <- k.current,
  ready    <- ListFrom(k.next, k.head),
  owner    <- k.owner,
  count    <- k.lock_count,
  waiting  <- [m \in Mutexes |-> ListFrom(k.next, k.mhead[m])],
  sleeping <- [c \in Conds |->
                 LET q == ListFrom(k.next, k.chead[c])
                 IN  [i \in DOMAIN q |-> <<q[i], k.waiting_on[q[i]]>>]]

\* Pointers and all, the kernel is the first-in first-out monitor of Monitor:
\* every trap appends to, removes from and hands over exactly as the abstract
\* lists do, or changes nothing the users can see.
ImplementsMonitor == Abstract!Spec
=============================================================================
