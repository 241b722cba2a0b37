----------------------------- MODULE LocalStore -----------------------------
(***************************************************************************)
(* What thread-local storage promises: a table with a row for each thread  *)
(* and a column for each storage.                                          *)
(***************************************************************************)
CONSTANTS Threads, Storages, Values, Unset

VARIABLES
  dtors,   \* does the storage have a destructor?  Unset if it does not exist
  store,   \* the value each thread has in each storage
  handed   \* the values given to destructors by the last step

store_vars == <<dtors, store, handed>>

Empty == [t \in Threads |-> [s \in Storages |-> Unset]]

StoreInit ==
  /\ dtors = [s \in Storages |-> Unset]
  /\ store = Empty
  /\ handed = {}

Create(s) ==
  /\ dtors[s] = Unset
  /\ \E dtor \in BOOLEAN : dtors' = [dtors EXCEPT ![s] = dtor]
  /\ handed' = {}
  /\ UNCHANGED store

Destroy(s) ==
  /\ dtors[s] # Unset
  /\ dtors' = [dtors EXCEPT ![s] = Unset]
  /\ store' = [t \in Threads |-> [store[t] EXCEPT ![s] = Unset]]
  /\ handed' = {}

Set(t, s, value) ==
  /\ dtors[s] # Unset
  /\ store' = [store EXCEPT ![t][s] = value]
  /\ handed' = {}
  /\ UNCHANGED dtors

\* The values of a thread that have a destructor.
Owed(t) ==
  {<<s, store[t][s]>> : s \in {x \in Storages : store[t][x] # Unset /\ dtors[x] = TRUE}}

\* The end of a thread hands all its values to their destructors.
End(t) ==
  /\ store' = [store EXCEPT ![t] = Empty[t]]
  /\ handed' = Owed(t)
  /\ UNCHANGED dtors

\* A call that fails, or the creation of a thread.
Nothing == handed' = {} /\ UNCHANGED <<dtors, store>>

StoreNext ==
  \/ \E s \in Storages : Create(s) \/ Destroy(s)
  \/ \E t \in Threads, s \in Storages, value \in Values : Set(t, s, value)
  \/ \E t \in Threads : End(t)
  \/ Nothing

StoreSpec == StoreInit /\ [][StoreNext]_store_vars
=============================================================================
