------------------------------ MODULE ForkJoin ------------------------------
(***************************************************************************)
(* What common/pool.h promises of janas_pool_run: the function is called   *)
(* once on each of the n threads of the team, the caller included as       *)
(* thread 0, and the call returns when every one of them has finished.     *)
(* How the threads are told, how they sleep and how the end of the run is  *)
(* noticed is left to the implementation (module ThreadPool).              *)
(***************************************************************************)
EXTENDS Naturals

CONSTANT N                       \* the threads of the pool, the caller among them

VARIABLES
  open,                          \* a run is in progress
  todo,                          \* the threads that have yet to call the function
  busy                           \* the threads inside the function

fjvars == <<open, todo, busy>>

FJInit == open = FALSE /\ todo = {} /\ busy = {}

(* A run on the first n threads begins: no call of an earlier one is left. *)
Fork(n) ==
  /\ ~open
  /\ open' = TRUE
  /\ todo' = 0 .. (n - 1)
  /\ UNCHANGED busy

Enter(i) ==
  /\ i \in todo
  /\ todo' = todo \ {i}
  /\ busy' = busy \cup {i}
  /\ UNCHANGED open

Leave(i) ==
  /\ i \in busy
  /\ busy' = busy \ {i}
  /\ UNCHANGED <<open, todo>>

(* The run returns: every thread of the team has called and left. *)
Join ==
  /\ open
  /\ todo = {}
  /\ busy = {}
  /\ open' = FALSE
  /\ UNCHANGED <<todo, busy>>

FJNext ==
  \/ \E n \in 1 .. N : Fork(n)
  \/ \E i \in 0 .. (N - 1) : Enter(i) \/ Leave(i)
  \/ Join

FJSpec == FJInit /\ [][FJNext]_fjvars
=============================================================================
