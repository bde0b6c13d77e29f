----------------------------- MODULE ThreadPool -----------------------------
(***************************************************************************)
(* The persistent thread pool of src/src/common/pool.c: a caller (thread   *)
(* 0) publishes a run by storing a ticket, the workers spin on the ticket  *)
(* for a while and then sleep on one of two condition variables, and the   *)
(* caller waits for a done flag of each worker of the run.                 *)
(*                                                                         *)
(* Every atomic load or store that another thread may see, and every       *)
(* operation on the mutex and the condition variables, is a step of its    *)
(* own.  The ticket, sleepers and stop are sequentially consistent in the  *)
(* code where their order matters, so an interleaving of such steps is the *)
(* memory model.  How many times a worker spins is left open: it may give  *)
(* up at any look.  The trace of JANAS_POOLTRACE and the pinning are left  *)
(* out: nothing of them is read by the protocol.                           *)
(***************************************************************************)
EXTENDS Integers, FiniteSets

CONSTANTS
  N,                \* n_threads, the caller included
  MaxRuns,          \* bound: runs the caller makes
  MaxSpurious       \* bound: wake-ups of a condition variable nobody signalled

ASSUME PoolAssumption ==
  /\ N \in 1 .. 255                      \* janas_pool_create refuses others
  /\ MaxRuns \in Nat
  /\ MaxSpurious \in Nat

Threads == 0 .. (N - 1)
Workers == 1 .. (N - 1)
Nobody == -1                             \* the mutex is free

VARIABLES
  (* struct janas_pool *)
  n_threads, active, last_active,
  fn,                \* the run whose function p->fn and p->arg hold
  ticket, runs, done, sleepers, stop,
  lock,              \* who holds the mutex
  wake, wake_idle,   \* the workers waiting on each condition variable
  (* the caller *)
  cpc, started, grew,
  (* the workers: where each is, and its locals seen and t *)
  pc, seen, t,
  (* history: calls of the current run's function, by thread; wake-ups left *)
  calls, spurious

poolVars == <<n_threads, active, last_active, fn, ticket, runs, done, sleepers,
              stop, lock, wake, wake_idle>>
callerVars == <<cpc, started, grew>>
workerVars == <<pc, seen, t>>
historyVars == <<calls, spurious>>
vars == <<poolVars, callerVars, workerVars, historyVars>>

(* One atomic value: the number of the run times 256 plus its threads. *)
Ticket(r, a) == r * 256 + a
RunOf(k) == k \div 256
ActiveOf(k) == k % 256

(* A thread left out of the last run it saw sleeps apart, on wake_idle. *)
Idle(w) == seen[w] # 0 /\ w >= ActiveOf(seen[w])

Init ==
  /\ n_threads = N /\ active = N /\ last_active = 0
  /\ fn = 0 /\ ticket = 0 /\ runs = 0
  /\ done = [w \in Threads |-> 0]
  /\ sleepers = 0 /\ stop = 0
  /\ lock = Nobody /\ wake = {} /\ wake_idle = {}
  /\ cpc = "create" /\ started = 1 /\ grew = 0
  /\ pc = [w \in Workers |-> "none"]
  /\ seen = [w \in Workers |-> 0]
  /\ t = [w \in Workers |-> 0]
  /\ calls = [w \in Threads |-> 0]
  /\ spurious = 0

-----------------------------------------------------------------------------
(* The caller: janas_pool_create, _set_active, _run, _destroy.             *)

Caller(from, to) == cpc = from /\ cpc' = to

(* pthread_create of the next worker. *)
CreateThread ==
  /\ cpc = "create"
  /\ started < N
  /\ started' = started + 1
  /\ pc' = [pc EXCEPT ![started] = "head"]
  /\ UNCHANGED <<poolVars, cpc, grew, seen, t, historyVars>>

(* A thread does not start: the pool is the ones before it, and is destroyed. *)
CreateFail ==
  /\ Caller("create", "dlock")
  /\ started < N
  /\ n_threads' = started
  /\ UNCHANGED <<active, last_active, fn, ticket, runs, done, sleepers, stop,
                 lock, wake, wake_idle, started, grew, workerVars, historyVars>>

CreateDone ==
  /\ Caller("create", "ready")
  /\ started = N
  /\ UNCHANGED <<poolVars, started, grew, workerVars, historyVars>>

(* Mutant: n clamped below only. *)
SetActive_Unclamped(n) ==
  /\ cpc = "ready"
  /\ active' = IF n < 1 THEN 1 ELSE n
  /\ UNCHANGED <<n_threads, last_active, fn, ticket, runs, done, sleepers, stop,
                 lock, wake, wake_idle, callerVars, workerVars, historyVars>>

(* janas_pool_set_active: n clamped to 1 .. n_threads. *)
SetActive(n) ==
  /\ cpc = "ready"
  /\ active' = IF n < 1 THEN 1 ELSE IF n > n_threads THEN n_threads ELSE n
  /\ UNCHANGED <<n_threads, last_active, fn, ticket, runs, done, sleepers, stop,
                 lock, wake, wake_idle, callerVars, workerVars, historyVars>>

(* janas_pool_run: the job, and whether threads are wanted back.  Plain
   stores, before the ticket tells anyone of them. *)
RunPrepare ==
  /\ Caller("ready", "publish")
  /\ runs < MaxRuns
  /\ fn' = runs + 1
  /\ grew' = IF active > last_active THEN 1 ELSE 0
  /\ last_active' = active
  /\ UNCHANGED <<n_threads, active, ticket, runs, done, sleepers, stop, lock,
                 wake, wake_idle, started, workerVars, historyVars>>

RunPublish ==
  /\ Caller("publish", "look")
  /\ runs' = runs + 1
  /\ ticket' = Ticket(runs + 1, active)
  /\ calls' = [w \in Threads |-> 0]
  /\ UNCHANGED <<n_threads, active, last_active, fn, done, sleepers, stop, lock,
                 wake, wake_idle, started, grew, workerVars, spurious>>

(* Mutant: the sleepers forgotten unless the count grew. *)
RunLookSleepers_Blind ==
  /\ cpc = "look"
  /\ cpc' = IF grew = 1 THEN "rlock" ELSE "own"
  /\ UNCHANGED <<poolVars, started, grew, workerVars, historyVars>>

(* The lock and the broadcast are for the threads asleep, if there are any. *)
RunLookSleepers ==
  /\ cpc = "look"
  /\ cpc' = IF grew = 1 \/ sleepers # 0 THEN "rlock" ELSE "own"
  /\ UNCHANGED <<poolVars, started, grew, workerVars, historyVars>>

RunLock ==
  /\ Caller("rlock", "broadcast")
  /\ lock = Nobody
  /\ lock' = 0
  /\ UNCHANGED <<n_threads, active, last_active, fn, ticket, runs, done,
                 sleepers, stop, wake, wake_idle, started, grew, workerVars,
                 historyVars>>

(* The workers in W leave the condition variable, to take the mutex again. *)
Woken(W) == pc' = [w \in Workers |-> IF w \in W THEN "relock" ELSE pc[w]]

(* Mutant: the threads left out are never called back. *)
RunBroadcast_OneCond ==
  /\ Caller("broadcast", "own")
  /\ Woken(wake)
  /\ wake' = {}
  /\ lock' = Nobody
  /\ UNCHANGED <<n_threads, active, last_active, fn, ticket, runs, done,
                 sleepers, stop, wake_idle, started, grew, seen, t, historyVars>>

RunBroadcast ==
  /\ Caller("broadcast", "own")
  /\ Woken(wake \cup (IF grew = 1 THEN wake_idle ELSE {}))
  /\ wake' = {}
  /\ wake_idle' = IF grew = 1 THEN {} ELSE wake_idle
  /\ lock' = Nobody
  /\ UNCHANGED <<n_threads, active, last_active, fn, ticket, runs, done,
                 sleepers, stop, started, grew, seen, t, historyVars>>

(* The caller's own share of the run. *)
OwnEnter ==
  /\ Caller("own", "inside")
  /\ calls' = [calls EXCEPT ![0] = @ + 1]
  /\ UNCHANGED <<poolVars, started, grew, workerVars, spurious>>

OwnLeave ==
  /\ Caller("inside", "wait")
  /\ UNCHANGED <<poolVars, started, grew, workerVars, historyVars>>

(* Mutant: the last worker of the team is not waited for. *)
RunReturn_OneShort ==
  /\ Caller("wait", "ready")
  /\ \A i \in 1 .. (ActiveOf(ticket) - 2) : done[i] = runs
  /\ UNCHANGED <<poolVars, started, grew, workerVars, historyVars>>

(* The done flags of the run's workers, each waited for in turn: once set to
   this run a flag stays, so the last look finds them all. *)
RunReturn ==
  /\ Caller("wait", "ready")
  /\ \A i \in 1 .. (ActiveOf(ticket) - 1) : done[i] = runs
  /\ UNCHANGED <<poolVars, started, grew, workerVars, historyVars>>

(* janas_pool_destroy. *)
Destroy ==
  /\ Caller("ready", "dlock")
  /\ UNCHANGED <<poolVars, started, grew, workerVars, historyVars>>

DestroyLock ==
  /\ Caller("dlock", "dstop")
  /\ lock = Nobody
  /\ lock' = 0
  /\ UNCHANGED <<n_threads, active, last_active, fn, ticket, runs, done,
                 sleepers, stop, wake, wake_idle, started, grew, workerVars,
                 historyVars>>

DestroyStop ==
  /\ Caller("dstop", "join")
  /\ stop' = 1
  /\ Woken(wake \cup wake_idle)
  /\ wake' = {} /\ wake_idle' = {}
  /\ lock' = Nobody
  /\ UNCHANGED <<n_threads, active, last_active, fn, ticket, runs, done,
                 sleepers, started, grew, seen, t, historyVars>>

(* The threads started are joined; what is freed then is read by nobody. *)
DestroyJoin ==
  /\ Caller("join", "freed")
  /\ \A i \in 1 .. (n_threads - 1) : pc[i] = "exit"
  /\ UNCHANGED <<poolVars, started, grew, workerVars, historyVars>>

-----------------------------------------------------------------------------
(* A worker.                                                               *)

Worker(w, from, to) == pc[w] = from /\ pc' = [pc EXCEPT ![w] = to]

(* The loop's test, first half: t = ticket, another than the one seen? *)
LoadTicket(w) ==
  /\ pc[w] = "head"
  /\ t' = [t EXCEPT ![w] = ticket]
  /\ pc' = [pc EXCEPT ![w] = IF ticket = seen[w] THEN "loadstop" ELSE "take"]
  /\ UNCHANGED <<poolVars, callerVars, seen, historyVars>>

(* Second half: stop.  Then another turn of spinning, or the way to sleep:
   a thread left out takes it at once. *)
LoadStop(w) ==
  /\ pc[w] = "loadstop"
  /\ \/ stop = 1 /\ pc' = [pc EXCEPT ![w] = "take"]
     \/ stop = 0 /\ ~Idle(w) /\ pc' = [pc EXCEPT ![w] = "head"]
     \/ stop = 0 /\ pc' = [pc EXCEPT ![w] = "lock"]
  /\ UNCHANGED <<poolVars, callerVars, seen, t, historyVars>>

SleepLock(w) ==
  /\ Worker(w, "lock", "count")
  /\ lock = Nobody
  /\ lock' = w
  /\ UNCHANGED <<n_threads, active, last_active, fn, ticket, runs, done,
                 sleepers, stop, wake, wake_idle, callerVars, seen, t,
                 historyVars>>

SleepCount(w) ==
  /\ Worker(w, "count", "test")
  /\ sleepers' = sleepers + 1
  /\ UNCHANGED <<n_threads, active, last_active, fn, ticket, runs, done, stop,
                 lock, wake, wake_idle, callerVars, seen, t, historyVars>>

(* The ticket read again under the lock; stop changes only under it. *)
SleepTest(w) ==
  /\ pc[w] = "test"
  /\ pc' = [pc EXCEPT ![w] = IF ticket = seen[w] /\ stop = 0 THEN "sleep" ELSE "uncount"]
  /\ UNCHANGED <<poolVars, callerVars, seen, t, historyVars>>

(* pthread_cond_wait: the mutex released and the thread waiting, in one step. *)
SleepWait(w) ==
  /\ Worker(w, "sleep", "asleep")
  /\ wake' = IF Idle(w) THEN wake ELSE wake \cup {w}
  /\ wake_idle' = IF Idle(w) THEN wake_idle \cup {w} ELSE wake_idle
  /\ lock' = Nobody
  /\ UNCHANGED <<n_threads, active, last_active, fn, ticket, runs, done,
                 sleepers, stop, callerVars, seen, t, historyVars>>

SpuriousWake(w) ==
  /\ w \in wake \cup wake_idle
  /\ spurious < MaxSpurious
  /\ spurious' = spurious + 1
  /\ Woken({w})
  /\ wake' = wake \ {w} /\ wake_idle' = wake_idle \ {w}
  /\ UNCHANGED <<n_threads, active, last_active, fn, ticket, runs, done,
                 sleepers, stop, lock, callerVars, seen, t, calls>>

SleepRelock(w) ==
  /\ Worker(w, "relock", "test")
  /\ lock = Nobody
  /\ lock' = w
  /\ UNCHANGED <<n_threads, active, last_active, fn, ticket, runs, done,
                 sleepers, stop, wake, wake_idle, callerVars, seen, t,
                 historyVars>>

SleepUncount(w) ==
  /\ Worker(w, "uncount", "unlock")
  /\ sleepers' = sleepers - 1
  /\ UNCHANGED <<n_threads, active, last_active, fn, ticket, runs, done, stop,
                 lock, wake, wake_idle, callerVars, seen, t, historyVars>>

SleepUnlock(w) ==
  /\ Worker(w, "unlock", "head")
  /\ lock' = Nobody
  /\ UNCHANGED <<n_threads, active, last_active, fn, ticket, runs, done,
                 sleepers, stop, wake, wake_idle, callerVars, seen, t,
                 historyVars>>

(* Mutant: the team has one thread too many. *)
TakeTicket_OneMore(w) ==
  /\ pc[w] = "take"
  /\ \/ /\ stop = 1
        /\ pc' = [pc EXCEPT ![w] = "exit"]
        /\ UNCHANGED seen
     \/ /\ stop = 0
        /\ seen' = [seen EXCEPT ![w] = t[w]]
        /\ pc' = [pc EXCEPT ![w] = IF w <= ActiveOf(t[w]) THEN "call" ELSE "head"]
  /\ UNCHANGED <<poolVars, callerVars, t, historyVars>>

(* Out of the loop: the end, or a run that may or may not be this thread's. *)
TakeTicket(w) ==
  /\ pc[w] = "take"
  /\ \/ /\ stop = 1
        /\ pc' = [pc EXCEPT ![w] = "exit"]
        /\ UNCHANGED seen
     \/ /\ stop = 0
        /\ seen' = [seen EXCEPT ![w] = t[w]]
        /\ pc' = [pc EXCEPT ![w] = IF w < ActiveOf(t[w]) THEN "call" ELSE "head"]
  /\ UNCHANGED <<poolVars, callerVars, t, historyVars>>

CallEnter(w) ==
  /\ Worker(w, "call", "inside")
  /\ calls' = [calls EXCEPT ![w] = @ + 1]
  /\ UNCHANGED <<poolVars, callerVars, seen, t, spurious>>

CallLeave(w) ==
  /\ Worker(w, "inside", "flag")
  /\ UNCHANGED <<poolVars, callerVars, seen, t, historyVars>>

StoreDone(w) ==
  /\ Worker(w, "flag", "head")
  /\ done' = [done EXCEPT ![w] = RunOf(t[w])]
  /\ UNCHANGED <<n_threads, active, last_active, fn, ticket, runs, sleepers,
                 stop, lock, wake, wake_idle, callerVars, seen, t, historyVars>>

WorkerStep(w) ==
  \/ LoadTicket(w) \/ LoadStop(w)
  \/ SleepLock(w) \/ SleepCount(w) \/ SleepTest(w) \/ SleepWait(w)
  \/ SleepRelock(w) \/ SleepUncount(w) \/ SleepUnlock(w)
  \/ TakeTicket(w) \/ CallEnter(w) \/ CallLeave(w) \/ StoreDone(w)

(* What the caller goes on with once it has called run or destroy. *)
CallerStep ==
  \/ RunPublish \/ RunLookSleepers \/ RunLock \/ RunBroadcast
  \/ OwnEnter \/ OwnLeave \/ RunReturn
  \/ DestroyLock \/ DestroyStop \/ DestroyJoin

(* The pool is gone. *)
Freed == cpc = "freed" /\ UNCHANGED vars

Next ==
  \/ CreateThread \/ CreateFail \/ CreateDone
  \/ \E n \in 0 .. (N + 1) : SetActive(n)
  \/ RunPrepare \/ Destroy
  \/ CallerStep
  \/ \E w \in Workers : WorkerStep(w) \/ SpuriousWake(w)
  \/ Freed

(* Threads run, and a mutex left free is taken by one that wants it.  Nothing
   obliges the program to make another run, nor to destroy the pool. *)
Fairness == WF_vars(CallerStep) /\ \A w \in Workers : WF_vars(WorkerStep(w))

Spec == Init /\ [][Next]_vars
FairSpec == Spec /\ Fairness

-----------------------------------------------------------------------------
(* Properties.                                                             *)

InRun == cpc \in {"look", "rlock", "broadcast", "own", "inside", "wait"}

CallerPCs == {"create", "ready", "publish", "look", "rlock", "broadcast", "own",
              "inside", "wait", "dlock", "dstop", "join", "freed"}
WorkerPCs == {"none", "head", "loadstop", "lock", "count", "test", "sleep",
              "asleep", "relock", "uncount", "unlock", "take", "call", "inside",
              "flag", "exit"}

(* Every variable of the pool, of the caller and of the workers has its type. *)
TypeOK ==
  /\ n_threads \in 1 .. N /\ active \in 1 .. N /\ last_active \in 0 .. N
  /\ fn \in Nat /\ ticket \in Nat /\ runs \in Nat
  /\ done \in [Threads -> Nat]
  /\ sleepers \in Int /\ stop \in {0, 1}
  /\ lock \in Threads \cup {Nobody}
  /\ wake \in SUBSET Workers /\ wake_idle \in SUBSET Workers
  /\ cpc \in CallerPCs /\ started \in 1 .. N /\ grew \in {0, 1}
  /\ pc \in [Workers -> WorkerPCs]
  /\ seen \in [Workers -> Nat] /\ t \in [Workers -> Nat]
  /\ calls \in [Threads -> Nat] /\ spurious \in Nat

(* A worker about to call, or inside, the function it found in p->fn is in
   the run the ticket it took is of, and the caller is in that run still:
   p->fn and p->arg, plain fields, are never changed under a worker. *)
NoStaleFn ==
  \A w \in Workers : pc[w] \in {"call", "inside"} =>
     /\ InRun
     /\ RunOf(t[w]) = runs /\ fn = runs
     /\ w < ActiveOf(t[w])

(* A worker that sleeps through a ticket that wants it will be woken: the
   caller is still on its way to broadcasting the condition variable that
   worker sleeps on.  This is what publishing before reading sleepers, and
   broadcasting wake_idle only when the count grows, must not break. *)
NoLostWakeup ==
  \A w \in Workers : pc[w] = "asleep" /\ ticket # seen[w] /\ w < ActiveOf(ticket) =>
     /\ cpc \in {"look", "rlock", "broadcast"}
     /\ cpc = "look" => grew = 1 \/ sleepers # 0
     /\ w \in wake_idle => grew = 1

(* What ForkJoin sees of the pool: the threads of the team that have not called
   yet, and those inside the function. *)
Todo == IF InRun THEN {i \in 0 .. (ActiveOf(ticket) - 1) : calls[i] = 0} ELSE {}
Busy == {w \in Workers : pc[w] = "inside"} \cup (IF cpc = "inside" THEN {0} ELSE {})

FJ == INSTANCE ForkJoin WITH open <- InRun, todo <- Todo, busy <- Busy

(* The pool implements ForkJoin: one call of the run's function on each thread
   of the team, none of a thread outside it, and no return before the last. *)
ImplementsForkJoin == FJ!FJSpec

(* Every call returns.  A run published ends: no worker of it sleeps for ever,
   whatever counts of threads the runs before it had.  janas_pool_destroy ends,
   from a pool of any age and after a failed creation: every thread started is
   told, wherever it was, and exits. *)
CallsReturn == /\ InRun ~> (cpc = "ready")
               /\ (cpc = "dlock") ~> (cpc = "freed")

=============================================================================
