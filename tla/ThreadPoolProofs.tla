-------------------------- MODULE ThreadPoolProofs --------------------------
(***************************************************************************)
(* Proofs about ThreadPool, for every number of threads, of runs and of    *)
(* wake-ups: the type invariant, that a worker never calls a function that *)
(* is not its run's, that no wake-up is lost, and that the pool implements *)
(* ForkJoin.                                                               *)
(*                                                                         *)
(* The inductive invariant says what the code relies on without saying it: *)
(* who holds the mutex, who is counted in sleepers, which condition        *)
(* variable each sleeper is on, that outside a run every flag of the last  *)
(* team is up, and that a worker past the ticket's test belongs to the run *)
(* in progress.                                                            *)
(***************************************************************************)
EXTENDS ThreadPool, FiniteSetTheorems, TLAPS

Holding == {"count", "test", "sleep", "uncount", "unlock"}
Counted == {"test", "sleep", "asleep", "relock", "uncount"}
Calling == {"call", "inside", "flag"}

(* The ticket is its run and its count, and last_active that count. *)
TicketInv ==
  /\ RunOf(ticket) = runs
  /\ ActiveOf(ticket) \in 0 .. N
  /\ runs = 0 => ticket = 0
  /\ cpc = "create" => runs = 0
  /\ InRun => runs > 0 /\ ActiveOf(ticket) >= 1
  /\ cpc = "publish" =>
        /\ last_active = active /\ fn = runs + 1
        /\ grew = IF active > ActiveOf(ticket) THEN 1 ELSE 0
  /\ cpc # "publish" => last_active = ActiveOf(ticket) /\ fn = runs
  /\ stop = 1 => cpc \in {"join", "freed"}

(* The mutex is held by the thread whose place says so, and a thread not yet
   created is nowhere. *)
LockInv ==
  /\ cpc = "create" => \A w \in Workers : w >= started => pc[w] = "none"
  /\ \A w \in Workers : pc[w] \in Holding <=> lock = w
  /\ cpc \in {"broadcast", "dstop"} <=> lock = 0

(* What a worker has seen and taken is a ticket published; the flag follows. *)
SeenOf(w) ==
  /\ RunOf(seen[w]) <= runs
  /\ RunOf(seen[w]) = runs => seen[w] = ticket
  /\ done[w] <= runs
  /\ done[w] = runs /\ runs > 0 => seen[w] = ticket
  /\ ~InRun /\ w < ActiveOf(ticket) => done[w] = runs
  /\ pc[w] \in Calling =>
        /\ t[w] = ticket /\ seen[w] = ticket
        /\ w < ActiveOf(ticket) /\ done[w] < runs
  /\ pc[w] = "take" /\ stop = 0 =>
        /\ RunOf(seen[w]) < RunOf(t[w])
        /\ RunOf(t[w]) <= runs
        /\ RunOf(t[w]) = runs => t[w] = ticket
        /\ w < ActiveOf(t[w]) => t[w] = ticket

SeenInv == \A w \in Workers : SeenOf(w)

(* Who sleeps, where, and how many are counted. *)
Asleep(w) ==
  /\ w \in wake <=> pc[w] = "asleep" /\ ~Idle(w)
  /\ w \in wake_idle <=> pc[w] = "asleep" /\ Idle(w)

SleepInv ==
  /\ sleepers = Cardinality({w \in Workers : pc[w] \in Counted})
  /\ \A w \in Workers : Asleep(w)

(* NoLostWakeup, from the moment the worker has decided to sleep. *)
WakeOf(w) ==
  pc[w] \in {"sleep", "asleep"} =>
    /\ stop = 0
    /\ ticket # seen[w] /\ w < ActiveOf(ticket) =>
          /\ cpc \in {"look", "rlock", "broadcast"}
          /\ Idle(w) => grew = 1

WakeInv == \A w \in Workers : WakeOf(w)

(* How often each thread has called the function of the run in progress. *)
CallsOf(w) ==
  calls[w] = IF seen[w] = ticket /\ w < ActiveOf(ticket) /\ pc[w] # "call"
             THEN 1 ELSE 0

CallsInv ==
  InRun =>
    /\ calls[0] = IF cpc \in {"inside", "wait"} THEN 1 ELSE 0
    /\ \A w \in Workers : CallsOf(w)

IInv == TypeOK /\ TicketInv /\ LockInv /\ SeenInv /\ SleepInv /\ WakeInv /\ CallsInv

-----------------------------------------------------------------------------
(* The packing of the ticket: a count of at most 255 threads comes back.   *)
LEMMA TicketParts ==
  ASSUME NEW r \in Nat, NEW a \in 0 .. 255
  PROVE  /\ Ticket(r, a) \in Nat
         /\ RunOf(Ticket(r, a)) = r
         /\ ActiveOf(Ticket(r, a)) = a
  BY DEF Ticket, RunOf, ActiveOf

LEMMA PartTypes ==
  ASSUME NEW k \in Nat
  PROVE  RunOf(k) \in Nat /\ ActiveOf(k) \in Nat /\ ActiveOf(k) \in 0 .. 255
  BY DEF RunOf, ActiveOf

LEMMA Teams == Workers \subseteq Threads /\ 0 \in Threads /\ Workers \subseteq 1 .. 254
  BY PoolAssumption DEF Workers, Threads

(* Each step of the pool keeps the types.                                  *)
LEMMA TypeStep == TypeOK /\ [Next]_vars => TypeOK'
  <1> SUFFICES ASSUME TypeOK, [Next]_vars PROVE TypeOK'
    OBVIOUS
  <1> USE DEF TypeOK, poolVars, callerVars, workerVars, historyVars
  <1>1. CASE CreateThread
    <2>1. started \in Workers /\ started + 1 \in 1 .. N
      BY <1>1, PoolAssumption DEF CreateThread, Workers
    <2> QED
      BY <1>1, <2>1 DEF CreateThread, WorkerPCs
  <1>2. CASE CreateFail \/ CreateDone \/ Destroy
    BY <1>2, PoolAssumption DEF CreateFail, CreateDone, Destroy, Caller, CallerPCs
  <1>3. ASSUME NEW n \in 0 .. (N + 1), SetActive(n) PROVE TypeOK'
    BY <1>3, PoolAssumption DEF SetActive
  <1>4. CASE RunPrepare
    BY <1>4, PoolAssumption DEF RunPrepare, Caller, CallerPCs
  <1>5. CASE RunPublish
    <2>1. runs + 1 \in Nat /\ active \in 0 .. 255
      BY PoolAssumption
    <2>2. Ticket(runs + 1, active) \in Nat
      BY <2>1, TicketParts
    <2> QED
      BY <1>5, <2>1, <2>2 DEF RunPublish, Caller, CallerPCs
  <1>6. CASE RunLookSleepers
    BY <1>6 DEF RunLookSleepers, CallerPCs
  <1>61. CASE RunLock
    BY <1>61, Teams DEF RunLock, Caller, CallerPCs
  <1>62. CASE DestroyLock
    BY <1>62, Teams DEF DestroyLock, Caller, CallerPCs
  <1>7. CASE RunBroadcast
    BY <1>7 DEF RunBroadcast, Caller, CallerPCs, Woken, WorkerPCs
  <1>8. CASE DestroyStop
    BY <1>8 DEF DestroyStop, Caller, CallerPCs, Woken, WorkerPCs
  <1>9. CASE OwnEnter
    BY <1>9, Teams DEF OwnEnter, Caller, CallerPCs
  <1>91. CASE OwnLeave
    BY <1>91 DEF OwnLeave, Caller, CallerPCs
  <1>92. CASE RunReturn
    BY <1>92 DEF RunReturn, Caller, CallerPCs
  <1>93. CASE DestroyJoin
    BY <1>93 DEF DestroyJoin, Caller, CallerPCs
  <1>10. ASSUME NEW w \in Workers, WorkerStep(w) PROVE TypeOK'
    <2> USE DEF Worker, WorkerPCs
    <2>1. CASE LoadTicket(w)
      BY <2>1 DEF LoadTicket
    <2>2. CASE LoadStop(w)
      BY <2>2 DEF LoadStop
    <2>3. CASE SleepLock(w)
      BY <2>3, Teams DEF SleepLock
    <2>4. CASE SleepCount(w)
      BY <2>4 DEF SleepCount
    <2>5. CASE SleepTest(w)
      BY <2>5 DEF SleepTest
    <2>6. CASE SleepWait(w)
      BY <2>6 DEF SleepWait
    <2>7. CASE SleepRelock(w)
      BY <2>7, Teams DEF SleepRelock
    <2>8. CASE SleepUncount(w)
      BY <2>8 DEF SleepUncount
    <2>9. CASE SleepUnlock(w)
      BY <2>9 DEF SleepUnlock
    <2>10. CASE TakeTicket(w)
      BY <2>10 DEF TakeTicket
    <2>11. CASE CallEnter(w)
      BY <2>11, Teams DEF CallEnter
    <2>13. CASE CallLeave(w)
      BY <2>13 DEF CallLeave
    <2>12. CASE StoreDone(w)
      <3>1. RunOf(t[w]) \in Nat /\ w \in Threads
        BY PartTypes, Teams
      <3> QED
        BY <2>12, <3>1 DEF StoreDone
    <2> QED
      BY <1>10, <2>1, <2>2, <2>3, <2>4, <2>5, <2>6, <2>7, <2>8, <2>9, <2>10,
         <2>11, <2>12, <2>13 DEF WorkerStep
  <1>11. ASSUME NEW w \in Workers, SpuriousWake(w) PROVE TypeOK'
    BY <1>11 DEF SpuriousWake, Woken, WorkerPCs
  <1>12. CASE UNCHANGED vars
    BY <1>12 DEF vars
  <1> QED
    BY <1>1, <1>2, <1>3, <1>4, <1>5, <1>6, <1>61, <1>62, <1>7, <1>8, <1>9, <1>91,
       <1>92, <1>93, <1>10, <1>11, <1>12
       DEF Next, CallerStep, Freed

(* Spec => []TypeOK: every variable of the pool keeps its type for ever. *)
THEOREM PoolTypes == Spec => []TypeOK
  <1>1. Init => TypeOK
    BY PoolAssumption DEF Init, TypeOK, Threads, Workers, Nobody, CallerPCs, WorkerPCs
  <1> QED
    BY <1>1, TypeStep, PTL DEF Spec

-----------------------------------------------------------------------------
(* What a worker's step, a spurious wake-up included, leaves alone.        *)
LEMMA WorkerFrame ==
  ASSUME NEW w \in Workers, WorkerStep(w) \/ SpuriousWake(w)
  PROVE  UNCHANGED <<n_threads, active, last_active, fn, ticket, runs, stop,
                     cpc, started, grew>>
  <1> USE DEF poolVars, callerVars, workerVars, historyVars
  <1>1. CASE LoadTicket(w) \/ LoadStop(w)
    BY <1>1 DEF LoadTicket, LoadStop
  <1>2. CASE SleepLock(w) \/ SleepCount(w) \/ SleepTest(w)
    BY <1>2 DEF SleepLock, SleepCount, SleepTest
  <1>3. CASE SleepWait(w) \/ SpuriousWake(w) \/ SleepRelock(w)
    BY <1>3 DEF SleepWait, SpuriousWake, SleepRelock
  <1>4. CASE SleepUncount(w) \/ SleepUnlock(w) \/ TakeTicket(w)
    BY <1>4 DEF SleepUncount, SleepUnlock, TakeTicket
  <1>5. CASE CallEnter(w) \/ CallLeave(w) \/ StoreDone(w)
    BY <1>5 DEF CallEnter, CallLeave, StoreDone
  <1> QED
    BY <1>1, <1>2, <1>3, <1>4, <1>5 DEF WorkerStep

LEMMA TicketStep == IInv /\ [Next]_vars => TicketInv'
  <1> SUFFICES ASSUME TypeOK, TicketInv, [Next]_vars PROVE TicketInv'
    BY DEF IInv
  <1> USE DEF poolVars, callerVars, workerVars, historyVars, TicketInv, InRun, TypeOK, Caller
  <1>1. CASE CreateThread \/ CreateFail \/ CreateDone
    BY <1>1 DEF CreateThread, CreateFail, CreateDone
  <1>2. ASSUME NEW n \in 0 .. (N + 1), SetActive(n) PROVE TicketInv'
    BY <1>2 DEF SetActive
  <1>3. CASE RunPrepare
    BY <1>3 DEF RunPrepare
  <1>4. CASE RunPublish
    <2>1. runs + 1 \in Nat /\ active \in 0 .. 255
      BY PoolAssumption
    <2>2. RunOf(ticket') = runs + 1 /\ ActiveOf(ticket') = active
      BY <1>4, <2>1, TicketParts DEF RunPublish
    <2> QED
      BY <1>4, <2>1, <2>2 DEF RunPublish
  <1>5. CASE RunLookSleepers \/ RunLock \/ RunBroadcast
    BY <1>5 DEF RunLookSleepers, RunLock, RunBroadcast
  <1>6. CASE OwnEnter \/ OwnLeave \/ RunReturn
    BY <1>6 DEF OwnEnter, OwnLeave, RunReturn
  <1>7. CASE Destroy \/ DestroyLock \/ DestroyStop \/ DestroyJoin
    BY <1>7 DEF Destroy, DestroyLock, DestroyStop, DestroyJoin
  <1>8. ASSUME NEW w \in Workers, WorkerStep(w) \/ SpuriousWake(w) PROVE TicketInv'
    BY <1>8, WorkerFrame
  <1>9. CASE UNCHANGED vars
    BY <1>9 DEF vars
  <1> QED
    BY <1>1, <1>2, <1>3, <1>4, <1>5, <1>6, <1>7, <1>8, <1>9 DEF Next, CallerStep, Freed

(* One worker moves, and the lock stays as it is, or is taken or given back by *)
(* that worker: LockInv is kept when the place the worker moves to agrees.     *)
LEMMA LockMove ==
  ASSUME NEW w \in Workers, pc \in [Workers -> WorkerPCs],
         NEW to, pc' = [pc EXCEPT ![w] = to], pc[w] # "none",
         UNCHANGED <<cpc, started>>,
         \/ lock' = lock
         \/ lock = Nobody /\ lock' = w
         \/ lock = w /\ lock' = Nobody,
         to \in Holding <=> lock' = w,
         LockInv
  PROVE  LockInv'
  <1>0. \A v \in Workers : v # 0 /\ v # Nobody
    BY Teams DEF Nobody
  <1>1. /\ pc'[w] = to
        /\ \A v \in Workers : v # w => pc'[v] = pc[v]
    OBVIOUS
  <1>2. \A v \in Workers : v # w => (lock' = v <=> lock = v)
    BY <1>0
  <1>3. lock' = 0 <=> lock = 0
    BY <1>0 DEF Nobody
  <1>4. (cpc = "create" => \A v \in Workers : v >= started => pc[v] = "none")'
    <2>1. cpc = "create" => ~(w >= started)
      BY DEF LockInv
    <2>2. cpc = "create" => \A v \in Workers : v >= started => pc[v] = "none"
      BY DEF LockInv
    <2> QED
      BY <1>1, <2>1, <2>2
  <1>5. (\A v \in Workers : pc[v] \in Holding <=> lock = v)'
    <2>1. \A v \in Workers : pc[v] \in Holding <=> lock = v
      BY DEF LockInv
    <2> SUFFICES ASSUME NEW v \in Workers PROVE pc'[v] \in Holding <=> lock' = v
      BY DEF Holding
    <2>2. CASE v = w
      BY <1>1, <2>2
    <2>3. CASE v # w
      BY <1>1, <1>2, <2>1, <2>3
    <2> QED
      BY <2>2, <2>3
  <1>6. (cpc \in {"broadcast", "dstop"} <=> lock = 0)'
    BY <1>3 DEF LockInv
  <1> QED
    BY <1>4, <1>5, <1>6 DEF LockInv

LEMMA LockStep == IInv /\ [Next]_vars => LockInv'
  <1> SUFFICES ASSUME TypeOK, LockInv, SleepInv, [Next]_vars PROVE LockInv'
    BY DEF IInv
  <1> USE DEF poolVars, callerVars, workerVars, historyVars, LockInv, TypeOK, Caller,
              Holding, Nobody
  <1>0. \A w \in Workers : w \in 1 .. 254
    BY Teams
  <1>1. CASE CreateThread
    <2>1. started \in Workers
      BY <1>1, PoolAssumption DEF CreateThread, Workers
    <2>2. pc[started] = "none"
      BY <1>1, <2>1 DEF CreateThread
    <2> QED
      BY <1>0, <1>1, <2>1, <2>2 DEF CreateThread
  <1>2. CASE CreateFail \/ CreateDone \/ Destroy
    BY <1>2 DEF CreateFail, CreateDone, Destroy
  <1>3. ASSUME NEW n \in 0 .. (N + 1), SetActive(n) PROVE LockInv'
    BY <1>3 DEF SetActive
  <1>4. CASE RunPrepare \/ RunPublish
    BY <1>4 DEF RunPrepare, RunPublish
  <1>5. CASE RunLookSleepers
    BY <1>5 DEF RunLookSleepers
  <1>6. CASE RunLock \/ DestroyLock
    BY <1>0, <1>6 DEF RunLock, DestroyLock
  <1>7. CASE RunBroadcast
    BY <1>0, <1>7 DEF RunBroadcast, Woken, SleepInv, Asleep
  <1>8. CASE DestroyStop
    BY <1>0, <1>8 DEF DestroyStop, Woken, SleepInv, Asleep
  <1>9. CASE OwnEnter \/ OwnLeave \/ RunReturn \/ DestroyJoin
    BY <1>9 DEF OwnEnter, OwnLeave, RunReturn, DestroyJoin
  <1>10. ASSUME NEW w \in Workers, WorkerStep(w) PROVE LockInv'
    <2> DEFINE Keep == lock' = lock
               Take == lock = Nobody /\ lock' = w
               Give == lock = w /\ lock' = Nobody
               Moved(to) == /\ pc' = [pc EXCEPT ![w] = to]
                            /\ pc[w] # "none"
                            /\ UNCHANGED <<cpc, started>>
                            /\ Keep \/ Take \/ Give
                            /\ to \in Holding <=> lock' = w
    <2>0. /\ w # 0 /\ w # -1
          /\ pc[w] \in Holding <=> lock = w
      BY <1>0
    <2> HIDE DEF LockInv, TypeOK
    <2> USE DEF Worker
    <2>1. ASSUME LoadTicket(w) PROVE Moved("loadstop") \/ Moved("take")
      BY <2>0, <2>1 DEF LoadTicket
    <2>2. ASSUME LoadStop(w) PROVE Moved("take") \/ Moved("head") \/ Moved("lock")
      BY <2>0, <2>2 DEF LoadStop
    <2>3. ASSUME SleepLock(w) PROVE Moved("count")
      BY <2>0, <2>3 DEF SleepLock
    <2>4. ASSUME SleepCount(w) PROVE Moved("test")
      BY <2>0, <2>4 DEF SleepCount
    <2>5. ASSUME SleepTest(w) PROVE Moved("sleep") \/ Moved("uncount")
      BY <2>0, <2>5 DEF SleepTest
    <2>6. ASSUME SleepWait(w) PROVE Moved("asleep")
      BY <2>0, <2>6 DEF SleepWait
    <2>7. ASSUME SleepRelock(w) PROVE Moved("test")
      BY <2>0, <2>7 DEF SleepRelock
    <2>8. ASSUME SleepUncount(w) PROVE Moved("unlock")
      BY <2>0, <2>8 DEF SleepUncount
    <2>9. ASSUME SleepUnlock(w) PROVE Moved("head")
      BY <2>0, <2>9 DEF SleepUnlock
    <2>10. ASSUME TakeTicket(w) PROVE Moved("exit") \/ Moved("call") \/ Moved("head")
      BY <2>0, <2>10 DEF TakeTicket
    <2>11. ASSUME CallEnter(w) PROVE Moved("inside")
      BY <2>0, <2>11 DEF CallEnter
    <2>12. ASSUME CallLeave(w) PROVE Moved("flag")
      BY <2>0, <2>12 DEF CallLeave
    <2>13. ASSUME StoreDone(w) PROVE Moved("head")
      BY <2>0, <2>13 DEF StoreDone
    <2> HIDE DEF Moved
    <2>14. PICK to : Moved(to)
      BY <1>10, <2>1, <2>2, <2>3, <2>4, <2>5, <2>6, <2>7, <2>8, <2>9, <2>10,
         <2>11, <2>12, <2>13 DEF WorkerStep
    <2>15. pc \in [Workers -> WorkerPCs]
      BY DEF TypeOK
    <2> QED
      BY <2>14, <2>15, LockMove DEF Moved
  <1>11. ASSUME NEW w \in Workers, SpuriousWake(w) PROVE LockInv'
    BY <1>0, <1>11 DEF SpuriousWake, Woken, SleepInv, Asleep
  <1>12. CASE UNCHANGED vars
    BY <1>12 DEF vars
  <1> QED
    BY <1>1, <1>2, <1>3, <1>4, <1>5, <1>6, <1>7, <1>8, <1>9, <1>10, <1>11, <1>12
       DEF Next, CallerStep, Freed

LEMMA SeenStep == IInv /\ [Next]_vars => SeenInv'
  <1> SUFFICES ASSUME TypeOK, TicketInv, SleepInv, SeenInv, [Next]_vars,
                      NEW v \in Workers
               PROVE  SeenOf(v)'
    BY DEF IInv, SeenInv
  <1> USE DEF poolVars, callerVars, workerVars, historyVars, Caller, SeenOf
  <1>0. /\ v \in 1 .. 254 /\ v \in Threads
        /\ seen[v] \in Nat /\ t[v] \in Nat /\ done[v] \in Nat /\ runs \in Nat
        /\ RunOf(seen[v]) \in Nat /\ RunOf(t[v]) \in Nat /\ ActiveOf(t[v]) \in Nat
        /\ ActiveOf(ticket) \in Nat /\ RunOf(ticket) = runs
        /\ stop \in {0, 1}
    <2>1. v \in 1 .. 254 /\ v \in Threads
      BY Teams
    <2>2. seen[v] \in Nat /\ t[v] \in Nat /\ done[v] \in Nat /\ runs \in Nat /\ ticket \in Nat
      BY <2>1 DEF TypeOK
    <2>3. /\ RunOf(seen[v]) \in Nat /\ RunOf(t[v]) \in Nat
          /\ ActiveOf(t[v]) \in Nat /\ ActiveOf(ticket) \in Nat
      BY <2>2, PartTypes
    <2>4. RunOf(ticket) = runs /\ stop \in {0, 1}
      BY DEF TypeOK, TicketInv
    <2> QED
      BY <2>1, <2>2, <2>3, <2>4
  <1>00. SeenOf(v)
    BY DEF SeenInv
  <1>1. CASE CreateThread
    <2>1. pc'[v] = pc[v] \/ pc'[v] = "head"
      BY <1>1 DEF CreateThread, TypeOK
    <2> QED
      BY <1>1, <1>00, <2>1 DEF CreateThread, InRun, Calling
  <1>2. CASE CreateFail \/ CreateDone \/ Destroy
    BY <1>2, <1>00 DEF CreateFail, CreateDone, Destroy, InRun
  <1>3. ASSUME NEW n \in 0 .. (N + 1), SetActive(n) PROVE SeenOf(v)'
    BY <1>3, <1>00 DEF SetActive, InRun
  <1>4. CASE RunPrepare
    BY <1>4, <1>00 DEF RunPrepare, InRun
  <1>5. CASE RunPublish
    <2>1. runs' = runs + 1 /\ InRun' /\ ~InRun
      BY <1>5 DEF RunPublish, InRun
    <2>2. UNCHANGED <<pc, seen, t, done, stop>>
      BY <1>5 DEF RunPublish
    <2>3. pc[v] \notin Calling
      BY <1>0, <1>00, <2>1
    <2>4. pc[v] = "take" /\ stop = 0 => ~(v < ActiveOf(t[v]))
      <3> SUFFICES ASSUME pc[v] = "take", stop = 0, v < ActiveOf(t[v]) PROVE FALSE
        OBVIOUS
      <3>1. t[v] = ticket /\ done[v] = runs
        BY <1>00, <2>1
      <3>2. runs > 0
        BY <1>0, <3>1 DEF TicketInv, ActiveOf
      <3> QED
        BY <1>0, <1>00, <3>1, <3>2
    <2> QED
      BY <1>0, <1>00, <2>1, <2>2, <2>3, <2>4
  <1>6. CASE RunLookSleepers \/ RunLock
    BY <1>6, <1>00 DEF RunLookSleepers, RunLock, InRun
  <1>7. CASE RunBroadcast
    <2>1. pc'[v] = pc[v] \/ pc'[v] = "relock"
      BY <1>7 DEF RunBroadcast, Woken
    <2> QED
      BY <1>7, <1>00, <2>1 DEF RunBroadcast, InRun, Calling
  <1>8. CASE OwnEnter \/ OwnLeave \/ DestroyLock \/ DestroyJoin
    BY <1>8, <1>00 DEF OwnEnter, OwnLeave, DestroyLock, DestroyJoin, InRun
  <1>9. CASE RunReturn
    <2>1. v < ActiveOf(ticket) => done[v] = runs
      BY <1>0, <1>9 DEF RunReturn
    <2> QED
      BY <1>9, <1>00, <2>1 DEF RunReturn, InRun
  <1>10. CASE DestroyStop
    <2>1. pc'[v] = pc[v] \/ pc'[v] = "relock"
      BY <1>10 DEF DestroyStop, Woken
    <2> QED
      BY <1>10, <1>00, <2>1 DEF DestroyStop, InRun, Calling
  <1>11. ASSUME NEW w \in Workers, WorkerStep(w) \/ SpuriousWake(w) PROVE SeenOf(v)'
    <2>0. UNCHANGED <<ticket, runs, stop, InRun>>
      BY <1>11, WorkerFrame DEF InRun
    <2>1. ASSUME UNCHANGED <<seen, t, done>>,
                 pc'[v] = pc[v] \/ pc'[v] \notin Calling \cup {"take"}
          PROVE  SeenOf(v)'
      BY <1>00, <2>0, <2>1
    <2> USE DEF Worker, TypeOK, Calling
    <2>2. CASE LoadTicket(w)
      <3>1. UNCHANGED <<seen, done>>
        BY <2>2 DEF LoadTicket
      <3>2. CASE w # v
        BY <1>00, <2>0, <2>2, <3>1, <3>2 DEF LoadTicket
      <3>3. CASE w = v
        <4>1. t'[v] = ticket /\ pc'[v] = IF ticket = seen[v] THEN "loadstop" ELSE "take"
          BY <2>2, <3>3 DEF LoadTicket
        <4> QED
          BY <1>0, <1>00, <2>0, <3>1, <4>1
      <3> QED
        BY <3>2, <3>3
    <2>3. CASE LoadStop(w)
      <3>1. w # v => pc'[v] = pc[v]
        BY <2>3 DEF LoadStop
      <3>2. w = v => \/ stop = 1 /\ pc'[v] = "take"
                     \/ pc'[v] = "head"
                     \/ pc'[v] = "lock"
        <4>1. CASE stop = 1 /\ pc' = [pc EXCEPT ![w] = "take"]
          BY <4>1
        <4>2. CASE pc' = [pc EXCEPT ![w] = "head"]
          BY <4>2
        <4>3. CASE pc' = [pc EXCEPT ![w] = "lock"]
          BY <4>3
        <4> QED
          BY <2>3, <4>1, <4>2, <4>3 DEF LoadStop
      <3>3. UNCHANGED <<seen, t, done>>
        BY <2>3 DEF LoadStop
      <3> QED
        BY <1>00, <2>0, <3>1, <3>2, <3>3
    <2>4. CASE SleepLock(w) \/ SleepCount(w) \/ SleepTest(w)
      BY <2>1, <2>4 DEF SleepLock, SleepCount, SleepTest
    <2>5. CASE SleepWait(w) \/ SleepRelock(w)
      BY <2>1, <2>5 DEF SleepWait, SleepRelock
    <2>6. CASE SpuriousWake(w)
      BY <2>1, <2>6 DEF SpuriousWake, Woken
    <2>7. CASE SleepUncount(w) \/ SleepUnlock(w)
      BY <2>1, <2>7 DEF SleepUncount, SleepUnlock
    <2>8. CASE TakeTicket(w)
      <3>1. UNCHANGED <<t, done>>
        BY <2>8 DEF TakeTicket
      <3>2. CASE w # v
        BY <1>00, <2>0, <2>8, <3>1, <3>2 DEF TakeTicket
      <3>3. CASE w = v /\ stop = 1
        BY <2>1, <2>8, <3>1, <3>3 DEF TakeTicket
      <3>4. CASE w = v /\ stop = 0
        <4>1. seen'[v] = t[v] /\ pc[v] = "take"
          BY <2>8, <3>4 DEF TakeTicket
        <4>2. pc'[v] = IF v < ActiveOf(t[v]) THEN "call" ELSE "head"
          BY <2>8, <3>4 DEF TakeTicket
        <4> QED
          BY <1>0, <1>00, <2>0, <3>1, <3>4, <4>1, <4>2
      <3> QED
        BY <3>2, <3>3, <3>4, <1>0
    <2>9. CASE CallEnter(w)
      BY <1>00, <2>0, <2>9 DEF CallEnter
    <2>10. CASE CallLeave(w)
      BY <1>00, <2>0, <2>10 DEF CallLeave
    <2>11. CASE StoreDone(w)
      <3>1. UNCHANGED <<seen, t>>
        BY <2>11 DEF StoreDone
      <3>2. w # v => pc'[v] = pc[v] /\ done'[v] = done[v]
        BY <1>0, <2>11 DEF StoreDone
      <3>3. w = v => pc[v] = "flag" /\ pc'[v] = "head" /\ done'[v] = RunOf(t[v])
        BY <1>0, <2>11 DEF StoreDone
      <3> QED
        BY <1>0, <1>00, <2>0, <3>1, <3>2, <3>3
    <2> QED
      BY <1>11, <2>2, <2>3, <2>4, <2>5, <2>6, <2>7, <2>8, <2>9, <2>10, <2>11 DEF WorkerStep
  <1>12. CASE UNCHANGED vars
    BY <1>12, <1>00 DEF vars, InRun
  <1> QED
    BY <1>1, <1>2, <1>3, <1>4, <1>5, <1>6, <1>7, <1>8, <1>9, <1>10, <1>11, <1>12
       DEF Next, CallerStep, Freed

(* The set of counted workers is finite, and one more or less of them is one
   more or less in its size. *)
LEMMA CountedSize ==
  ASSUME NEW S, S \subseteq Workers, NEW w
  PROVE  /\ Cardinality(S) \in Nat
         /\ w \notin S => Cardinality(S \cup {w}) = Cardinality(S) + 1
         /\ w \in S => Cardinality(S \ {w}) = Cardinality(S) - 1
  <1>1. IsFiniteSet(Workers)
    BY FS_Interval, PoolAssumption DEF Workers
  <1>2. IsFiniteSet(S)
    BY <1>1, FS_Subset
  <1>3. Cardinality(S) \in Nat
    BY <1>2, FS_CardinalityType
  <1> QED
    BY <1>2, <1>3, FS_AddElement, FS_RemoveElement, FS_EmptySet

LEMMA SomeCounted ==
  ASSUME NEW S, S \subseteq Workers, NEW w \in S
  PROVE  Cardinality(S) # 0
  <1>1. IsFiniteSet(Workers)
    BY FS_Interval, PoolAssumption DEF Workers
  <1>2. IsFiniteSet(S) /\ S # {}
    BY <1>1, FS_Subset
  <1> QED
    BY <1>2, FS_EmptySet

LEMMA SleepStep == IInv /\ [Next]_vars => SleepInv'
  <1> SUFFICES ASSUME TypeOK, LockInv, SleepInv, [Next]_vars PROVE SleepInv'
    BY DEF IInv
  <1> DEFINE C == {v \in Workers : pc[v] \in Counted}
  <1> USE DEF poolVars, callerVars, workerVars, historyVars, Caller
  <1>0. pc \in [Workers -> WorkerPCs]
    BY DEF TypeOK
  (* A step that moves nobody into, out of or about the sleep. *)
  <1>a. ASSUME UNCHANGED <<sleepers, wake, wake_idle, seen>>,
               \A v \in Workers : pc'[v] = pc[v]
                   \/ (pc[v] # "asleep" /\ pc'[v] # "asleep"
                       /\ (pc[v] \in Counted <=> pc'[v] \in Counted))
        PROVE  SleepInv'
    <2>1. C' = C
      BY <1>a DEF Counted
    <2> QED
      BY <1>a, <2>1 DEF SleepInv, Asleep, Idle
  <1>1. CASE CreateThread
    <2>1. started \in Workers
      BY <1>1, PoolAssumption DEF CreateThread, Workers, TypeOK
    <2>2. pc[started] = "none"
      BY <1>1, <2>1 DEF CreateThread, LockInv, TypeOK
    <2> QED
      BY <1>0, <1>1, <1>a, <2>1, <2>2 DEF CreateThread, Counted
  <1>2. CASE CreateFail \/ CreateDone \/ Destroy
    BY <1>2, <1>a DEF CreateFail, CreateDone, Destroy
  <1>3. ASSUME NEW n \in 0 .. (N + 1), SetActive(n) PROVE SleepInv'
    BY <1>3, <1>a DEF SetActive
  <1>4. CASE RunPrepare \/ RunPublish \/ RunLookSleepers \/ RunLock
    BY <1>4, <1>a DEF RunPrepare, RunPublish, RunLookSleepers, RunLock
  <1>5. CASE RunBroadcast
    <2>1. \A v \in Workers : pc'[v] = IF v \in wake \/ (grew = 1 /\ v \in wake_idle)
                                     THEN "relock" ELSE pc[v]
      <3>1. CASE grew = 1
        BY <1>5, <3>1 DEF RunBroadcast, Woken
      <3>2. CASE grew # 1
        BY <1>5, <3>2 DEF RunBroadcast, Woken
      <3> QED
        BY <3>1, <3>2
    <2>2. \A v \in Workers : pc[v] \in Counted <=> pc'[v] \in Counted
      BY <2>1 DEF SleepInv, Asleep, Counted
    <2>3. C' = C
      BY <2>2
    <2>4. \A v \in Workers : Asleep(v)'
      <3>1. wake' = {} /\ wake_idle' = (IF grew = 1 THEN {} ELSE wake_idle) /\ seen' = seen
        BY <1>5 DEF RunBroadcast
      <3> QED
        BY <2>1, <3>1 DEF SleepInv, Asleep, Idle
    <2> QED
      BY <1>5, <2>3, <2>4 DEF RunBroadcast, SleepInv
  <1>6. CASE DestroyStop
    <2>1. \A v \in Workers : pc'[v] = IF v \in wake \/ v \in wake_idle
                                     THEN "relock" ELSE pc[v]
      BY <1>6 DEF DestroyStop, Woken
    <2>2. \A v \in Workers : pc[v] \in Counted <=> pc'[v] \in Counted
      BY <2>1 DEF SleepInv, Asleep, Counted
    <2>3. C' = C
      BY <2>2
    <2>4. \A v \in Workers : Asleep(v)'
      BY <1>6, <2>1 DEF DestroyStop, SleepInv, Asleep, Idle
    <2> QED
      BY <1>6, <2>3, <2>4 DEF DestroyStop, SleepInv
  <1>7. CASE OwnEnter \/ OwnLeave \/ RunReturn \/ DestroyLock \/ DestroyJoin
    BY <1>7, <1>a DEF OwnEnter, OwnLeave, RunReturn, DestroyLock, DestroyJoin
  <1>8. ASSUME NEW w \in Workers, SpuriousWake(w) PROVE SleepInv'
    <2>1. \A v \in Workers : pc'[v] = IF v = w THEN "relock" ELSE pc[v]
      BY <1>8 DEF SpuriousWake, Woken
    <2>2. \A v \in Workers : pc[v] \in Counted <=> pc'[v] \in Counted
      BY <1>8, <2>1 DEF SpuriousWake, SleepInv, Asleep, Counted
    <2>3. C' = C
      BY <2>2
    <2>4. \A v \in Workers : Asleep(v)'
      BY <1>8, <2>1 DEF SpuriousWake, SleepInv, Asleep, Idle
    <2> QED
      BY <1>8, <2>3, <2>4 DEF SpuriousWake, SleepInv
  <1>9. ASSUME NEW w \in Workers, WorkerStep(w) PROVE SleepInv'
    <2> USE <1>0 DEF Worker, Counted
    <2>1. CASE LoadTicket(w)
      BY <2>1, <1>a DEF LoadTicket
    <2>2. CASE LoadStop(w)
      BY <2>2, <1>a DEF LoadStop
    <2>3. CASE SleepLock(w)
      BY <2>3, <1>a DEF SleepLock
    <2>4. CASE SleepCount(w)
      <3>1. C' = C \cup {w} /\ w \notin C
        BY <2>4 DEF SleepCount
      <3>2. sleepers = Cardinality(C) /\ sleepers' = sleepers + 1
        BY <2>4 DEF SleepCount, SleepInv
      <3>3. sleepers' = Cardinality(C')
        BY <3>1, <3>2, CountedSize
      <3>4. \A v \in Workers : Asleep(v)'
        BY <2>4 DEF SleepCount, SleepInv, Asleep, Idle
      <3> QED
        BY <3>3, <3>4 DEF SleepInv
    <2>5. CASE SleepTest(w)
      BY <2>5, <1>a DEF SleepTest
    <2>6. CASE SleepWait(w)
      <3>1. C' = C
        BY <2>6 DEF SleepWait
      <3>2. \A v \in Workers : Asleep(v)'
        BY <2>6 DEF SleepWait, SleepInv, Asleep, Idle
      <3> QED
        BY <2>6, <3>1, <3>2 DEF SleepInv, SleepWait
    <2>7. CASE SleepRelock(w)
      BY <2>7, <1>a DEF SleepRelock
    <2>8. CASE SleepUncount(w)
      <3>1. C' = C \ {w} /\ w \in C
        BY <2>8 DEF SleepUncount
      <3>2. sleepers = Cardinality(C) /\ sleepers' = sleepers - 1
        BY <2>8 DEF SleepUncount, SleepInv
      <3>3. sleepers' = Cardinality(C')
        BY <3>1, <3>2, CountedSize
      <3>4. \A v \in Workers : Asleep(v)'
        BY <2>8 DEF SleepUncount, SleepInv, Asleep, Idle
      <3> QED
        BY <3>3, <3>4 DEF SleepInv
    <2>9. CASE SleepUnlock(w)
      BY <2>9, <1>a DEF SleepUnlock
    <2>10. CASE TakeTicket(w)
      <3>1. pc[w] = "take" /\ pc' = [pc EXCEPT ![w] = pc'[w]] /\ pc'[w] \in {"exit", "call", "head"}
        BY <2>10 DEF TakeTicket
      <3>2. \A v \in Workers \ {w} : seen'[v] = seen[v] /\ pc'[v] = pc[v]
        BY <2>10, <3>1 DEF TakeTicket, TypeOK
      <3>3. UNCHANGED <<sleepers, wake, wake_idle>>
        BY <2>10 DEF TakeTicket
      <3>4. C' = C
        BY <3>1, <3>2
      <3>5. \A v \in Workers : Asleep(v)'
        BY <3>1, <3>2, <3>3 DEF SleepInv, Asleep, Idle
      <3> QED
        BY <3>3, <3>4, <3>5 DEF SleepInv
    <2>11. CASE CallEnter(w)
      BY <2>11, <1>a DEF CallEnter
    <2>12. CASE CallLeave(w)
      BY <2>12, <1>a DEF CallLeave
    <2>13. CASE StoreDone(w)
      BY <2>13, <1>a DEF StoreDone
    <2> QED
      BY <1>9, <2>1, <2>2, <2>3, <2>4, <2>5, <2>6, <2>7, <2>8, <2>9, <2>10,
         <2>11, <2>12, <2>13 DEF WorkerStep
  <1>10. CASE UNCHANGED vars
    BY <1>10, <1>a DEF vars
  <1> QED
    BY <1>1, <1>2, <1>3, <1>4, <1>5, <1>6, <1>7, <1>8, <1>9, <1>10
       DEF Next, CallerStep, Freed

LEMMA WakeStep == IInv /\ [Next]_vars => WakeInv'
  <1> SUFFICES ASSUME TypeOK, TicketInv, LockInv, SleepInv, WakeInv, [Next]_vars,
                      NEW v \in Workers
               PROVE  WakeOf(v)'
    BY DEF IInv, WakeInv
  <1> USE DEF poolVars, callerVars, workerVars, historyVars, Caller, WakeOf
  <1>0. WakeOf(v) /\ Asleep(v) /\ pc \in [Workers -> WorkerPCs] /\ v \in 1 .. 254
    BY Teams DEF WakeInv, SleepInv, TypeOK
  (* A step that leaves the sleeper where it is, and the ticket. *)
  <1>a. ASSUME UNCHANGED <<stop, ticket, seen>>,
               pc'[v] = pc[v] \/ pc'[v] \notin {"sleep", "asleep"},
               cpc \in {"look", "rlock", "broadcast"} =>
                  cpc' \in {"look", "rlock", "broadcast"} /\ grew' = grew
        PROVE  WakeOf(v)'
    BY <1>0, <1>a DEF Idle
  <1>1. CASE CreateThread
    BY <1>0, <1>1, <1>a DEF CreateThread
  <1>2. CASE CreateFail \/ CreateDone \/ Destroy
    BY <1>2, <1>a DEF CreateFail, CreateDone, Destroy
  <1>3. ASSUME NEW n \in 0 .. (N + 1), SetActive(n) PROVE WakeOf(v)'
    BY <1>3, <1>a DEF SetActive
  <1>4. CASE RunPrepare
    BY <1>4, <1>a DEF RunPrepare
  <1>5. CASE RunPublish
    <2>1. runs + 1 \in Nat /\ active \in 0 .. 255
      BY PoolAssumption DEF TypeOK
    <2>2. ActiveOf(ticket') = active
      BY <1>5, <2>1, TicketParts DEF RunPublish
    <2>3. /\ cpc = "publish" /\ cpc' = "look"
          /\ UNCHANGED <<stop, pc, seen, grew>>
      BY <1>5 DEF RunPublish
    <2>4. /\ ActiveOf(ticket) \in 0 .. N
          /\ grew = IF active > ActiveOf(ticket) THEN 1 ELSE 0
      BY <2>3 DEF TicketInv
    <2>5. ASSUME pc[v] \in {"sleep", "asleep"}, v < active, Idle(v)
          PROVE  grew = 1
      <3>1. ~(v < ActiveOf(ticket))
        <4>1. CASE seen[v] = ticket
          BY <1>0, <2>4, <2>5, <4>1, PoolAssumption DEF Idle
        <4>2. CASE seen[v] # ticket
          BY <1>0, <2>3, <2>5, <4>2
        <4> QED
          BY <4>1, <4>2
      <3> QED
        BY <1>0, <2>1, <2>4, <2>5, <3>1, PoolAssumption
    <2> QED
      BY <1>0, <2>2, <2>3, <2>5 DEF Idle
  <1>6. CASE RunLookSleepers
    <2>1. CASE cpc' = "rlock"
      BY <1>6, <1>a, <2>1 DEF RunLookSleepers
    <2>2. CASE cpc' # "rlock"
      <3> DEFINE C == {u \in Workers : pc[u] \in Counted}
      <3>1. sleepers = 0 /\ pc' = pc
        BY <1>6, <2>2 DEF RunLookSleepers
      <3>2. Cardinality(C) = 0
        BY <3>1 DEF SleepInv
      <3>3. v \notin C
        <4>1. C \subseteq Workers
          OBVIOUS
        <4> HIDE DEF C
        <4> QED
          BY <3>2, <4>1, SomeCounted
      <3> QED
        BY <3>1, <3>3 DEF Counted
    <2> QED
      BY <2>1, <2>2
  <1>7. CASE RunLock
    BY <1>7, <1>a DEF RunLock
  <1>8. CASE RunBroadcast
    <2>1. pc[v] # "sleep"
      BY <1>0, <1>8 DEF RunBroadcast, LockInv, Holding
    <2>2. CASE grew = 1
      <3>1. pc'[v] # "asleep" /\ pc'[v] # "sleep"
        BY <1>0, <1>8, <2>1, <2>2 DEF RunBroadcast, Woken, Asleep
      <3> QED
        BY <3>1
    <2>3. CASE grew # 1
      <3>1. pc'[v] = IF v \in wake THEN "relock" ELSE pc[v]
        BY <1>8, <2>3 DEF RunBroadcast, Woken
      <3>2. UNCHANGED <<stop, ticket, seen, grew>>
        BY <1>8 DEF RunBroadcast
      <3>3. pc'[v] \in {"sleep", "asleep"} => Idle(v) /\ pc[v] = "asleep"
        BY <1>0, <2>1, <3>1 DEF Asleep
      <3> QED
        BY <1>0, <2>3, <3>2, <3>3 DEF Idle
    <2> QED
      BY <2>2, <2>3
  <1>9. CASE OwnEnter \/ OwnLeave \/ RunReturn \/ DestroyLock \/ DestroyJoin
    BY <1>9, <1>a DEF OwnEnter, OwnLeave, RunReturn, DestroyLock, DestroyJoin
  <1>10. CASE DestroyStop
    <2>1. pc[v] # "sleep"
      BY <1>0, <1>10 DEF DestroyStop, LockInv, Holding
    <2>2. pc'[v] # "asleep" /\ pc'[v] # "sleep"
      BY <1>0, <1>10, <2>1 DEF DestroyStop, Woken, Asleep
    <2> QED
      BY <2>2
  <1>11. ASSUME NEW w \in Workers, WorkerStep(w) \/ SpuriousWake(w) PROVE WakeOf(v)'
    <2>0. UNCHANGED <<ticket, stop, cpc, grew>>
      BY <1>11, WorkerFrame
    <2> USE <1>0 DEF Worker
    <2>1. CASE LoadTicket(w)
      BY <2>0, <2>1, <1>a DEF LoadTicket
    <2>2. CASE LoadStop(w)
      BY <2>0, <2>2, <1>a DEF LoadStop
    <2>3. CASE SleepLock(w) \/ SleepCount(w) \/ SleepRelock(w)
      BY <2>0, <2>3, <1>a DEF SleepLock, SleepCount, SleepRelock
    <2>4. CASE SleepTest(w)
      BY <2>0, <2>4 DEF SleepTest, Idle
    <2>5. CASE SleepWait(w)
      BY <2>0, <2>5 DEF SleepWait, Idle
    <2>6. CASE SpuriousWake(w)
      BY <2>0, <2>6, <1>a DEF SpuriousWake, Woken
    <2>7. CASE SleepUncount(w) \/ SleepUnlock(w)
      BY <2>0, <2>7, <1>a DEF SleepUncount, SleepUnlock
    <2>8. CASE TakeTicket(w)
      <3>1. CASE w = v
        BY <2>8, <3>1 DEF TakeTicket
      <3>2. CASE w # v
        <4>1. pc'[v] = pc[v] /\ seen'[v] = seen[v]
          BY <2>8, <3>2 DEF TakeTicket, TypeOK
        <4> QED
          BY <2>0, <4>1 DEF Idle
      <3> QED
        BY <3>1, <3>2
    <2>9. CASE CallEnter(w) \/ CallLeave(w) \/ StoreDone(w)
      BY <2>0, <2>9, <1>a DEF CallEnter, CallLeave, StoreDone
    <2> QED
      BY <1>11, <2>1, <2>2, <2>3, <2>4, <2>5, <2>6, <2>7, <2>8, <2>9 DEF WorkerStep
  <1>12. CASE UNCHANGED vars
    BY <1>12, <1>a DEF vars
  <1> QED
    BY <1>1, <1>2, <1>3, <1>4, <1>5, <1>6, <1>7, <1>8, <1>9, <1>10, <1>11, <1>12
       DEF Next, CallerStep, Freed

LEMMA CallsStep == IInv /\ [Next]_vars => CallsInv'
  <1> SUFFICES ASSUME TypeOK, TicketInv, SeenInv, SleepInv, CallsInv, [Next]_vars, InRun'
               PROVE  /\ calls'[0] = IF cpc' \in {"inside", "wait"} THEN 1 ELSE 0
                      /\ \A w \in Workers : CallsOf(w)'
    BY DEF IInv, CallsInv
  <1> USE DEF poolVars, callerVars, workerVars, historyVars, Caller, CallsOf
  <1>0. /\ pc \in [Workers -> WorkerPCs] /\ calls \in [Threads -> Nat]
        /\ 0 \in Threads /\ 0 \notin Workers /\ Workers \subseteq Threads
    BY Teams DEF TypeOK
  (* A step inside the run that calls nothing. *)
  <1>a. ASSUME InRun, UNCHANGED <<calls, ticket, seen>>,
               cpc' \in {"inside", "wait"} <=> cpc \in {"inside", "wait"},
               \A w \in Workers : pc'[w] = "call" <=> pc[w] = "call"
        PROVE  /\ calls'[0] = IF cpc' \in {"inside", "wait"} THEN 1 ELSE 0
               /\ \A w \in Workers : CallsOf(w)'
    BY <1>a DEF CallsInv
  <1>1. CASE CreateThread \/ CreateFail \/ CreateDone \/ RunPrepare \/ RunReturn
    BY <1>1 DEF CreateThread, CreateFail, CreateDone, RunPrepare, RunReturn, InRun
  <1>2. CASE Destroy \/ DestroyLock \/ DestroyStop \/ DestroyJoin
    BY <1>2 DEF Destroy, DestroyLock, DestroyStop, DestroyJoin, InRun
  <1>3. ASSUME NEW n \in 0 .. (N + 1), SetActive(n) PROVE FALSE
    BY <1>3 DEF SetActive, InRun
  <1>4. CASE RunPublish
    <2>1. runs + 1 \in Nat /\ active \in 0 .. 255
      BY PoolAssumption DEF TypeOK
    <2>2. RunOf(ticket') = runs + 1
      BY <1>4, <2>1, TicketParts DEF RunPublish
    <2>3. cpc' = "look" /\ seen' = seen /\ calls' = [w \in Threads |-> 0]
      BY <1>4 DEF RunPublish
    <2>4. \A w \in Workers : seen'[w] # ticket'
      <3> SUFFICES ASSUME NEW w \in Workers PROVE seen[w] # ticket'
        BY <2>3
      <3>1. RunOf(seen[w]) <= runs /\ RunOf(seen[w]) \in Nat /\ runs \in Nat
        BY PartTypes DEF SeenInv, SeenOf, TypeOK
      <3> QED
        BY <2>2, <3>1
    <2> QED
      BY <1>0, <2>3, <2>4
  <1>5. CASE RunLookSleepers \/ RunLock
    BY <1>5, <1>a DEF RunLookSleepers, RunLock, InRun
  <1>6. CASE RunBroadcast
    <2>1. \A w \in Workers : pc'[w] = "call" <=> pc[w] = "call"
      <3>1. CASE grew = 1
        BY <1>6, <3>1 DEF RunBroadcast, Woken, SleepInv, Asleep
      <3>2. CASE grew # 1
        BY <1>6, <3>2 DEF RunBroadcast, Woken, SleepInv, Asleep
      <3> QED
        BY <3>1, <3>2
    <2> QED
      BY <1>6, <1>a, <2>1 DEF RunBroadcast, InRun
  <1>7. CASE OwnEnter
    <2>1. calls'[0] = 1
      BY <1>0, <1>7 DEF OwnEnter, CallsInv, InRun
    <2>2. \A w \in Workers : calls'[w] = calls[w]
      BY <1>0, <1>7 DEF OwnEnter
    <2> QED
      BY <1>7, <2>1, <2>2 DEF OwnEnter, CallsInv, InRun
  <1>8. CASE OwnLeave
    BY <1>8, <1>a DEF OwnLeave, InRun
  <1>9. ASSUME NEW w \in Workers, WorkerStep(w) \/ SpuriousWake(w)
        PROVE  /\ calls'[0] = IF cpc' \in {"inside", "wait"} THEN 1 ELSE 0
               /\ \A u \in Workers : CallsOf(u)'
    <2>0. UNCHANGED <<ticket, cpc>> /\ InRun
      BY <1>9, WorkerFrame DEF InRun
    <2> USE <1>0 DEF Worker
    <2>1. CASE LoadTicket(w)
      BY <2>0, <2>1, <1>a DEF LoadTicket
    <2>2. CASE LoadStop(w)
      BY <2>0, <2>2, <1>a DEF LoadStop
    <2>3. CASE SleepLock(w) \/ SleepCount(w) \/ SleepRelock(w)
      BY <2>0, <2>3, <1>a DEF SleepLock, SleepCount, SleepRelock
    <2>4. CASE SleepTest(w) \/ SleepWait(w)
      BY <2>0, <2>4, <1>a DEF SleepTest, SleepWait
    <2>5. CASE SpuriousWake(w)
      <3>1. \A u \in Workers : pc'[u] = "call" <=> pc[u] = "call"
        BY <2>5 DEF SpuriousWake, Woken, SleepInv, Asleep
      <3> QED
        BY <2>0, <2>5, <3>1, <1>a DEF SpuriousWake
    <2>6. CASE SleepUncount(w) \/ SleepUnlock(w)
      BY <2>0, <2>6, <1>a DEF SleepUncount, SleepUnlock
    <2>7. CASE TakeTicket(w)
      <3>1. stop = 0
        BY <2>0 DEF TicketInv, InRun, TypeOK
      <3>2. /\ pc[w] = "take" /\ calls' = calls /\ seen'[w] = t[w]
            /\ pc'[w] = IF w < ActiveOf(t[w]) THEN "call" ELSE "head"
            /\ \A u \in Workers \ {w} : seen'[u] = seen[u] /\ pc'[u] = pc[u]
        BY <2>7, <3>1 DEF TakeTicket, TypeOK
      <3>3. /\ RunOf(seen[w]) < RunOf(t[w]) /\ RunOf(t[w]) <= runs
            /\ RunOf(seen[w]) \in Nat /\ RunOf(t[w]) \in Nat /\ runs \in Nat
            /\ RunOf(ticket) = runs
        BY <3>1, <3>2, PartTypes DEF SeenInv, SeenOf, TypeOK, TicketInv
      <3>4. seen[w] # ticket /\ calls[w] = 0
        BY <2>0, <3>3 DEF CallsInv
      <3>5. CallsOf(w)'
        BY <2>0, <3>2, <3>4
      <3> QED
        BY <2>0, <3>2, <3>5 DEF CallsInv
    <2>8. CASE CallEnter(w)
      <3>1. /\ pc[w] = "call" /\ pc'[w] = "inside" /\ seen' = seen
            /\ \A u \in Workers \ {w} : pc'[u] = pc[u] /\ calls'[u] = calls[u]
            /\ calls'[0] = calls[0] /\ calls'[w] = calls[w] + 1
        BY <2>8 DEF CallEnter
      <3>2. seen[w] = ticket /\ w < ActiveOf(ticket)
        BY <3>1 DEF SeenInv, SeenOf, Calling
      <3>3. CallsOf(w)'
        BY <2>0, <3>1, <3>2 DEF CallsInv
      <3> QED
        BY <2>0, <3>1, <3>3 DEF CallsInv
    <2>9. CASE CallLeave(w) \/ StoreDone(w)
      BY <2>0, <2>9, <1>a DEF CallLeave, StoreDone
    <2> QED
      BY <1>9, <2>1, <2>2, <2>3, <2>4, <2>5, <2>6, <2>7, <2>8, <2>9 DEF WorkerStep
  <1>10. CASE UNCHANGED vars
    BY <1>10, <1>a DEF vars, InRun
  <1> QED
    BY <1>1, <1>2, <1>3, <1>4, <1>5, <1>6, <1>7, <1>8, <1>9, <1>10
       DEF Next, CallerStep, Freed

-----------------------------------------------------------------------------
(* The invariant holds of a pool just created and every step keeps it.     *)
LEMMA Inductive == Spec => []IInv
  <1>1. Init => IInv
    <2> SUFFICES ASSUME Init PROVE IInv
      OBVIOUS
    <2>1. TypeOK
      BY PoolAssumption DEF Init, TypeOK, Threads, Workers, Nobody, CallerPCs, WorkerPCs
    <2>2. RunOf(0) = 0 /\ ActiveOf(0) = 0
      BY DEF RunOf, ActiveOf
    <2>3. \A w \in Workers : w \in 1 .. 254 /\ w \in Threads
      BY Teams
    <2>4. TicketInv
      BY <2>2, PoolAssumption DEF Init, TicketInv, InRun
    <2>5. LockInv
      BY <2>3 DEF Init, LockInv, Holding, Nobody
    <2>6. SeenInv
      BY <2>2, <2>3 DEF Init, SeenInv, SeenOf, Calling, InRun
    <2>7. SleepInv
      <3>1. {w \in Workers : pc[w] \in Counted} = {}
        BY DEF Init, Counted
      <3> QED
        BY <3>1, FS_EmptySet DEF Init, SleepInv, Asleep
    <2>8. WakeInv
      BY DEF Init, WakeInv, WakeOf
    <2>9. CallsInv
      BY DEF Init, CallsInv, InRun
    <2> QED
      BY <2>1, <2>4, <2>5, <2>6, <2>7, <2>8, <2>9 DEF IInv
  <1>2. IInv /\ [Next]_vars => IInv'
    BY TypeStep, TicketStep, LockStep, SeenStep, SleepStep, WakeStep, CallsStep DEF IInv
  <1> QED
    BY <1>1, <1>2, PTL DEF Spec

(* Spec => []NoStaleFn: whatever a worker finds in p->fn when it calls is the
   function of the run it took the ticket of, and that run has not returned. *)
THEOREM PoolNoStaleFn == Spec => []NoStaleFn
  <1>1. IInv => NoStaleFn
    <2> SUFFICES ASSUME IInv, NEW w \in Workers, pc[w] \in {"call", "inside"}
                 PROVE  InRun /\ RunOf(t[w]) = runs /\ fn = runs /\ w < ActiveOf(t[w])
      BY DEF NoStaleFn
    <2>1. t[w] = ticket /\ w < ActiveOf(ticket) /\ done[w] < runs
      BY DEF IInv, SeenInv, SeenOf, Calling
    <2>2. InRun
      <3>1. done[w] \in Nat /\ runs \in Nat
        BY Teams DEF IInv, TypeOK
      <3> QED
        BY <2>1, <3>1 DEF IInv, SeenInv, SeenOf
    <2> QED
      BY <2>1, <2>2 DEF IInv, TicketInv, InRun
  <1> QED
    BY <1>1, Inductive, PTL

(* Spec => []NoLostWakeup: no worker the ticket wants sleeps on a condition
   variable the caller is not about to broadcast. *)
THEOREM PoolNoLostWakeup == Spec => []NoLostWakeup
  <1>1. IInv => NoLostWakeup
    <2> SUFFICES ASSUME IInv, NEW w \in Workers, pc[w] = "asleep",
                        ticket # seen[w], w < ActiveOf(ticket)
                 PROVE  /\ cpc \in {"look", "rlock", "broadcast"}
                        /\ sleepers # 0
                        /\ w \in wake_idle => grew = 1
      BY DEF NoLostWakeup
    <2> DEFINE C == {u \in Workers : pc[u] \in Counted}
    <2>1. sleepers = Cardinality(C) /\ w \in C /\ C \subseteq Workers
      BY DEF IInv, SleepInv, Counted
    <2>2. Asleep(w) /\ WakeOf(w)
      BY DEF IInv, SleepInv, WakeInv
    <2>3. sleepers # 0
      <3> HIDE DEF C
      <3> QED
        BY <2>1, SomeCounted
    <2> QED
      BY <2>2, <2>3 DEF Asleep, WakeOf
  <1> QED
    BY <1>1, Inductive, PTL

-----------------------------------------------------------------------------
(* Each step of the pool is a step of ForkJoin or leaves what it sees alone. *)
LEMMA ForkJoinStep == IInv /\ [Next]_vars => [FJ!FJNext]_(FJ!fjvars)
  <1> SUFFICES ASSUME IInv, [Next]_vars PROVE [FJ!FJNext]_(FJ!fjvars)
    OBVIOUS
  <1> USE DEF poolVars, callerVars, workerVars, historyVars, Caller
  <1>0. /\ pc \in [Workers -> WorkerPCs] /\ calls \in [Threads -> Nat]
        /\ 0 \in Threads /\ 0 \notin Workers /\ Workers \subseteq Threads
    BY Teams DEF IInv, TypeOK
  <1>01. /\ ActiveOf(ticket) \in 0 .. N /\ runs \in Nat
         /\ \A i \in 1 .. (ActiveOf(ticket) - 1) : i \in Workers
    BY PoolAssumption DEF IInv, TicketInv, TypeOK, Workers
  (* What ForkJoin does not see. *)
  <1>a. ASSUME InRun' <=> InRun, InRun => UNCHANGED <<ticket, calls>>,
               cpc' = "inside" <=> cpc = "inside",
               \A w \in Workers : pc'[w] = "inside" <=> pc[w] = "inside"
        PROVE  UNCHANGED FJ!fjvars
    <2>1. InRun' = InRun
      BY <1>a DEF InRun
    <2>2. Todo' = Todo
      BY <1>a DEF Todo
    <2>3. Busy' = Busy
      BY <1>a DEF Busy
    <2> QED
      BY <2>1, <2>2, <2>3 DEF FJ!fjvars
  <1>1. CASE CreateThread
    <2>1. started \in Workers /\ pc[started] = "none"
      BY <1>1, PoolAssumption DEF CreateThread, Workers, IInv, TypeOK, LockInv
    <2> QED
      BY <1>0, <1>1, <1>a, <2>1 DEF CreateThread, InRun
  <1>2. CASE CreateFail \/ CreateDone \/ Destroy
    BY <1>2, <1>a DEF CreateFail, CreateDone, Destroy, InRun
  <1>3. ASSUME NEW n \in 0 .. (N + 1), SetActive(n) PROVE UNCHANGED FJ!fjvars
    BY <1>3, <1>a DEF SetActive, InRun
  <1>4. CASE RunPrepare
    BY <1>4, <1>a DEF RunPrepare, InRun
  <1>5. CASE RunPublish
    <2>1. runs + 1 \in Nat /\ active \in 0 .. 255 /\ active \in 1 .. N
      BY PoolAssumption DEF IInv, TypeOK
    <2>2. ActiveOf(ticket') = active
      BY <1>5, <2>1, TicketParts DEF RunPublish
    <2>3. /\ cpc = "publish" /\ cpc' = "look" /\ pc' = pc
          /\ calls' = [w \in Threads |-> 0]
      BY <1>5 DEF RunPublish
    <2>4. InRun = FALSE /\ InRun' = TRUE
      BY <2>3 DEF InRun
    <2>5. Todo' = 0 .. (active - 1)
      BY <2>1, <2>2, <2>3, <2>4, PoolAssumption DEF Todo, Threads
    <2>6. Busy' = Busy
      BY <2>3 DEF Busy
    <2>7. FJ!Fork(active)
      BY <2>4, <2>5, <2>6 DEF FJ!Fork
    <2> QED
      BY <2>1, <2>7 DEF FJ!FJNext
  <1>6. CASE RunLookSleepers \/ RunLock
    BY <1>6, <1>a DEF RunLookSleepers, RunLock, InRun
  <1>7. CASE RunBroadcast
    <2>1. \A w \in Workers : pc'[w] = "inside" <=> pc[w] = "inside"
      <3>1. CASE grew = 1
        BY <1>7, <3>1 DEF RunBroadcast, Woken, IInv, SleepInv, Asleep
      <3>2. CASE grew # 1
        BY <1>7, <3>2 DEF RunBroadcast, Woken, IInv, SleepInv, Asleep
      <3> QED
        BY <3>1, <3>2
    <2> QED
      BY <1>7, <1>a, <2>1 DEF RunBroadcast, InRun
  <1>8. CASE OwnEnter
    <2>1. /\ cpc = "own" /\ cpc' = "inside" /\ pc' = pc /\ ticket' = ticket
          /\ calls' = [calls EXCEPT ![0] = @ + 1]
      BY <1>8 DEF OwnEnter
    <2>2. InRun = TRUE /\ InRun' = TRUE
      BY <2>1 DEF InRun
    <2>3. calls[0] = 0 /\ ActiveOf(ticket) >= 1
      BY <2>1, <2>2 DEF IInv, CallsInv, TicketInv, InRun
    <2>4. calls'[0] = 1 /\ \A i \in Workers : calls'[i] = calls[i]
      BY <1>0, <2>1, <2>3
    <2>5. \A i \in 0 .. (ActiveOf(ticket) - 1) : i = 0 \/ i \in Workers
      BY <1>01
    <2>6. 0 \in Todo /\ Todo' = Todo \ {0}
      BY <1>01, <2>1, <2>2, <2>3, <2>4, <2>5 DEF Todo
    <2>7. Busy' = Busy \cup {0}
      BY <2>1 DEF Busy
    <2>8. FJ!Enter(0)
      BY <2>2, <2>6, <2>7 DEF FJ!Enter
    <2> QED
      BY <2>8, PoolAssumption DEF FJ!FJNext
  <1>9. CASE OwnLeave
    <2>1. cpc = "inside" /\ cpc' = "wait" /\ UNCHANGED <<pc, ticket, calls>>
      BY <1>9 DEF OwnLeave
    <2>2. InRun = TRUE /\ InRun' = TRUE
      BY <2>1 DEF InRun
    <2>3. Todo' = Todo
      BY <2>1, <2>2 DEF Todo
    <2>4. 0 \in Busy /\ Busy' = Busy \ {0}
      BY <1>0, <2>1 DEF Busy
    <2>5. FJ!Leave(0)
      BY <2>2, <2>3, <2>4 DEF FJ!Leave
    <2> QED
      BY <2>5, PoolAssumption DEF FJ!FJNext
  <1>10. CASE RunReturn
    <2>1. cpc = "wait" /\ cpc' = "ready" /\ UNCHANGED pc
      BY <1>10 DEF RunReturn
    <2>2. InRun = TRUE /\ InRun' = FALSE
      BY <2>1 DEF InRun
    <2>3. \A i \in 1 .. (ActiveOf(ticket) - 1) : done[i] = runs
      BY <1>10 DEF RunReturn
    <2>4. \A w \in Workers : pc[w] \notin Calling
      <3> SUFFICES ASSUME NEW w \in Workers, pc[w] \in Calling PROVE FALSE
        OBVIOUS
      <3>1. w < ActiveOf(ticket) /\ done[w] < runs
        BY DEF IInv, SeenInv, SeenOf
      <3>2. w \in 1 .. 254
        BY Teams
      <3> QED
        BY <1>01, <2>3, <3>1, <3>2
    <2>5. \A i \in 1 .. (ActiveOf(ticket) - 1) : calls[i] = 1
      <3> SUFFICES ASSUME NEW i \in 1 .. (ActiveOf(ticket) - 1) PROVE calls[i] = 1
        OBVIOUS
      <3>1. i \in Workers /\ i < ActiveOf(ticket)
        BY <1>01
      <3>2. seen[i] = ticket
        BY <1>01, <2>2, <2>3, <3>1 DEF IInv, SeenInv, SeenOf, TicketInv
      <3>3. CallsOf(i) /\ pc[i] # "call"
        BY <2>2, <2>4, <3>1 DEF IInv, CallsInv, Calling
      <3> QED
        BY <3>1, <3>2, <3>3 DEF CallsOf
    <2>6. calls[0] = 1
      BY <2>1, <2>2 DEF IInv, CallsInv
    <2>7. Todo = {} /\ Todo' = {}
      BY <1>01, <2>2, <2>5, <2>6 DEF Todo
    <2>8. Busy = {} /\ Busy' = {}
      BY <2>1, <2>4 DEF Busy, Calling
    <2>9. FJ!Join
      BY <2>2, <2>7, <2>8 DEF FJ!Join
    <2> QED
      BY <2>9 DEF FJ!FJNext
  <1>11. CASE DestroyLock \/ DestroyJoin
    BY <1>11, <1>a DEF DestroyLock, DestroyJoin, InRun
  <1>12. CASE DestroyStop
    <2>1. \A w \in Workers : pc'[w] = "inside" <=> pc[w] = "inside"
      BY <1>12 DEF DestroyStop, Woken, IInv, SleepInv, Asleep
    <2> QED
      BY <1>12, <1>a, <2>1 DEF DestroyStop, InRun
  <1>13. ASSUME NEW w \in Workers, WorkerStep(w) \/ SpuriousWake(w)
         PROVE  [FJ!FJNext]_(FJ!fjvars)
    <2>0. UNCHANGED <<ticket, cpc>> /\ InRun' = InRun
      BY <1>13, WorkerFrame DEF InRun
    <2>00. w \in 0 .. (N - 1) /\ w \in 1 .. 254
      BY Teams, PoolAssumption DEF Workers
    <2> USE <1>0 DEF Worker
    <2>1. CASE LoadTicket(w)
      BY <2>0, <2>1, <1>a DEF LoadTicket
    <2>2. CASE LoadStop(w)
      BY <2>0, <2>2, <1>a DEF LoadStop
    <2>3. CASE SleepLock(w) \/ SleepCount(w) \/ SleepRelock(w)
      BY <2>0, <2>3, <1>a DEF SleepLock, SleepCount, SleepRelock
    <2>4. CASE SleepTest(w) \/ SleepWait(w)
      BY <2>0, <2>4, <1>a DEF SleepTest, SleepWait
    <2>5. CASE SpuriousWake(w)
      <3>1. \A u \in Workers : pc'[u] = "inside" <=> pc[u] = "inside"
        BY <2>5 DEF SpuriousWake, Woken, IInv, SleepInv, Asleep
      <3> QED
        BY <2>0, <2>5, <3>1, <1>a DEF SpuriousWake
    <2>6. CASE SleepUncount(w) \/ SleepUnlock(w)
      BY <2>0, <2>6, <1>a DEF SleepUncount, SleepUnlock
    <2>7. CASE TakeTicket(w)
      BY <2>0, <2>7, <1>a DEF TakeTicket
    <2>8. CASE CallEnter(w)
      <3>1. /\ pc[w] = "call" /\ pc' = [pc EXCEPT ![w] = "inside"]
            /\ calls' = [calls EXCEPT ![w] = @ + 1]
        BY <2>8 DEF CallEnter
      <3>2. w < ActiveOf(ticket) /\ done[w] < runs /\ done[w] \in Nat
        BY <3>1 DEF IInv, SeenInv, SeenOf, Calling, TypeOK
      <3>3. InRun
        BY <1>01, <3>2 DEF IInv, SeenInv, SeenOf
      <3>4. calls[w] = 0
        BY <3>1, <3>3 DEF IInv, CallsInv, CallsOf
      <3>5. calls'[w] = 1 /\ \A i \in Threads \ {w} : calls'[i] = calls[i]
        BY <3>1, <3>4
      <3>6. \A i \in 0 .. (ActiveOf(ticket) - 1) : i \in Threads
        BY <1>01, PoolAssumption DEF Threads
      <3>7. w \in Todo /\ Todo' = Todo \ {w}
        BY <1>01, <2>0, <2>00, <3>2, <3>3, <3>4, <3>5, <3>6 DEF Todo
      <3>8. Busy' = Busy \cup {w}
        BY <2>0, <3>1 DEF Busy
      <3>9. FJ!Enter(w)
        BY <2>0, <3>7, <3>8 DEF FJ!Enter
      <3> QED
        BY <2>00, <3>9 DEF FJ!FJNext
    <2>9. CASE CallLeave(w)
      <3>1. pc[w] = "inside" /\ pc' = [pc EXCEPT ![w] = "flag"] /\ calls' = calls
        BY <2>9 DEF CallLeave
      <3>2. Todo' = Todo
        BY <2>0, <3>1 DEF Todo
      <3>3. w \in Busy /\ Busy' = Busy \ {w}
        BY <2>0, <3>1 DEF Busy
      <3>4. FJ!Leave(w)
        BY <2>0, <3>2, <3>3 DEF FJ!Leave
      <3> QED
        BY <2>00, <3>4 DEF FJ!FJNext
    <2>10. CASE StoreDone(w)
      BY <2>0, <2>10, <1>a DEF StoreDone
    <2> QED
      BY <1>13, <2>1, <2>2, <2>3, <2>4, <2>5, <2>6, <2>7, <2>8, <2>9, <2>10 DEF WorkerStep
  <1>14. CASE UNCHANGED vars
    BY <1>14, <1>a DEF vars, InRun
  <1> QED
    BY <1>1, <1>2, <1>3, <1>4, <1>5, <1>6, <1>7, <1>8, <1>9, <1>10, <1>11, <1>12,
       <1>13, <1>14 DEF Next, CallerStep, Freed

(* Spec => ImplementsForkJoin: janas_pool_run is a fork and a join of exactly
   the active threads, for any number of them and any history of counts. *)
THEOREM PoolImplementsForkJoin == Spec => ImplementsForkJoin
  <1>1. Init => FJ!FJInit
    BY DEF Init, FJ!FJInit, InRun, Todo, Busy
  <1> QED
    BY <1>1, Inductive, ForkJoinStep, PTL DEF Spec, ImplementsForkJoin, FJ!FJSpec
=============================================================================
