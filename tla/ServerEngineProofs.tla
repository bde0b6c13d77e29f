------------------------- MODULE ServerEngineProofs -------------------------
(***************************************************************************)
(* Proofs about ServerEngine, for any number of jobs, clients, workers,    *)
(* runs and responses, and any length of the queue: a job is freed exactly *)
(* when its last holder lets it go, the queue is in order, nobody waits    *)
(* for a job the engine lost, and what is cancelled stays cancelled.       *)
(***************************************************************************)
EXTENDS ServerEngine, FiniteSetTheorems, SequenceTheorems, TLAPS

JobType == [low : BOOLEAN, watch : Runs \cup {None}, done : BOOLEAN,
            cancel : BOOLEAN, err : Errs, started : BOOLEAN,
            pos : 0..MaxQueue, refs : 0..4]
Heap == [Jobs -> JobType]

(* The engine has the job: it waits in the queue or is being run. *)
Has(j) == j \in Range(queue) \/ eng.j = j

(* A job is held by one submitter, by the engine once, and by one cancel,
   that of the response it is the job of; refs counts the three. *)
RefInv ==
  /\ \A s, t \in Submitters : mine[s] # None /\ mine[s] = mine[t] => s = t
  /\ \A b, c \in Backs : ours[b] # None /\ ours[b] = ours[c] => b = c
  /\ \A b \in Backs, s \in Submitters : ours[b] # None /\ ours[b] = mine[s] => s = b
  /\ \A j \in Jobs : job[j].refs = (IF \E s \in Submitters : mine[s] = j THEN 1 ELSE 0)
                                   + (IF Has(j) THEN 1 ELSE 0)
                                   + (IF \E b \in Backs : ours[b] = j THEN 1 ELSE 0)

(* The engine's thread: its job is out of the queue, is the running one
   until Clear, and is over by then. *)
EngInv ==
  /\ eng.pc \in {"wait", "exit"} <=> eng.j = None
  /\ eng.j \notin Range(queue)
  /\ eng.pc \notin {"wait", "exit", "release"} => running = eng.j
  /\ eng.pc \in {"wait", "exit", "release"} => running = None
  /\ eng.pc \in {"clear", "release"} => job[eng.j].done
  /\ eng.pc = "token" => eng.k < NChoices

(* A submitter has a job while it waits for it and until it leaves. *)
PcInv ==
  /\ \A s \in Submitters :
       pc[s] \in {"wait", "leave", "tools", "adopt", "keep", "lost"} <=> mine[s] # None
  /\ \A b \in Backs : pc[b] \in {"tools", "adopt"} => rounds[b] < MaxRounds

IInv ==
  /\ TypeOK /\ RefInv /\ QueueInOrder /\ EngInv /\ PcInv
  /\ NoOrphan /\ CancelsHold

-----------------------------------------------------------------------------
(* Sequences: a job put in, and what a queue holds. *)
LEMMA InRange ==
  ASSUME NEW S, NEW q \in Seq(S), NEW j
  PROVE  /\ j \in Range(q) <=> \E i \in 1..Len(q) : q[i] = j
         /\ Range(q) \subseteq S
         /\ \A i \in 1..Len(q) : q[i] \in Range(q) /\ q[i] \in S
         /\ DOMAIN q = 1..Len(q) /\ Len(q) \in Nat
  BY LenProperties DEF Range

LEMMA Inserted ==
  ASSUME NEW S, NEW q \in Seq(S), NEW p \in 1..(Len(q) + 1), NEW j \in S,
         NEW r, r = InsertAt(q, p, j)
  PROVE  /\ r \in Seq(S) /\ Len(r) = Len(q) + 1 /\ r[p] = j
         /\ \A i \in 1..Len(q) : r[IF i < p THEN i ELSE i + 1] = q[i]
         /\ \A i \in 1..Len(r) : i # p => r[i] = q[IF i < p THEN i ELSE i - 1]
         /\ Range(r) = Range(q) \cup {j}
  <1> DEFINE a == SubSeq(q, 1, p - 1)
             z == SubSeq(q, p, Len(q))
             e == <<j>>
             b == a \o e
  <1>1. Len(q) \in Nat /\ p \in Nat /\ p >= 1 /\ p <= Len(q) + 1
    BY LenProperties
  <1>2. a \in Seq(S) /\ Len(a) = p - 1 /\ \A i \in 1..(p - 1) : a[i] = q[i]
    BY <1>1
  <1>3. /\ z \in Seq(S) /\ Len(z) = Len(q) - p + 1
        /\ \A i \in 1..(Len(q) - p + 1) : z[i] = q[p + i - 1]
    BY <1>1
  <1>4. e \in Seq(S) /\ Len(e) = 1 /\ e[1] = j
    OBVIOUS
  <1>5. r = b \o z
    BY DEF InsertAt
  <1> HIDE DEF a, e, z
  <1>6. /\ b \in Seq(S) /\ Len(b) = Len(a) + Len(e)
        /\ \A i \in 1 .. Len(a) + Len(e) : b[i] = IF i <= Len(a) THEN a[i] ELSE e[i - Len(a)]
    BY <1>2, <1>4, ConcatProperties
  <1> HIDE DEF b
  <1>7. /\ b \o z \in Seq(S) /\ Len(b \o z) = Len(b) + Len(z)
        /\ \A i \in 1 .. Len(b) + Len(z) : (b \o z)[i] = IF i <= Len(b) THEN b[i] ELSE z[i - Len(b)]
    <2>1. b \in Seq(S) /\ z \in Seq(S)
      BY <1>3, <1>6
    <2> QED
      BY <2>1, ConcatProperties
  <1>8. /\ r \in Seq(S) /\ Len(r) = Len(q) + 1
        /\ \A i \in 1..(Len(q) + 1) : r[i] = IF i <= p THEN b[i] ELSE z[i - p]
    <2>1. Len(b) = p /\ Len(b) + Len(z) = Len(q) + 1
      BY <1>1, <1>2, <1>3, <1>4, <1>6
    <2> QED
      BY <1>5, <1>7, <2>1
  <1>9. b[p] = j /\ \A i \in 1..(p - 1) : b[i] = q[i]
    <2>1. b[p] = e[p - (p - 1)] /\ p - (p - 1) = 1
      BY <1>1, <1>2, <1>4, <1>6
    <2>2. \A i \in 1..(p - 1) : b[i] = a[i]
      BY <1>1, <1>2, <1>4, <1>6
    <2> QED
      BY <1>2, <1>4, <2>1, <2>2
  <1>10. \A i \in 1..(Len(q) + 1) : i > p => r[i] = q[i - 1]
    <2> SUFFICES ASSUME NEW i \in 1..(Len(q) + 1), i > p PROVE r[i] = q[i - 1]
      OBVIOUS
    <2>1. i - p \in 1..(Len(q) - p + 1) /\ p + (i - p) - 1 = i - 1 /\ ~(i <= p)
      BY <1>1
    <2>2. r[i] = z[i - p] /\ z[i - p] = q[p + (i - p) - 1]
      BY <1>3, <1>8, <2>1
    <2> QED
      BY <2>1, <2>2
  <1>11. r[p] = j /\ \A i \in 1..(Len(q) + 1) : i < p => r[i] = q[i]
    BY <1>1, <1>8, <1>9
  <1>12. \A i \in 1..Len(q) : r[IF i < p THEN i ELSE i + 1] = q[i]
    <2> SUFFICES ASSUME NEW i \in 1..Len(q) PROVE r[IF i < p THEN i ELSE i + 1] = q[i]
      OBVIOUS
    <2>1. CASE i < p
      BY <1>1, <1>11, <2>1
    <2>2. CASE ~(i < p)
      <3>1. i + 1 \in 1..(Len(q) + 1) /\ i + 1 > p /\ (i + 1) - 1 = i
        BY <1>1, <2>2
      <3>2. r[i + 1] = q[(i + 1) - 1]
        BY <1>10, <3>1
      <3> QED
        BY <2>2, <3>1, <3>2
    <2> QED
      BY <2>1, <2>2
  <1>13. \A i \in 1..Len(r) : i # p => r[i] = q[IF i < p THEN i ELSE i - 1]
    BY <1>1, <1>8, <1>10, <1>11
  <1>15. \A x : x \in Range(r) <=> \E i \in 1..Len(r) : r[i] = x
    BY <1>8, <1>11, <1>12, <1>13, InRange
  <1>16. \A x : x \in Range(q) <=> \E i \in 1..Len(q) : q[i] = x
    BY InRange
  <1>17. ASSUME NEW x \in Range(q) PROVE x \in Range(r)
    <2>1. PICK i \in 1..Len(q) : q[i] = x
      BY <1>16, <1>17
    <2>2. (IF i < p THEN i ELSE i + 1) \in 1..Len(r)
      BY <1>8, <1>11, <1>12, <1>13, <1>1
    <2> QED
      BY <1>8, <1>11, <1>12, <1>13, <1>15, <2>1, <2>2
  <1>18. j \in Range(r)
    BY <1>8, <1>11, <1>12, <1>13, <1>1, <1>15
  <1>19. ASSUME NEW x \in Range(r), x # j PROVE x \in Range(q)
    <2>1. PICK i \in 1..Len(r) : r[i] = x
      BY <1>15, <1>19
    <2>2. i # p /\ (IF i < p THEN i ELSE i - 1) \in 1..Len(q)
      BY <1>8, <1>11, <1>12, <1>13, <1>1, <1>19, <2>1
    <2> QED
      BY <1>8, <1>11, <1>12, <1>13, <1>16, <2>1, <2>2
  <1> QED
    BY <1>8, <1>11, <1>12, <1>13, <1>17, <1>18, <1>19

(* What Take leaves. *)
LEMMA Taken1 ==
  ASSUME NEW S, NEW q \in Seq(S), q # <<>>
  PROVE  /\ Tail(q) \in Seq(S) /\ Len(Tail(q)) = Len(q) - 1 /\ Len(q) \in Nat \ {0}
         /\ \A i \in 1..Len(Tail(q)) : Tail(q)[i] = q[i + 1]
         /\ Head(q) = q[1] /\ Head(q) \in S
         /\ Range(q) = Range(Tail(q)) \cup {Head(q)}
  <1>1. /\ Tail(q) \in Seq(S) /\ Len(Tail(q)) = Len(q) - 1 /\ Len(q) \in Nat \ {0}
        /\ \A i \in 1..Len(Tail(q)) : Tail(q)[i] = q[i + 1]
        /\ Head(q) = q[1] /\ Head(q) \in S
    BY EmptySeq, HeadTailProperties
  <1>2. \A x : x \in Range(q) <=> \E i \in 1..Len(q) : q[i] = x
    BY InRange
  <1>3. \A x : x \in Range(Tail(q)) <=> \E i \in 1..Len(Tail(q)) : Tail(q)[i] = x
    <2> DEFINE t == Tail(q)
    <2>1. t \in Seq(S)
      BY <1>1
    <2> HIDE DEF t
    <2>2. \A x : x \in Range(t) <=> \E i \in 1..Len(t) : t[i] = x
      BY <2>1, InRange
    <2> QED
      BY <2>2 DEF t
  <1>4. ASSUME NEW x \in Range(Tail(q)) PROVE x \in Range(q)
    <2>1. PICK i \in 1..Len(Tail(q)) : Tail(q)[i] = x
      BY <1>3, <1>4
    <2>2. i + 1 \in 1..Len(q) /\ q[i + 1] = x
      BY <1>1, <2>1
    <2> QED
      BY <1>2, <2>2
  <1>5. Head(q) \in Range(q)
    <2>1. 1 \in 1..Len(q)
      BY <1>1
    <2> QED
      BY <1>1, <1>2, <2>1
  <1>6. ASSUME NEW x \in Range(q), x # Head(q) PROVE x \in Range(Tail(q))
    <2>1. PICK i \in 1..Len(q) : q[i] = x
      BY <1>2, <1>6
    <2>2. i - 1 \in 1..Len(Tail(q)) /\ (i - 1) + 1 = i
      BY <1>1, <1>6, <2>1
    <2>3. Tail(q)[i - 1] = x
      BY <1>1, <2>1, <2>2
    <2> QED
      BY <1>3, <2>2, <2>3
  <1> QED
    BY <1>1, <1>4, <1>5, <1>6

(* A set of numbers has a first. *)
LEMMA First ==
  ASSUME NEW S \in SUBSET Nat, S # {}
  PROVE  \E x \in S : \A y \in S : x <= y
  <1>1. PICK x \in S : \A y \in S : <<y, x>> \notin OpToRel(<, Nat)
    BY NatLessThanWellFounded, WFMin
  <1>2. \A y \in S : ~(y < x)
    BY <1>1 DEF OpToRel
  <1> QED
    BY <1>2

(* The place of a new job: behind all, or before the first low one. *)
LEMMA Placed ==
  ASSUME NEW q \in Seq(Jobs), NEW low \in BOOLEAN, NEW p, p = PlaceOf(low, q)
  PROVE  /\ p \in 1..(Len(q) + 1)
         /\ low => p = Len(q) + 1
         /\ ~low => \A i \in 1..(p - 1) : ~job[q[i]].low
         /\ p <= Len(q) => job[q[p]].low
  <1>1. DOMAIN q = 1..Len(q) /\ Len(q) \in Nat
    BY LenProperties
  <1>2. CASE low \/ \A i \in DOMAIN q : ~job[q[i]].low
    BY <1>1, <1>2 DEF PlaceOf
  <1>3. CASE ~low /\ \E i \in DOMAIN q : job[q[i]].low
    <2> DEFINE S == {i \in 1..Len(q) : job[q[i]].low}
    <2>1. S \in SUBSET Nat /\ S # {}
      BY <1>1, <1>3
    <2>2. PICK x \in S : \A y \in S : x <= y
      BY <2>1, First
    <2>3. x \in DOMAIN q /\ job[q[x]].low /\ \A i \in 1..(x - 1) : ~job[q[i]].low
      <3>1. x \in 1..Len(q) /\ job[q[x]].low /\ \A y \in S : x <= y
        BY <2>2
      <3>2. ASSUME NEW i \in 1..(x - 1) PROVE i \in 1..Len(q) /\ ~(x <= i)
        BY <1>1, <3>1
      <3> QED
        BY <1>1, <3>1, <3>2
    <2>4. p \in DOMAIN q /\ job[q[p]].low /\ \A i \in 1..(p - 1) : ~job[q[i]].low
      BY <1>3, <2>3 DEF PlaceOf
    <2> QED
      BY <1>1, <1>3, <2>4
  <1> QED
    BY <1>2, <1>3

OneEach(q) == \A i, k \in 1..Len(q) : q[i] = q[k] => i = k

(* Where the jobs stand, told to each. *)
LEMMA Numbered ==
  ASSUME NEW h \in Heap, NEW q \in Seq(Jobs), Len(q) <= MaxQueue, OneEach(q),
         NEW r, r = number_queue(h, q)
  PROVE  /\ r \in Heap
         /\ \A i \in 1..Len(q) : r[q[i]].pos = i
         /\ \A j \in Jobs : j \notin Range(q) => r[j] = h[j]
         /\ \A j \in Jobs : /\ r[j].refs = h[j].refs /\ r[j].low = h[j].low
                            /\ r[j].done = h[j].done /\ r[j].cancel = h[j].cancel
  <1>1. DOMAIN q = 1..Len(q) /\ Len(q) \in Nat /\ MaxQueue \in Nat
    BY LenProperties, EngineAssumption
  <1>2. ASSUME NEW i \in 1..Len(q)
        PROVE  /\ q[i] \in Jobs /\ q[i] \in Range(q)
               /\ (CHOOSE n \in DOMAIN q : q[n] = q[i]) = i
    <2>1. q[i] \in Jobs /\ q[i] \in Range(q)
      BY InRange
    <2>2. \A n \in DOMAIN q : q[n] = q[i] => n = i
      BY <1>1 DEF OneEach
    <2> QED
      BY <1>1, <2>1, <2>2
  <1>3. ASSUME NEW i \in 1..Len(q)
        PROVE  r[q[i]] = [h[q[i]] EXCEPT !.pos = i]
    BY <1>2, <1>3 DEF number_queue
  <1>4. \A j \in Jobs : j \notin Range(q) => r[j] = h[j]
    BY DEF number_queue
  <1>5. ASSUME NEW j \in Jobs
        PROVE  /\ r[j] \in JobType
               /\ r[j].refs = h[j].refs /\ r[j].low = h[j].low
               /\ r[j].done = h[j].done /\ r[j].cancel = h[j].cancel
    <2>0. h[j] \in JobType
      BY DEF Heap
    <2>1. CASE j \in Range(q)
      <3>1. PICK i \in 1..Len(q) : q[i] = j
        BY <2>1, InRange
      <3>2. r[j] = [h[j] EXCEPT !.pos = i] /\ i \in 0..MaxQueue
        BY <1>1, <1>3, <3>1
      <3> QED
        BY <2>0, <3>2 DEF JobType
    <2>2. CASE j \notin Range(q)
      BY <1>4, <2>0, <2>2
    <2> QED
      BY <2>1, <2>2
  <1>6. r \in Heap
    <2>1. r = [j \in Jobs |-> r[j]]
      BY DEF number_queue
    <2> QED
      BY <1>5, <2>1 DEF Heap
  <1>7. \A i \in 1..Len(q) : r[q[i]].pos = i
    <2> SUFFICES ASSUME NEW i \in 1..Len(q) PROVE r[q[i]].pos = i
      OBVIOUS
    <2>1. h[q[i]] \in JobType
      BY <1>2 DEF Heap
    <2> QED
      BY <1>3, <2>1 DEF JobType
  <1> QED
    BY <1>4, <1>5, <1>6, <1>7

-----------------------------------------------------------------------------
(* The heap. *)
LEMMA HeapType == TypeOK => job \in Heap
  BY DEF TypeOK, Heap, JobType

LEMMA NoJobType == NoJob \in JobType /\ NoJob.refs = 0
  BY EngineAssumption DEF NoJob, JobType, Errs

(* srv_job_release: the others are as they were, and so is this one, but for
   its count, unless that was the last. *)
LEMMA Released ==
  ASSUME NEW h \in Heap, NEW j \in Jobs, h[j].refs >= 1, NEW r, r = Release(h, j)
  PROVE  /\ r \in Heap /\ r[j].refs = h[j].refs - 1
         /\ \A i \in Jobs : i # j => r[i] = h[i]
         /\ h[j].refs >= 2 =>
              /\ r[j].low = h[j].low /\ r[j].pos = h[j].pos
              /\ r[j].done = h[j].done /\ r[j].cancel = h[j].cancel
  <1>1. h[j] \in JobType /\ h[j].refs \in 0..4
    BY DEF Heap, JobType
  <1> DEFINE d == IF h[j].refs = 1 THEN NoJob ELSE [h[j] EXCEPT !.refs = @ - 1]
  <1>2. d \in JobType /\ d.refs = h[j].refs - 1
    <2>1. CASE h[j].refs = 1
      BY <1>1, <2>1, NoJobType
    <2>2. CASE h[j].refs # 1
      BY <1>1, <2>2 DEF JobType
    <2> QED
      BY <2>1, <2>2
  <1>3. h[j].refs >= 2 => /\ d.low = h[j].low /\ d.pos = h[j].pos
                          /\ d.done = h[j].done /\ d.cancel = h[j].cancel
    BY <1>1 DEF JobType
  <1>4. r[j] = d /\ \A i \in Jobs : i # j => r[i] = h[i]
    BY DEF Release, Heap
  <1>5. DOMAIN r = Jobs /\ r = [i \in DOMAIN r |-> r[i]]
    BY DEF Release, Heap
  <1> HIDE DEF d
  <1>6. \A i \in Jobs : r[i] \in JobType
    BY <1>2, <1>4 DEF Heap
  <1>7. r \in Heap
    BY <1>5, <1>6 DEF Heap
  <1> QED
    BY <1>2, <1>3, <1>4, <1>7

(* A step that leaves the counts alone, and at most marks jobs as over or
   cancelled. *)
Marks ==
  /\ job' \in Heap
  /\ \A j \in Jobs : /\ job'[j].refs = job[j].refs /\ job'[j].low = job[j].low
                     /\ j \in Range(queue) => job'[j].pos = job[j].pos
                     /\ job[j].done => job'[j].done
                     /\ job[j].cancel => job'[j].cancel

LEMMA Queued ==
  ASSUME TypeOK
  PROVE  /\ queue \in Seq(Jobs) /\ Len(queue) \in Nat /\ DOMAIN queue = 1..Len(queue)
         /\ \A i \in 1..Len(queue) : queue[i] \in Jobs /\ queue[i] \in Range(queue)
         /\ Range(queue) \subseteq Jobs
         /\ \A j \in Range(queue) : \E i \in 1..Len(queue) : queue[i] = j
  <1>1. queue \in Seq(Jobs)
    BY DEF TypeOK
  <1> QED
    BY <1>1, InRange

LEMMA Holder ==
  ASSUME IInv, NEW s \in Submitters, mine[s] # None
  PROVE  mine[s] \in Jobs /\ job[mine[s]].refs \in 1..3
  <1>1. mine[s] \in Jobs
    BY DEF IInv, TypeOK
  <1>2. job[mine[s]].refs = 1 + (IF Has(mine[s]) THEN 1 ELSE 0)
                            + (IF \E b \in Backs : ours[b] = mine[s] THEN 1 ELSE 0)
    BY <1>1 DEF IInv, RefInv
  <1> QED
    BY <1>1, <1>2

LEMMA MarksKeep ==
  ASSUME IInv, Marks, UNCHANGED <<queue, mine, ours>>, eng'.j = eng.j
  PROVE  RefInv' /\ QueueInOrder'
  <1>1. RefInv'
    <2>1. \A j \in Jobs : Has(j)' = Has(j)
      BY DEF Has
    <2> QED
      BY <2>1 DEF IInv, RefInv, Marks
  <1>2. QueueInOrder'
    <2>1. \A i \in 1..Len(queue) : queue[i] \in Jobs /\ queue[i] \in Range(queue)
      BY Queued DEF IInv
    <2>2. DOMAIN queue = 1..Len(queue)
      BY Queued DEF IInv
    <2> QED
      BY <2>1, <2>2 DEF IInv, QueueInOrder, Marks
  <1> QED
    BY <1>1, <1>2

LEMMA HoldKeep ==
  ASSUME IInv, Marks, UNCHANGED <<queue, mine, closing>>, eng'.j = eng.j,
         \A s \in Submitters : pc'[s] = "wait" => pc[s] = "wait",
         \A b \in Backs : gone'[b] /\ pc'[b] = "wait" => gone[b] \/ job'[mine[b]].cancel
  PROVE  NoOrphan' /\ CancelsHold'
  <1>1. \A s \in Submitters : pc[s] = "wait" => mine[s] \in Jobs
    BY DEF IInv, PcInv, TypeOK
  <1>2. NoOrphan'
    BY <1>1 DEF IInv, NoOrphan, Marks
  <1>3. \A b \in Backs : b \in Submitters
    BY DEF Submitters
  <1>4. \A b \in Backs : gone'[b] /\ pc'[b] = "wait" => job'[mine[b]].cancel
    BY <1>1, <1>3 DEF IInv, CancelsHold, Marks
  <1>5. \A j \in Jobs : (j \in Range(queue) \/ eng.j = j) /\ ~job'[j].low /\ ~job'[j].done
                        /\ closing => job'[j].cancel
    BY DEF IInv, CancelsHold, Marks
  <1> QED
    BY <1>2, <1>4, <1>5 DEF CancelsHold

(* A job whose count is 0 is nobody's. *)
LEMMA Unheld ==
  ASSUME IInv, NEW j \in Jobs, job[j].refs = 0
  PROVE  /\ ~Has(j)
         /\ \A s \in Submitters : mine[s] # j
         /\ \A b \in Backs : ours[b] # j
  <1> DEFINE m == \E s \in Submitters : mine[s] = j
             o == \E b \in Backs : ours[b] = j
             a == Has(j)
  <1>1. job[j].refs = (IF m THEN 1 ELSE 0) + (IF a THEN 1 ELSE 0) + (IF o THEN 1 ELSE 0)
    BY DEF IInv, RefInv
  <1> HIDE DEF m, o, a
  <1>2. ~m /\ ~a /\ ~o
    BY <1>1
  <1> QED
    BY <1>2 DEF m, o, a

(* srv_engine_submit: the new job is in its place, and all the others are as
   they were.  h is the heap, with the job before perhaps released. *)
LEMMA Enqueued ==
  ASSUME IInv, NEW h \in Heap, NEW j \in Jobs, NEW low \in BOOLEAN,
         NEW watch \in Runs \cup {None},
         Taken(low), Enqueue(h, j, low, watch), job[j].refs = 0,
         \A i \in Range(queue) : h[i].low = job[i].low
  PROVE  /\ job' \in Heap
         /\ job'[j].refs = 2 /\ job'[j].low = low
         /\ \A i \in Jobs : i # j =>
              /\ job'[i].refs = h[i].refs /\ job'[i].low = h[i].low
              /\ job'[i].done = h[i].done /\ job'[i].cancel = h[i].cancel
         /\ queue' \in Seq(Jobs) /\ Len(queue') <= MaxQueue
         /\ Range(queue') = Range(queue) \cup {j} /\ j \notin Range(queue)
         /\ QueueInOrder'
         /\ \A a, b : Before(queue, a, b) => Before(queue', a, b)
         /\ \A a \in Range(queue) : job[a].low = low => Before(queue', a, j)
  <1> DEFINE d == [NoJob EXCEPT !.low = low, !.watch = watch, !.refs = 2]
             g == [h EXCEPT ![j] = d]
             p == PlaceOf(low, queue)
             q == InsertAt(queue, p, j)
             n == Len(queue)
             up(i) == IF i < p THEN i ELSE i + 1
             dn(i) == IF i < p THEN i ELSE i - 1
  <1>1. queue' = q /\ job' = number_queue(g, q)
    BY DEF Enqueue
  <1>2. d \in JobType /\ d.refs = 2 /\ d.low = low
    <2> DEFINE e == [NoJob EXCEPT !.low = low]
               f == [e EXCEPT !.watch = watch]
    <2>1. d = [f EXCEPT !.refs = 2]
      OBVIOUS
    <2>2. e \in JobType /\ e.low = low
      BY NoJobType DEF JobType
    <2> HIDE DEF e, d
    <2>3. f \in JobType /\ f.low = low
      BY <2>2 DEF JobType
    <2> HIDE DEF f
    <2> QED
      BY <2>1, <2>3 DEF JobType
  <1>3. n < MaxQueue /\ TypeOK /\ QueueInOrder
    BY DEF Taken, IInv
  <1>4. /\ queue \in Seq(Jobs) /\ n \in Nat /\ DOMAIN queue = 1..n
        /\ \A i \in 1..n : queue[i] \in Jobs /\ queue[i] \in Range(queue)
        /\ Range(queue) \subseteq Jobs
        /\ \A i \in Range(queue) : \E k \in 1..n : queue[k] = i
    BY <1>3, Queued
  <1>5. j \notin Range(queue)
    BY Unheld DEF Has
  <1> HIDE DEF d
  <1>6. g \in Heap /\ g[j] = d /\ \A i \in Jobs : i # j => g[i] = h[i]
    BY <1>2 DEF Heap
  <1> HIDE DEF g
  <1>7. /\ p \in 1..(n + 1)
        /\ low => p = n + 1
        /\ ~low => \A i \in 1..(p - 1) : ~job[queue[i]].low
        /\ p <= n => job[queue[p]].low
    BY <1>4, Placed
  <1> HIDE DEF p
  <1>8. /\ q \in Seq(Jobs) /\ Len(q) = n + 1 /\ q[p] = j
        /\ \A i \in 1..n : q[up(i)] = queue[i]
        /\ \A i \in 1..Len(q) : i # p => q[i] = queue[dn(i)]
        /\ Range(q) = Range(queue) \cup {j}
    <2>1. q = InsertAt(queue, p, j) /\ queue \in Seq(Jobs) /\ p \in 1..(Len(queue) + 1)
      BY <1>4, <1>7
    <2> HIDE DEF q
    <2> QED
      BY <2>1, Inserted
  <1> HIDE DEF q
  <1>9. /\ \A i \in 1..n : up(i) \in 1..(n + 1) /\ up(i) # p
        /\ \A i \in 1..(n + 1) : i # p => dn(i) \in 1..n
        /\ \A i, k \in 1..n : i < k => up(i) < up(k)
        /\ \A i, k \in 1..(n + 1) : i # p /\ k # p /\ i < k => dn(i) < dn(k)
        /\ \A i, k \in 1..(n + 1) : i # p /\ k # p /\ dn(i) = dn(k) => i = k
    BY <1>4, <1>7
  <1>10. OneEach(queue)
    BY <1>3, <1>4 DEF QueueInOrder, OneEach
  <1>11. DOMAIN q = 1..Len(q)
    BY <1>8, LenProperties
  <1>12. OneEach(q)
    <2> SUFFICES ASSUME NEW i \in 1..Len(q), NEW k \in 1..Len(q), q[i] = q[k] PROVE i = k
      BY DEF OneEach
    <2>1. CASE i = p \/ k = p
      BY <1>4, <1>5, <1>8, <1>9, <2>1
    <2>2. CASE i # p /\ k # p
      <3>1. dn(i) \in 1..n /\ dn(k) \in 1..n /\ queue[dn(i)] = queue[dn(k)]
        BY <1>8, <1>9, <2>2
      <3>2. dn(i) = dn(k)
        BY <1>10, <3>1 DEF OneEach
      <3> QED
        BY <1>8, <1>9, <2>2, <3>2
    <2> QED
      BY <2>1, <2>2
  <1>13. Len(q) <= MaxQueue
    BY <1>3, <1>4, <1>8, EngineAssumption
  <1>14. /\ job' \in Heap
         /\ \A i \in 1..Len(q) : job'[q[i]].pos = i
         /\ \A i \in Jobs : /\ job'[i].refs = g[i].refs /\ job'[i].low = g[i].low
                            /\ job'[i].done = g[i].done /\ job'[i].cancel = g[i].cancel
    <2> DEFINE r == number_queue(g, q)
    <2>1. r = number_queue(g, q)
      OBVIOUS
    <2>2. job' = r
      BY <1>1
    <2>0. g \in Heap /\ q \in Seq(Jobs) /\ Len(q) <= MaxQueue /\ OneEach(q)
      BY <1>6, <1>8, <1>12, <1>13
    <2> HIDE DEF r
    <2>3. /\ r \in Heap
          /\ \A i \in 1..Len(q) : r[q[i]].pos = i
          /\ \A i \in Jobs : /\ r[i].refs = g[i].refs /\ r[i].low = g[i].low
                             /\ r[i].done = g[i].done /\ r[i].cancel = g[i].cancel
      BY <2>0, <2>1, Numbered
    <2> QED
      BY <2>2, <2>3
  <1>15. ASSUME NEW i \in 1..Len(q), i # p
         PROVE  q[i] = queue[dn(i)] /\ dn(i) \in 1..n /\ job'[q[i]].low = job[queue[dn(i)]].low
    <2>1. q[i] = queue[dn(i)] /\ dn(i) \in 1..n
      BY <1>8, <1>9, <1>15
    <2>2. queue[dn(i)] \in Jobs /\ queue[dn(i)] \in Range(queue)
      BY <1>4, <2>1
    <2> HIDE DEF dn
    <2> QED
      BY <1>5, <1>6, <1>14, <2>1, <2>2
  <1>16. ASSUME NEW i \in 1..Len(q), NEW k \in 1..Len(q), i < k, job'[q[i]].low
         PROVE  job'[q[k]].low
    <2>0. job'[j].low = low
      BY <1>2, <1>6, <1>14
    <2>1. CASE i = p
      <3>1. low
        BY <1>8, <1>16, <2>0, <2>1
      <3>2. p = n + 1 /\ k \in 1..(n + 1) /\ n \in Nat
        BY <1>4, <1>7, <1>8, <3>1
      <3> QED
        BY <1>16, <2>1, <3>2
    <2>2. CASE i # p /\ k = p
      <3>1. i \in 1..(p - 1) /\ i < p
        BY <1>4, <1>7, <1>8, <1>16, <2>2
      <3>2. job[queue[i]].low
        BY <1>15, <1>16, <2>2, <3>1
      <3> QED
        BY <1>7, <1>8, <2>0, <2>2, <3>1, <3>2
    <2>3. CASE i # p /\ k # p
      <3>1. dn(i) \in 1..n /\ dn(k) \in 1..n /\ dn(i) < dn(k)
        BY <1>8, <1>9, <1>16, <2>3
      <3>2. job[queue[dn(i)]].low /\ job'[q[k]].low = job[queue[dn(k)]].low
        BY <1>15, <1>16, <2>3
      <3> HIDE DEF dn
      <3> QED
        BY <1>3, <1>4, <3>1, <3>2 DEF QueueInOrder
    <2> QED
      BY <2>1, <2>2, <2>3
  <1>17. QueueInOrder'
    BY <1>1, <1>11, <1>14, <1>16 DEF QueueInOrder
  <1>18. ASSUME NEW a, NEW b, Before(queue, a, b) PROVE Before(queue', a, b)
    <2>1. PICK i \in 1..n, k \in 1..n : i < k /\ queue[i] = a /\ queue[k] = b
      BY <1>4, <1>18 DEF Before
    <2>2. up(i) \in 1..Len(q) /\ up(k) \in 1..Len(q) /\ up(i) < up(k)
      BY <1>8, <1>9, <2>1
    <2>3. q[up(i)] = a /\ q[up(k)] = b
      BY <1>8, <2>1
    <2> HIDE DEF up
    <2> QED
      BY <1>1, <1>11, <2>2, <2>3 DEF Before
  <1>19. ASSUME NEW a \in Range(queue), job[a].low = low PROVE Before(queue', a, j)
    <2>1. PICK i \in 1..n : queue[i] = a
      BY <1>4, <1>19
    <2>2. i < p
      <3>1. CASE low
        BY <1>4, <1>7, <2>1, <3>1
      <3>2. CASE ~low
        <4>1. p <= n => job[queue[p]].low
          BY <1>7
        <4>2. p <= n => ~(p < i) /\ p # i
          BY <1>3, <1>4, <1>7, <1>19, <2>1, <3>2, <4>1 DEF QueueInOrder
        <4> QED
          BY <1>4, <1>7, <4>2
      <3> QED
        BY <3>1, <3>2
    <2>3. q[i] = a /\ i \in 1..Len(q) /\ p \in 1..Len(q)
      BY <1>4, <1>7, <1>8, <2>1, <2>2
    <2> QED
      BY <1>1, <1>8, <1>11, <2>2, <2>3 DEF Before
  <1> QED
    BY <1>1, <1>2, <1>5, <1>6, <1>8, <1>13, <1>14, <1>17, <1>18, <1>19

-----------------------------------------------------------------------------
(* A job submitted, by whichever thread. *)
LEMMA SubmitStep ==
  ASSUME IInv, NEW s \in Submitters, NEW j \in Jobs, NEW low \in BOOLEAN,
         NEW watch \in Runs \cup {None},
         Submit(s, j, low, watch, "wait"), pc[s] = "idle",
         res' \in [Runs -> {"completed", "failed", "cancelled"}],
         saved' \in [Runs -> {"in_progress", "completed", "failed", "cancelled"}],
         flag' \in [Runs -> BOOLEAN], gone' \in [Backs -> BOOLEAN],
         rounds' \in [Backs -> 0..MaxRounds], ours' = ours,
         s \in Backs => ~gone'[s],
         \A b \in Backs : b # s => gone'[b] = gone[b] /\ rounds'[b] = rounds[b]
  PROVE  IInv'
  <1>1. /\ Taken(low) /\ Enqueue(job, j, low, watch)
        /\ mine' = [mine EXCEPT ![s] = j] /\ pc' = [pc EXCEPT ![s] = "wait"]
        /\ UNCHANGED <<running, closing, stop, alive, eng, told, main>>
    BY DEF Submit, mainVars
  <1>2. TypeOK /\ job \in Heap /\ job[j].refs = 0 /\ j # None
    BY <1>1, HeapType, EngineAssumption DEF IInv, Enqueue
  <1>3. /\ job' \in Heap
        /\ job'[j].refs = 2 /\ job'[j].low = low
        /\ \A i \in Jobs : i # j =>
             /\ job'[i].refs = job[i].refs /\ job'[i].low = job[i].low
             /\ job'[i].done = job[i].done /\ job'[i].cancel = job[i].cancel
        /\ queue' \in Seq(Jobs) /\ Len(queue') <= MaxQueue
        /\ Range(queue') = Range(queue) \cup {j} /\ j \notin Range(queue)
        /\ QueueInOrder'
    <2>1. \A i \in Range(queue) : job[i].low = job[i].low
      OBVIOUS
    <2> QED
      BY <1>1, <1>2, <2>1, Enqueued
  <1>4. /\ mine' \in [Submitters -> Jobs \cup {None}] /\ mine'[s] = j
        /\ \A t \in Submitters : t # s => mine'[t] = mine[t]
    BY <1>1, <1>2 DEF TypeOK
  <1>5. /\ pc'[s] = "wait" /\ \A t \in Submitters : t # s => pc'[t] = pc[t]
        /\ pc' \in [Submitters -> {"idle", "wait", "leave", "exit", "tools", "adopt",
                                   "keep", "save", "lost"}]
    BY <1>1, <1>2 DEF TypeOK
  <1>6. eng.j # j /\ (\A t \in Submitters : mine[t] # j) /\ (\A b \in Backs : ours[b] # j)
    BY <1>2, Unheld DEF Has
  <1>7. mine[s] = None
    BY DEF IInv, PcInv
  <1>8. \A t \in Submitters : mine[t] # None => mine[t] \in Jobs /\ t # s
    BY <1>2, <1>7 DEF TypeOK
  <1>9. TypeOK'
    BY <1>1, <1>2, <1>3, <1>4, <1>5 DEF TypeOK, Heap, JobType
  <1>10. RefInv'
    <2>1. \A t, v \in Submitters : mine'[t] # None /\ mine'[t] = mine'[v] => t = v
      BY <1>4, <1>6 DEF IInv, RefInv
    <2>2. \A b \in Backs, t \in Submitters : ours[b] # None /\ ours[b] = mine'[t] => t = b
      BY <1>4, <1>6 DEF IInv, RefInv
    <2>3. ASSUME NEW i \in Jobs, i # j
          PROVE  /\ Has(i)' = Has(i)
                 /\ (\E t \in Submitters : mine'[t] = i) <=> (\E t \in Submitters : mine[t] = i)
                 /\ job'[i].refs = job[i].refs
      <3>1. Has(i)' = Has(i)
        BY <1>1, <1>3, <2>3 DEF Has
      <3>2. i # None
        BY EngineAssumption
      <3>3. (\E t \in Submitters : mine'[t] = i) <=> (\E t \in Submitters : mine[t] = i)
        BY <1>4, <1>7, <2>3, <3>2
      <3> QED
        BY <1>3, <2>3, <3>1, <3>3
    <2>4. \A i \in Jobs : i # j =>
            job'[i].refs = (IF \E t \in Submitters : mine'[t] = i THEN 1 ELSE 0)
                           + (IF Has(i)' THEN 1 ELSE 0)
                           + (IF \E b \in Backs : ours[b] = i THEN 1 ELSE 0)
      BY <2>3 DEF IInv, RefInv
    <2>5. Has(j)' /\ (\E t \in Submitters : mine'[t] = j) /\ ~(\E b \in Backs : ours[b] = j)
      BY <1>3, <1>4, <1>6 DEF Has
    <2>6. job'[j].refs = (IF \E t \in Submitters : mine'[t] = j THEN 1 ELSE 0)
                         + (IF Has(j)' THEN 1 ELSE 0)
                         + (IF \E b \in Backs : ours[b] = j THEN 1 ELSE 0)
      BY <1>3, <2>5
    <2> QED
      BY <2>1, <2>2, <2>4, <2>6 DEF IInv, RefInv
  <1>11. EngInv'
    <2>1. eng.j # None => eng.j \in Jobs
      BY <1>2 DEF TypeOK
    <2>2. eng.j \notin Range(queue')
      BY <1>3, <1>6 DEF IInv, EngInv
    <2> QED
      BY <1>1, <1>3, <1>6, <2>1, <2>2 DEF IInv, EngInv
  <1>12. PcInv'
    BY <1>2, <1>4, <1>5 DEF IInv, PcInv, Submitters
  <1>13. NoOrphan'
    <2> SUFFICES ASSUME NEW t \in Submitters, pc'[t] = "wait", ~job'[mine'[t]].done
                 PROVE  mine'[t] \in Range(queue') \/ eng.j = mine'[t]
      BY <1>1 DEF NoOrphan
    <2>1. CASE t = s
      BY <1>3, <1>4, <2>1
    <2>2. CASE t # s
      <3>1. pc[t] = "wait" /\ mine'[t] = mine[t]
        BY <1>4, <1>5, <2>2
      <3>2. mine[t] \in Jobs /\ mine[t] # j
        BY <1>6, <1>8, <3>1 DEF IInv, PcInv
      <3> QED
        BY <1>3, <3>1, <3>2 DEF IInv, NoOrphan
    <2> QED
      BY <2>1, <2>2
  <1>14. CancelsHold'
    <2>1. ASSUME closing, NEW i \in Jobs, i \in Range(queue') \/ eng.j = i,
                 ~job'[i].low, ~job'[i].done
          PROVE  job'[i].cancel
      <3>1. i # j
        BY <1>1, <1>3, <2>1 DEF Taken
      <3> QED
        BY <1>3, <2>1, <3>1 DEF IInv, CancelsHold
    <2>2. ASSUME NEW b \in Backs, gone'[b], pc'[b] = "wait" PROVE job'[mine'[b]].cancel
      <3>1. b # s /\ b \in Submitters
        BY <2>2 DEF Submitters
      <3>2. gone[b] /\ pc[b] = "wait" /\ mine'[b] = mine[b]
        BY <1>4, <1>5, <2>2, <3>1
      <3>3. mine[b] \in Jobs /\ mine[b] # j
        BY <1>6, <1>8, <3>1, <3>2 DEF IInv, PcInv
      <3> QED
        BY <1>3, <3>2, <3>3 DEF IInv, CancelsHold
    <2> QED
      BY <1>1, <2>1, <2>2 DEF CancelsHold
  <1> QED
    BY <1>3, <1>9, <1>10, <1>11, <1>12, <1>13, <1>14 DEF IInv

LEMMA SubmitSteps ==
  ASSUME IInv
  PROVE  /\ \A c \in Clients : CSubmit(c) => IInv'
         /\ \A w \in Lows : LSubmit(w) => IInv'
         /\ \A r \in Runs : RSubmit(r) => IInv'
         /\ \A b \in Backs : BSubmit(b) => IInv'
  <1>1. TypeOK
    BY DEF IInv
  <1>2. ASSUME NEW c \in Clients, CSubmit(c) PROVE IInv'
    <2>1. /\ pc[c] = "idle"
          /\ UNCHANGED <<flag, res, saved, gone, rounds, ours>>
      BY <1>2 DEF CSubmit, runVars
    <2>2. PICK j \in Jobs : Submit(c, j, FALSE, None, "wait")
      BY <1>2 DEF CSubmit
    <2>3. c \in Submitters /\ c \notin Backs
      BY EngineAssumption DEF Submitters
    <2> QED
      BY <1>1, <2>1, <2>2, <2>3, SubmitStep DEF TypeOK
  <1>3. ASSUME NEW w \in Lows, LSubmit(w) PROVE IInv'
    <2>1. /\ pc[w] = "idle"
          /\ UNCHANGED <<flag, res, saved, gone, rounds, ours>>
      BY <1>3 DEF LSubmit, runVars
    <2>2. PICK j \in Jobs : Submit(w, j, TRUE, None, "wait")
      BY <1>3 DEF LSubmit
    <2>3. w \in Submitters /\ w \notin Backs
      BY EngineAssumption DEF Submitters
    <2> QED
      BY <1>1, <2>1, <2>2, <2>3, SubmitStep DEF TypeOK
  <1>4. ASSUME NEW r \in Runs, RSubmit(r) PROVE IInv'
    <2>1. /\ pc[r] = "idle" /\ UNCHANGED <<res, gone, rounds, ours>>
          /\ flag' = [flag EXCEPT ![r] = FALSE]
          /\ saved' = [saved EXCEPT ![r] = "in_progress"]
      BY <1>4 DEF RSubmit
    <2>2. PICK j \in Jobs : Submit(r, j, FALSE, r, "wait")
      BY <1>4 DEF RSubmit
    <2>3. r \in Submitters /\ r \notin Backs
      BY EngineAssumption DEF Submitters
    <2>4. /\ flag' \in [Runs -> BOOLEAN]
          /\ saved' \in [Runs -> {"in_progress", "completed", "failed", "cancelled"}]
      BY <1>1, <2>1 DEF TypeOK
    <2> QED
      BY <1>1, <2>1, <2>2, <2>3, <2>4, SubmitStep DEF TypeOK
  <1>5. ASSUME NEW b \in Backs, BSubmit(b) PROVE IInv'
    <2>1. /\ pc[b] = "idle" /\ UNCHANGED <<flag, res, saved, ours>>
          /\ gone' = [gone EXCEPT ![b] = FALSE]
          /\ rounds' = [rounds EXCEPT ![b] = 0]
      BY <1>5 DEF BSubmit, runVars
    <2>2. PICK j \in Jobs : Submit(b, j, FALSE, None, "wait")
      BY <1>5 DEF BSubmit
    <2>3. b \in Submitters
      BY DEF Submitters
    <2>4. /\ gone' \in [Backs -> BOOLEAN] /\ rounds' \in [Backs -> 0..MaxRounds]
          /\ ~gone'[b]
          /\ \A c \in Backs : c # b => gone'[c] = gone[c] /\ rounds'[c] = rounds[c]
      BY <1>1, <2>1, EngineAssumption DEF TypeOK
    <2> QED
      BY <1>1, <2>1, <2>2, <2>3, <2>4, SubmitStep DEF TypeOK
  <1> QED
    BY <1>2, <1>3, <1>4, <1>5

-----------------------------------------------------------------------------
(* The three ways a job is let go: by its submitter, by the engine, by a
   cancel.  Same(i): what the others look at in job i is as it was. *)
Same(i) == /\ job'[i].low = job[i].low /\ job'[i].pos = job[i].pos
           /\ job'[i].done = job[i].done /\ job'[i].cancel = job[i].cancel

LEMMA LeaveStep ==
  ASSUME IInv, NEW s \in Submitters, mine[s] # None, NEW to \in {"idle", "save"},
         job' = Release(job, mine[s]), mine' = [mine EXCEPT ![s] = None],
         pc' = [pc EXCEPT ![s] = to],
         UNCHANGED <<queue, running, closing, stop, alive, eng, told, main,
                     gone, rounds, ours>>,
         res' \in [Runs -> {"completed", "failed", "cancelled"}],
         saved' \in [Runs -> {"in_progress", "completed", "failed", "cancelled"}],
         flag' \in [Runs -> BOOLEAN]
  PROVE  IInv'
  <1>1. TypeOK /\ job \in Heap
    BY HeapType DEF IInv
  <1>2. PICK j \in Jobs : j = mine[s]
    BY Holder
  <1>3. job[j].refs \in 1..3 /\ job' = Release(job, j)
    BY <1>2, Holder
  <1>4. /\ job' \in Heap /\ job'[j].refs = job[j].refs - 1
        /\ \A i \in Jobs : i # j => job'[i] = job[i]
        /\ job[j].refs >= 2 => Same(j)
    BY <1>1, <1>3, Released DEF Same
  <1>5. /\ mine' \in [Submitters -> Jobs \cup {None}] /\ mine'[s] = None
        /\ \A t \in Submitters : t # s => mine'[t] = mine[t]
    BY <1>1 DEF TypeOK
  <1>6. /\ pc'[s] = to /\ \A t \in Submitters : t # s => pc'[t] = pc[t]
        /\ pc' \in [Submitters -> {"idle", "wait", "leave", "exit", "tools", "adopt",
                                   "keep", "save", "lost"}]
    BY <1>1 DEF TypeOK
  <1>7. \A t \in Submitters : t # s => mine[t] # j
    BY <1>1, <1>2 DEF IInv, RefInv
  <1>8. job[j].refs = 1 + (IF Has(j) THEN 1 ELSE 0) + (IF \E b \in Backs : ours[b] = j THEN 1 ELSE 0)
    BY <1>1, <1>2 DEF IInv, RefInv
  <1>9. Has(j) => job[j].refs >= 2
    BY <1>8
  <1>10. \A i \in Jobs : Has(i) \/ i # j => Same(i)
    BY <1>4, <1>9 DEF Same
  <1>11. TypeOK'
    BY <1>1, <1>4, <1>5, <1>6 DEF TypeOK, Heap, JobType
  <1>12. RefInv'
    <2>1. \A t, v \in Submitters : mine'[t] # None /\ mine'[t] = mine'[v] => t = v
      BY <1>5 DEF IInv, RefInv
    <2>2. \A b \in Backs, t \in Submitters : ours[b] # None /\ ours[b] = mine'[t] => t = b
      BY <1>5 DEF IInv, RefInv
    <2>3. \A i \in Jobs : Has(i)' = Has(i)
      BY DEF Has
    <2>4. ~ \E t \in Submitters : mine'[t] = j
      BY <1>1, <1>5, <1>7, EngineAssumption
    <2>5. ASSUME NEW i \in Jobs, i # j
          PROVE  (\E t \in Submitters : mine'[t] = i) <=> (\E t \in Submitters : mine[t] = i)
      BY <1>2, <1>5, <2>5, EngineAssumption
    <2>6. job'[j].refs = (IF \E t \in Submitters : mine'[t] = j THEN 1 ELSE 0)
                         + (IF Has(j)' THEN 1 ELSE 0)
                         + (IF \E b \in Backs : ours[b] = j THEN 1 ELSE 0)
      BY <1>3, <1>4, <1>8, <2>3, <2>4
    <2>7. ASSUME NEW i \in Jobs, i # j
          PROVE  job'[i].refs = (IF \E t \in Submitters : mine'[t] = i THEN 1 ELSE 0)
                                + (IF Has(i)' THEN 1 ELSE 0)
                                + (IF \E b \in Backs : ours[b] = i THEN 1 ELSE 0)
      <3>1. job[i].refs = (IF \E t \in Submitters : mine[t] = i THEN 1 ELSE 0)
                          + (IF Has(i) THEN 1 ELSE 0)
                          + (IF \E b \in Backs : ours[b] = i THEN 1 ELSE 0)
        BY DEF IInv, RefInv
      <3> QED
        BY <1>4, <2>3, <2>5, <2>7, <3>1
    <2> QED
      BY <1>1, <2>1, <2>2, <2>6, <2>7 DEF IInv, RefInv
  <1>13. QueueInOrder'
    <2>1. \A i \in DOMAIN queue : queue[i] \in Jobs /\ Has(queue[i])
      BY <1>1, Queued DEF Has
    <2> QED
      BY <1>10, <2>1 DEF IInv, QueueInOrder, Same
  <1>14. EngInv'
    <2>1. eng.j # None => eng.j \in Jobs /\ Has(eng.j)
      BY <1>1 DEF TypeOK, Has
    <2> QED
      BY <1>10, <2>1 DEF IInv, EngInv, Same
  <1>15. PcInv'
    BY <1>5, <1>6 DEF IInv, PcInv, Submitters
  <1>16. ASSUME NEW t \in Submitters, pc'[t] = "wait"
         PROVE  t # s /\ pc[t] = "wait" /\ mine'[t] = mine[t] /\ mine[t] \in Jobs /\ Same(mine[t])
    <2>1. t # s /\ pc[t] = "wait" /\ mine'[t] = mine[t]
      BY <1>5, <1>6, <1>16
    <2>2. mine[t] \in Jobs
      BY <1>1, <2>1 DEF IInv, PcInv, TypeOK
    <2> QED
      BY <1>7, <1>10, <2>1, <2>2
  <1>17. NoOrphan'
    BY <1>16 DEF IInv, NoOrphan, Same
  <1>18. CancelsHold'
    <2>1. \A b \in Backs : gone[b] /\ pc'[b] = "wait" => job'[mine'[b]].cancel
      BY <1>16 DEF IInv, CancelsHold, Same, Submitters
    <2>2. ASSUME closing, NEW i \in Jobs, i \in Range(queue) \/ eng.j = i, ~job'[i].low, ~job'[i].done
          PROVE  job'[i].cancel
      BY <1>10, <2>2 DEF IInv, CancelsHold, Same, Has
    <2> QED
      BY <2>1, <2>2 DEF CancelsHold
  <1> QED
    BY <1>11, <1>12, <1>13, <1>14, <1>15, <1>17, <1>18 DEF IInv

LEMMA LeaveSteps ==
  ASSUME IInv
  PROVE  /\ \A s \in Submitters : Leave(s) => IInv'
         /\ \A r \in Runs : RDone(r) => IInv'
  <1>1. TypeOK
    BY DEF IInv
  <1>2. ASSUME NEW s \in Submitters, Leave(s) PROVE IInv'
    <2>1. /\ mine[s] # None /\ job' = Release(job, mine[s])
          /\ mine' = [mine EXCEPT ![s] = None] /\ pc' = [pc EXCEPT ![s] = "idle"]
          /\ UNCHANGED <<flag, res, saved, gone, rounds, ours>>
          /\ UNCHANGED <<queue, running, closing, stop, alive, eng, told, main>>
      BY <1>2 DEF Leave, IInv, PcInv, SubStep, engVars, mainVars, runVars
    <2> QED
      BY <1>1, <2>1, LeaveStep DEF TypeOK
  <1>3. ASSUME NEW r \in Runs, RDone(r) PROVE IInv'
    <2>0. r \in Submitters
      BY DEF Submitters
    <2>1. /\ mine[r] # None /\ job' = Release(job, mine[r])
          /\ mine' = [mine EXCEPT ![r] = None] /\ pc' = [pc EXCEPT ![r] = "save"]
          /\ res' = [res EXCEPT ![r] = status_of(mine[r])]
          /\ UNCHANGED <<flag, saved, gone, rounds, ours>>
          /\ UNCHANGED <<queue, running, closing, stop, alive, eng, told, main>>
      BY <1>3, <2>0 DEF RDone, IInv, PcInv, SubStep, engVars, mainVars
    <2>2. status_of(mine[r]) \in {"completed", "failed", "cancelled"}
      BY DEF status_of
    <2>3. res' \in [Runs -> {"completed", "failed", "cancelled"}]
      BY <1>1, <2>1, <2>2 DEF TypeOK
    <2> QED
      BY <1>1, <2>0, <2>1, <2>3, LeaveStep DEF TypeOK
  <1> QED
    BY <1>2, <1>3

LEMMA DropStep ==
  ASSUME IInv, Drop
  PROVE  IInv'
  <1>1. TypeOK /\ job \in Heap
    BY HeapType DEF IInv
  <1>2. /\ eng.pc = "release" /\ job' = Release(job, eng.j) /\ eng' = NoWork
        /\ UNCHANGED <<queue, running, closing, stop, alive, told, main>>
        /\ UNCHANGED <<pc, mine, flag, res, saved, gone, rounds, ours>>
    BY DEF Drop, EngStep, subVars, runVars, mainVars
  <1>3. PICK j \in Jobs : j = eng.j
    BY <1>1, <1>2 DEF IInv, EngInv, TypeOK
  <1>4. j \notin Range(queue) /\ running = None /\ Has(j) /\ j # None
    BY <1>2, <1>3, EngineAssumption DEF IInv, EngInv, Has
  <1>5. job[j].refs = (IF \E s \in Submitters : mine[s] = j THEN 1 ELSE 0) + 1
                      + (IF \E b \in Backs : ours[b] = j THEN 1 ELSE 0)
    BY <1>4 DEF IInv, RefInv
  <1>6. job[j].refs >= 1 /\ \A s \in Submitters : mine[s] = j => job[j].refs >= 2
    BY <1>5
  <1>7. /\ job' \in Heap /\ job'[j].refs = job[j].refs - 1
        /\ \A i \in Jobs : i # j => job'[i] = job[i]
        /\ job[j].refs >= 2 => Same(j)
    BY <1>1, <1>2, <1>3, <1>6, Released DEF Same
  <1>8. /\ eng'.pc = "wait" /\ eng'.j = None /\ eng'.k = 0 /\ eng'.tok = 0 /\ eng'.rc = "ok"
        /\ eng' \in [pc : {"wait"}, j : {None}, k : {0}, tok : {0}, rc : {"ok"}]
    BY <1>2 DEF NoWork
  <1>9. TypeOK'
    <2>1. eng' \in [pc : {"wait", "start", "skip", "setup", "choice", "token",
                          "finish", "clear", "release", "exit"},
                    j : Jobs \cup {None}, k : 0..NChoices, tok : 0..(MaxTokens - 1),
                    rc : Errs]
      BY <1>2, EngineAssumption DEF NoWork, Errs
    <2>2. job' \in [Jobs -> [low : BOOLEAN, watch : Runs \cup {None}, done : BOOLEAN,
                       cancel : BOOLEAN, err : Errs, started : BOOLEAN,
                       pos : 0..MaxQueue, refs : 0..4]]
      BY <1>7 DEF Heap, JobType
    <2> QED
      BY <1>1, <1>2, <2>1, <2>2 DEF TypeOK
  <1>10. RefInv'
    <2>1. ~Has(j)'
      BY <1>2, <1>4, <1>8 DEF Has
    <2>2. ASSUME NEW i \in Jobs, i # j PROVE Has(i)' = Has(i)
      BY <1>2, <1>3, <1>8, <2>2, EngineAssumption DEF Has
    <2>3. job'[j].refs = (IF \E s \in Submitters : mine[s] = j THEN 1 ELSE 0)
                         + (IF Has(j)' THEN 1 ELSE 0)
                         + (IF \E b \in Backs : ours[b] = j THEN 1 ELSE 0)
      BY <1>5, <1>7, <2>1
    <2>4. ASSUME NEW i \in Jobs, i # j
          PROVE  job'[i].refs = (IF \E s \in Submitters : mine[s] = i THEN 1 ELSE 0)
                                + (IF Has(i)' THEN 1 ELSE 0)
                                + (IF \E b \in Backs : ours[b] = i THEN 1 ELSE 0)
      <3>1. job[i].refs = (IF \E s \in Submitters : mine[s] = i THEN 1 ELSE 0)
                          + (IF Has(i) THEN 1 ELSE 0)
                          + (IF \E b \in Backs : ours[b] = i THEN 1 ELSE 0)
        BY DEF IInv, RefInv
      <3> QED
        BY <1>7, <2>2, <2>4, <3>1
    <2> QED
      BY <1>2, <2>3, <2>4 DEF IInv, RefInv
  <1>11. QueueInOrder'
    <2>1. \A i \in DOMAIN queue : queue[i] \in Jobs /\ queue[i] # j
      BY <1>1, <1>4, Queued
    <2> QED
      BY <1>2, <1>7, <2>1 DEF IInv, QueueInOrder
  <1>12. EngInv'
    <2>1. None \notin Range(queue)
      BY <1>1, Queued, EngineAssumption
    <2> QED
      BY <1>2, <1>4, <1>8, <2>1 DEF EngInv
  <1>13. PcInv'
    BY <1>2 DEF IInv, PcInv
  <1>14. ASSUME NEW t \in Submitters, pc[t] = "wait" PROVE mine[t] \in Jobs /\ Same(mine[t])
    <2>1. mine[t] \in Jobs
      BY <1>1, <1>14 DEF IInv, PcInv, TypeOK
    <2>2. CASE mine[t] = j
      BY <1>6, <1>7, <2>2
    <2>3. CASE mine[t] # j
      BY <1>7, <2>1, <2>3 DEF Same
    <2> QED
      BY <2>1, <2>2, <2>3
  <1>15. NoOrphan'
    <2> SUFFICES ASSUME NEW t \in Submitters, pc[t] = "wait", ~job'[mine[t]].done
                 PROVE  mine[t] \in Range(queue)
      BY <1>2 DEF NoOrphan
    <2>1. ~job[mine[t]].done
      BY <1>14 DEF Same
    <2> QED
      BY <1>2, <2>1 DEF IInv, NoOrphan, EngInv
  <1>16. CancelsHold'
    <2>1. \A b \in Backs : gone[b] /\ pc[b] = "wait" => job'[mine[b]].cancel
      BY <1>14 DEF IInv, CancelsHold, Same, Submitters
    <2>2. ASSUME closing, NEW i \in Jobs, i \in Range(queue) \/ eng'.j = i, ~job'[i].low, ~job'[i].done
          PROVE  job'[i].cancel
      <3>1. i \in Range(queue) /\ i # j
        BY <1>4, <1>8, <2>2, EngineAssumption
      <3> QED
        BY <1>7, <2>2, <3>1 DEF IInv, CancelsHold
    <2> QED
      BY <1>2, <2>1, <2>2 DEF CancelsHold
  <1> QED
    BY <1>9, <1>10, <1>11, <1>12, <1>13, <1>15, <1>16 DEF IInv

LEMMA CancelledStep ==
  ASSUME IInv, NEW b \in Backs, BCancelled(b)
  PROVE  IInv'
  <1>1. TypeOK /\ job \in Heap
    BY HeapType DEF IInv
  <1>2. /\ ours[b] # None /\ job' = Release(job, ours[b]) /\ ours' = [ours EXCEPT ![b] = None]
        /\ UNCHANGED <<queue, running, closing, stop, alive, eng, told, main>>
        /\ UNCHANGED <<pc, mine, flag, res, saved, gone, rounds>>
    BY DEF BCancelled, SubStep, engVars, mainVars, runVars
  <1>3. PICK j \in Jobs : j = ours[b]
    BY <1>1, <1>2 DEF TypeOK
  <1>4. job[j].refs = (IF \E s \in Submitters : mine[s] = j THEN 1 ELSE 0)
                      + (IF Has(j) THEN 1 ELSE 0) + 1
    BY <1>3 DEF IInv, RefInv
  <1>5. /\ job[j].refs >= 1 /\ (Has(j) => job[j].refs >= 2)
        /\ \A s \in Submitters : mine[s] = j => job[j].refs >= 2
    BY <1>4
  <1>6. /\ job' \in Heap /\ job'[j].refs = job[j].refs - 1
        /\ \A i \in Jobs : i # j => job'[i] = job[i]
        /\ job[j].refs >= 2 => Same(j)
    BY <1>1, <1>2, <1>3, <1>5, Released DEF Same
  <1>7. /\ ours' \in [Backs -> Jobs \cup {None}] /\ ours'[b] = None
        /\ \A c \in Backs : c # b => ours'[c] = ours[c]
    BY <1>1, <1>2 DEF TypeOK
  <1>8. \A c \in Backs : c # b => ours[c] # j
    BY <1>2, <1>3 DEF IInv, RefInv
  <1>9. \A i \in Jobs : Has(i) => Same(i)
    BY <1>5, <1>6 DEF Same
  <1>10. TypeOK'
    BY <1>1, <1>2, <1>6, <1>7 DEF TypeOK, Heap, JobType
  <1>11. RefInv'
    <2>1. \A c, e \in Backs : ours'[c] # None /\ ours'[c] = ours'[e] => c = e
      BY <1>7 DEF IInv, RefInv
    <2>2. \A c \in Backs, t \in Submitters : ours'[c] # None /\ ours'[c] = mine[t] => t = c
      BY <1>7 DEF IInv, RefInv
    <2>3. \A i \in Jobs : Has(i)' = Has(i)
      BY <1>2 DEF Has
    <2>4. ~ \E c \in Backs : ours'[c] = j
      BY <1>7, <1>8, EngineAssumption
    <2>5. ASSUME NEW i \in Jobs, i # j
          PROVE  (\E c \in Backs : ours'[c] = i) <=> (\E c \in Backs : ours[c] = i)
      BY <1>3, <1>7, <2>5, EngineAssumption
    <2>6. job'[j].refs = (IF \E t \in Submitters : mine[t] = j THEN 1 ELSE 0)
                         + (IF Has(j)' THEN 1 ELSE 0)
                         + (IF \E c \in Backs : ours'[c] = j THEN 1 ELSE 0)
      BY <1>4, <1>6, <2>3, <2>4
    <2>7. ASSUME NEW i \in Jobs, i # j
          PROVE  job'[i].refs = (IF \E t \in Submitters : mine[t] = i THEN 1 ELSE 0)
                                + (IF Has(i)' THEN 1 ELSE 0)
                                + (IF \E c \in Backs : ours'[c] = i THEN 1 ELSE 0)
      <3>1. job[i].refs = (IF \E t \in Submitters : mine[t] = i THEN 1 ELSE 0)
                          + (IF Has(i) THEN 1 ELSE 0)
                          + (IF \E c \in Backs : ours[c] = i THEN 1 ELSE 0)
        BY DEF IInv, RefInv
      <3> QED
        BY <1>6, <2>3, <2>5, <2>7, <3>1
    <2> QED
      BY <1>2, <2>1, <2>2, <2>6, <2>7 DEF IInv, RefInv
  <1>12. QueueInOrder'
    <2>1. \A i \in DOMAIN queue : queue[i] \in Jobs /\ Has(queue[i])
      BY <1>1, Queued DEF Has
    <2> QED
      BY <1>2, <1>9, <2>1 DEF IInv, QueueInOrder, Same
  <1>13. EngInv'
    <2>1. eng.j # None => eng.j \in Jobs /\ Has(eng.j)
      BY <1>1 DEF TypeOK, Has
    <2> QED
      BY <1>2, <1>9, <2>1 DEF IInv, EngInv, Same
  <1>14. PcInv'
    BY <1>2 DEF IInv, PcInv
  <1>15. ASSUME NEW t \in Submitters, pc[t] = "wait" PROVE mine[t] \in Jobs /\ Same(mine[t])
    <2>1. mine[t] \in Jobs
      BY <1>1, <1>15 DEF IInv, PcInv, TypeOK
    <2>2. CASE mine[t] = j
      BY <1>5, <1>6, <2>2
    <2>3. CASE mine[t] # j
      BY <1>6, <2>1, <2>3 DEF Same
    <2> QED
      BY <2>1, <2>2, <2>3
  <1>16. NoOrphan'
    BY <1>2, <1>15 DEF IInv, NoOrphan, Same
  <1>17. CancelsHold'
    <2>1. \A c \in Backs : gone[c] /\ pc[c] = "wait" => job'[mine[c]].cancel
      BY <1>15 DEF IInv, CancelsHold, Same, Submitters
    <2>2. ASSUME closing, NEW i \in Jobs, i \in Range(queue) \/ eng.j = i, ~job'[i].low, ~job'[i].done
          PROVE  job'[i].cancel
      BY <1>9, <2>2 DEF IInv, CancelsHold, Same, Has
    <2> QED
      BY <1>2, <2>1, <2>2 DEF CancelsHold
  <1> QED
    BY <1>10, <1>11, <1>12, <1>13, <1>14, <1>16, <1>17 DEF IInv

-----------------------------------------------------------------------------
(* Steps of a submitter that neither take a job nor let one go. *)
LEMMA UnmarkedIsMarks == TypeOK /\ job' = job => Marks
  BY HeapType DEF Marks

LEMMA PcStep ==
  ASSUME IInv, Marks, UNCHANGED <<queue, running, closing, stop, alive, eng, told, main>>,
         UNCHANGED <<mine, gone, rounds, ours>>,
         res' \in [Runs -> {"completed", "failed", "cancelled"}],
         saved' \in [Runs -> {"in_progress", "completed", "failed", "cancelled"}],
         flag' \in [Runs -> BOOLEAN],
         NEW s \in Submitters,
         NEW to \in {"idle", "leave", "exit", "tools", "adopt", "keep", "save", "lost"},
         pc' = [pc EXCEPT ![s] = to] \/ pc' = pc,
         to \in {"leave", "tools", "adopt", "keep", "lost"} <=> mine[s] # None,
         to \in {"tools", "adopt"} => s \in Backs /\ rounds[s] < MaxRounds
  PROVE  IInv'
  <1>1. TypeOK
    BY DEF IInv
  <1>2. /\ pc' \in [Submitters -> {"idle", "wait", "leave", "exit", "tools", "adopt",
                                   "keep", "save", "lost"}]
        /\ \A t \in Submitters : pc'[t] = pc[t] \/ (t = s /\ pc'[t] = to)
    <2>1. CASE pc' = pc
      BY <1>1, <2>1 DEF TypeOK
    <2>2. CASE pc' = [pc EXCEPT ![s] = to]
      BY <1>1, <2>2 DEF TypeOK
    <2> QED
      BY <2>1, <2>2
  <1>3. TypeOK'
    BY <1>1, <1>2 DEF TypeOK, Marks, Heap, JobType
  <1>4. RefInv' /\ QueueInOrder'
    BY MarksKeep
  <1>5. EngInv'
    <2>1. eng.j # None => eng.j \in Jobs
      BY <1>1 DEF TypeOK
    <2> QED
      BY <2>1 DEF IInv, EngInv, Marks
  <1>6. PcInv'
    <2>1. \A t \in Submitters :
            pc'[t] \in {"wait", "leave", "tools", "adopt", "keep", "lost"} <=> mine[t] # None
      BY <1>2 DEF IInv, PcInv
    <2>2. \A b \in Backs : pc'[b] \in {"tools", "adopt"} => rounds[b] < MaxRounds
      BY <1>2 DEF IInv, PcInv, Submitters
    <2> QED
      BY <2>1, <2>2 DEF PcInv
  <1>7. NoOrphan' /\ CancelsHold'
    <2>1. \A t \in Submitters : pc'[t] = "wait" => pc[t] = "wait"
      BY <1>2
    <2> QED
      BY <2>1, HoldKeep
  <1> QED
    BY <1>3, <1>4, <1>5, <1>6, <1>7 DEF IInv

LEMMA PcSteps ==
  ASSUME IInv
  PROVE  /\ \A c \in Clients : out_free(c) => IInv'
         /\ \A w \in Lows : WaitDone(w) \/ LExit(w) => IInv'
         /\ \A r \in Runs : RRefused(r) \/ RCancel(r) \/ RSave(r) => IInv'
         /\ \A b \in Backs : BDone(b) \/ BTools(b) \/ BKeep(b) => IInv'
  <1> USE DEF SubStep, engVars, mainVars, runVars
  <1>1. TypeOK /\ job \in Heap
    BY HeapType DEF IInv
  <1>2. ASSUME NEW c \in Clients, out_free(c) PROVE IInv'
    <2>1. c \in Submitters /\ mine[c] # None
      BY <1>2 DEF out_free, IInv, PcInv, Submitters
    <2>2. PICK j \in Jobs : j = mine[c]
      BY <1>1, <2>1 DEF TypeOK
    <2>3. job' = [job EXCEPT ![j].cancel = job[j].cancel \/ ~job[j].done]
      BY <1>2, <2>2 DEF out_free
    <2>4. Marks
      <3>1. job[j] \in JobType
        BY <1>1 DEF Heap
      <3>2. [job[j] EXCEPT !.cancel = job[j].cancel \/ ~job[j].done] \in JobType
        BY <3>1 DEF JobType
      <3>3. job' \in Heap
        BY <1>1, <2>3, <3>2 DEF Heap
      <3>4. \A i \in Jobs : i # j => job'[i] = job[i]
        BY <1>1, <2>3 DEF Heap
      <3>5. job'[j] = [job[j] EXCEPT !.cancel = job[j].cancel \/ ~job[j].done]
        BY <1>1, <2>3 DEF Heap
      <3>6. /\ job'[j].refs = job[j].refs /\ job'[j].low = job[j].low
            /\ job'[j].pos = job[j].pos /\ job'[j].done = job[j].done
            /\ job[j].cancel => job'[j].cancel
        BY <3>1, <3>5 DEF JobType
      <3> QED
        BY <3>3, <3>4, <3>6 DEF Marks
    <2>5. /\ pc' = [pc EXCEPT ![c] = "leave"]
          /\ UNCHANGED <<mine, flag, res, saved, gone, rounds, ours>>
          /\ UNCHANGED <<queue, running, closing, stop, alive, eng, told, main>>
      BY <1>2 DEF out_free
    <2> QED
      BY <1>1, <2>1, <2>4, <2>5, PcStep DEF TypeOK
  <1>3. ASSUME NEW w \in Lows, WaitDone(w) PROVE IInv'
    <2>1. w \in Submitters /\ mine[w] # None
      BY <1>3 DEF WaitDone, IInv, PcInv, Submitters
    <2>2. /\ pc' = [pc EXCEPT ![w] = "leave"] /\ job' = job
          /\ UNCHANGED <<mine, flag, res, saved, gone, rounds, ours>>
          /\ UNCHANGED <<queue, running, closing, stop, alive, eng, told, main>>
      BY <1>3 DEF WaitDone
    <2> QED
      BY <1>1, <2>1, <2>2, PcStep, UnmarkedIsMarks DEF TypeOK
  <1>4. ASSUME NEW w \in Lows, LExit(w) PROVE IInv'
    <2>1. w \in Submitters /\ mine[w] = None
      BY <1>4 DEF LExit, IInv, PcInv, Submitters
    <2>2. /\ pc' = [pc EXCEPT ![w] = "exit"] /\ job' = job
          /\ UNCHANGED <<mine, flag, res, saved, gone, rounds, ours>>
          /\ UNCHANGED <<queue, running, closing, stop, alive, eng, told, main>>
      BY <1>4 DEF LExit
    <2> QED
      BY <1>1, <2>1, <2>2, PcStep, UnmarkedIsMarks DEF TypeOK
  <1>5. ASSUME NEW r \in Runs, RRefused(r) PROVE IInv'
    <2>1. r \in Submitters /\ mine[r] = None
      BY <1>5 DEF RRefused, IInv, PcInv, Submitters
    <2>2. /\ pc' = [pc EXCEPT ![r] = "save"] /\ job' = job
          /\ flag' = [flag EXCEPT ![r] = FALSE]
          /\ saved' = [saved EXCEPT ![r] = "in_progress"]
          /\ res' = [res EXCEPT ![r] = "failed"]
          /\ UNCHANGED <<mine, gone, rounds, ours>>
          /\ UNCHANGED <<queue, running, closing, stop, alive, eng, told, main>>
      BY <1>5 DEF RRefused
    <2>3. /\ flag' \in [Runs -> BOOLEAN]
          /\ saved' \in [Runs -> {"in_progress", "completed", "failed", "cancelled"}]
          /\ res' \in [Runs -> {"completed", "failed", "cancelled"}]
      BY <1>1, <2>2 DEF TypeOK
    <2> QED
      BY <1>1, <2>1, <2>2, <2>3, PcStep, UnmarkedIsMarks
  <1>6. ASSUME NEW r \in Runs, RCancel(r) PROVE IInv'
    <2>1. r \in Submitters /\ mine[r] # None
      BY <1>6 DEF RCancel, IInv, PcInv, Submitters
    <2>2. /\ pc' = pc /\ job' = job
          /\ flag' = [flag EXCEPT ![r] = TRUE]
          /\ UNCHANGED <<mine, res, saved, gone, rounds, ours>>
          /\ UNCHANGED <<queue, running, closing, stop, alive, eng, told, main>>
      BY <1>6 DEF RCancel
    <2>3. /\ flag' \in [Runs -> BOOLEAN]
          /\ saved' \in [Runs -> {"in_progress", "completed", "failed", "cancelled"}]
          /\ res' \in [Runs -> {"completed", "failed", "cancelled"}]
      BY <1>1, <2>2 DEF TypeOK
    <2>4. "leave" \in {"leave", "tools", "adopt", "keep", "lost"} <=> mine[r] # None
      BY <2>1
    <2> QED
      BY <1>1, <2>1, <2>2, <2>3, <2>4, PcStep, UnmarkedIsMarks
  <1>7. ASSUME NEW r \in Runs, RSave(r) PROVE IInv'
    <2>1. r \in Submitters /\ mine[r] = None
      BY <1>7 DEF RSave, IInv, PcInv, Submitters
    <2>2. /\ pc' = [pc EXCEPT ![r] = "idle"] /\ job' = job
          /\ UNCHANGED <<mine, flag, res, gone, rounds, ours>>
          /\ UNCHANGED <<queue, running, closing, stop, alive, eng, told, main>>
      BY <1>7 DEF RSave
    <2>3. PICK st : saved' = [saved EXCEPT ![r] = st]
                    /\ st \in {saved[r], "cancelled", "failed", "completed"}
      BY <1>7 DEF RSave
    <2>4. saved' \in [Runs -> {"in_progress", "completed", "failed", "cancelled"}]
      BY <1>1, <2>3 DEF TypeOK
    <2> QED
      BY <1>1, <2>1, <2>2, <2>4, PcStep, UnmarkedIsMarks DEF TypeOK
  <1>8. ASSUME NEW b \in Backs, BDone(b) PROVE IInv'
    <2>1. b \in Submitters /\ mine[b] # None
      BY <1>8 DEF BDone, IInv, PcInv, Submitters
    <2>2. /\ job' = job
          /\ \/ pc' = [pc EXCEPT ![b] = "keep"]
             \/ pc' = [pc EXCEPT ![b] = "tools"] /\ rounds[b] < MaxRounds
          /\ UNCHANGED <<mine, flag, res, saved, gone, rounds, ours>>
          /\ UNCHANGED <<queue, running, closing, stop, alive, eng, told, main>>
      BY <1>8 DEF BDone
    <2>3. CASE pc' = [pc EXCEPT ![b] = "keep"]
      BY <1>1, <2>1, <2>2, <2>3, PcStep, UnmarkedIsMarks DEF TypeOK
    <2>4. CASE pc' = [pc EXCEPT ![b] = "tools"] /\ rounds[b] < MaxRounds
      BY <1>1, <2>1, <2>2, <2>4, PcStep, UnmarkedIsMarks DEF TypeOK
    <2> QED
      BY <2>2, <2>3, <2>4
  <1>9. ASSUME NEW b \in Backs, BTools(b) PROVE IInv'
    <2>1. b \in Submitters /\ mine[b] # None /\ rounds[b] < MaxRounds
      BY <1>9 DEF BTools, IInv, PcInv, Submitters
    <2>2. /\ pc' = [pc EXCEPT ![b] = "adopt"] /\ job' = job
          /\ UNCHANGED <<mine, flag, res, saved, gone, rounds, ours>>
          /\ UNCHANGED <<queue, running, closing, stop, alive, eng, told, main>>
      BY <1>9 DEF BTools
    <2> QED
      BY <1>1, <2>1, <2>2, PcStep, UnmarkedIsMarks DEF TypeOK
  <1>10. ASSUME NEW b \in Backs, BKeep(b) PROVE IInv'
    <2>1. b \in Submitters /\ mine[b] # None
      BY <1>10 DEF BKeep, IInv, PcInv, Submitters
    <2>2. /\ pc' = [pc EXCEPT ![b] = "leave"] /\ job' = job
          /\ UNCHANGED <<mine, flag, res, saved, gone, rounds, ours>>
          /\ UNCHANGED <<queue, running, closing, stop, alive, eng, told, main>>
      BY <1>10 DEF BKeep
    <2> QED
      BY <1>1, <2>1, <2>2, PcStep, UnmarkedIsMarks DEF TypeOK
  <1> QED
    BY <1>2, <1>3, <1>4, <1>5, <1>6, <1>7, <1>8, <1>9, <1>10

(* srv_responses_cancel takes a reference of its own. *)
LEMMA CancelStep ==
  ASSUME IInv, NEW b \in Backs, BCancel(b)
  PROVE  IInv'
  <1>1. TypeOK /\ job \in Heap
    BY HeapType DEF IInv
  <1>2. /\ pc[b] \in {"wait", "tools", "adopt", "keep"} /\ ours[b] = None
        /\ gone' = [gone EXCEPT ![b] = TRUE] /\ ours' = [ours EXCEPT ![b] = mine[b]]
        /\ UNCHANGED <<queue, running, closing, stop, alive, eng, told, main>>
        /\ UNCHANGED <<pc, mine, flag, res, saved, rounds>>
    BY DEF BCancel, SubStep, engVars, mainVars, runVars
  <1>3. b \in Submitters /\ mine[b] # None
    BY <1>2 DEF IInv, PcInv, Submitters
  <1>4. PICK j \in Jobs : j = mine[b]
    BY <1>3, Holder
  <1>5. j # None /\ \A c \in Backs : ours[c] # j
    BY <1>2, <1>3, <1>4 DEF IInv, RefInv
  <1>6. job[j].refs = 1 + (IF Has(j) THEN 1 ELSE 0)
    BY <1>3, <1>4, <1>5 DEF IInv, RefInv
  <1> DEFINE d == [[job[j] EXCEPT !.cancel = TRUE] EXCEPT !.refs = job[j].refs + 1]
  <1>7. /\ job' \in Heap /\ job'[j].refs = job[j].refs + 1
        /\ job'[j].low = job[j].low /\ job'[j].pos = job[j].pos
        /\ job'[j].done = job[j].done /\ job'[j].cancel
        /\ \A i \in Jobs : i # j => job'[i] = job[i]
    <2>1. job[j] \in JobType /\ job[j].refs + 1 \in 0..4
      BY <1>1, <1>6 DEF Heap
    <2> DEFINE e == [job[j] EXCEPT !.cancel = TRUE]
    <2>2. /\ e \in JobType /\ e.refs = job[j].refs /\ e.cancel /\ e.low = job[j].low
          /\ e.pos = job[j].pos /\ e.done = job[j].done
      BY <2>1 DEF JobType
    <2>3. d = [e EXCEPT !.refs = job[j].refs + 1]
      OBVIOUS
    <2> HIDE DEF e, d
    <2>4. /\ d \in JobType /\ d.refs = job[j].refs + 1 /\ d.cancel /\ d.low = job[j].low
          /\ d.pos = job[j].pos /\ d.done = job[j].done
      BY <2>1, <2>2, <2>3 DEF JobType
    <2>5. job'[j] = d /\ \A i \in Jobs : i # j => job'[i] = job[i]
      BY <1>1, <1>4 DEF BCancel, d, Heap
    <2>6. DOMAIN job' = Jobs /\ job' = [i \in DOMAIN job' |-> job'[i]]
      BY <1>1, <1>4 DEF BCancel, Heap
    <2>7. \A i \in Jobs : job'[i] \in JobType
      BY <1>1, <2>4, <2>5 DEF Heap
    <2> QED
      BY <2>4, <2>5, <2>6, <2>7 DEF Heap
  <1>8. /\ ours' \in [Backs -> Jobs \cup {None}] /\ ours'[b] = j
        /\ \A c \in Backs : c # b => ours'[c] = ours[c]
        /\ gone' \in [Backs -> BOOLEAN] /\ \A c \in Backs : c # b => gone'[c] = gone[c]
    BY <1>1, <1>2, <1>4 DEF TypeOK
  <1>9. TypeOK'
    BY <1>1, <1>2, <1>7, <1>8 DEF TypeOK, Heap, JobType
  <1>10. RefInv'
    <2>1. \A c, e \in Backs : ours'[c] # None /\ ours'[c] = ours'[e] => c = e
      BY <1>5, <1>8 DEF IInv, RefInv
    <2>2. \A c \in Backs, t \in Submitters : ours'[c] # None /\ ours'[c] = mine[t] => t = c
      <3>1. \A t \in Submitters : mine[t] = j => t = b
        BY <1>3, <1>4, <1>5 DEF IInv, RefInv
      <3> QED
        BY <1>8, <3>1 DEF IInv, RefInv
    <2>3. \A i \in Jobs : Has(i)' = Has(i)
      BY <1>2 DEF Has
    <2>4. (\E c \in Backs : ours'[c] = j) /\ (\E t \in Submitters : mine[t] = j)
      BY <1>3, <1>4, <1>8
    <2>5. ASSUME NEW i \in Jobs, i # j
          PROVE  (\E c \in Backs : ours'[c] = i) <=> (\E c \in Backs : ours[c] = i)
      BY <1>2, <1>8, <2>5, EngineAssumption
    <2>6. job'[j].refs = (IF \E t \in Submitters : mine[t] = j THEN 1 ELSE 0)
                         + (IF Has(j)' THEN 1 ELSE 0)
                         + (IF \E c \in Backs : ours'[c] = j THEN 1 ELSE 0)
      BY <1>6, <1>7, <2>3, <2>4
    <2>7. ASSUME NEW i \in Jobs, i # j
          PROVE  job'[i].refs = (IF \E t \in Submitters : mine[t] = i THEN 1 ELSE 0)
                                + (IF Has(i)' THEN 1 ELSE 0)
                                + (IF \E c \in Backs : ours'[c] = i THEN 1 ELSE 0)
      <3>1. job[i].refs = (IF \E t \in Submitters : mine[t] = i THEN 1 ELSE 0)
                          + (IF Has(i) THEN 1 ELSE 0)
                          + (IF \E c \in Backs : ours[c] = i THEN 1 ELSE 0)
        BY DEF IInv, RefInv
      <3> QED
        BY <1>7, <2>3, <2>5, <2>7, <3>1
    <2> QED
      BY <1>2, <2>1, <2>2, <2>6, <2>7 DEF IInv, RefInv
  <1>11. QueueInOrder'
    <2>1. \A i \in DOMAIN queue : queue[i] \in Jobs
      BY <1>1, Queued
    <2>2. \A i \in Jobs : job'[i].pos = job[i].pos /\ job'[i].low = job[i].low
      BY <1>7
    <2> QED
      BY <1>2, <2>1, <2>2 DEF IInv, QueueInOrder
  <1>12. EngInv'
    <2>1. eng.j # None => eng.j \in Jobs
      BY <1>1 DEF TypeOK
    <2>2. \A i \in Jobs : job'[i].done = job[i].done
      BY <1>7
    <2> QED
      BY <1>2, <2>1, <2>2 DEF IInv, EngInv
  <1>13. PcInv'
    BY <1>2 DEF IInv, PcInv
  <1>14. \A t \in Submitters : pc[t] = "wait" => mine[t] \in Jobs
    BY <1>1 DEF IInv, PcInv, TypeOK
  <1>15. \A i \in Jobs : /\ job'[i].done = job[i].done /\ job'[i].low = job[i].low
                         /\ job[i].cancel => job'[i].cancel
    BY <1>7
  <1>16. NoOrphan'
    BY <1>2, <1>14, <1>15 DEF IInv, NoOrphan
  <1>17. CancelsHold'
    <2>1. ASSUME NEW c \in Backs, gone'[c], pc[c] = "wait" PROVE job'[mine[c]].cancel
      <3>1. CASE c = b
        BY <1>4, <1>7, <3>1
      <3>2. CASE c # b
        BY <1>8, <1>14, <1>15, <2>1, <3>2 DEF IInv, CancelsHold, Submitters
      <3> QED
        BY <3>1, <3>2
    <2>2. ASSUME closing, NEW i \in Jobs, i \in Range(queue) \/ eng.j = i, ~job'[i].low, ~job'[i].done
          PROVE  job'[i].cancel
      BY <1>15, <2>2 DEF IInv, CancelsHold
    <2> QED
      BY <1>2, <2>1, <2>2 DEF CancelsHold
  <1> QED
    BY <1>9, <1>10, <1>11, <1>12, <1>13, <1>16, <1>17 DEF IInv

(* resp_adopt: the next round's job in, the one before let go. *)
LEMMA AdoptStep ==
  ASSUME IInv, NEW b \in Backs, NEW j \in Jobs,
         pc[b] = "adopt", ~gone[b], j # mine[b], Taken(FALSE),
         Enqueue(Release(job, mine[b]), j, FALSE, None),
         mine' = [mine EXCEPT ![b] = j], pc' = [pc EXCEPT ![b] = "wait"],
         rounds' = [rounds EXCEPT ![b] = rounds[b] + 1],
         UNCHANGED <<running, closing, stop, alive, eng, told, main>>,
         UNCHANGED <<flag, res, saved, gone, ours>>
  PROVE  IInv'
  <1>1. TypeOK /\ job \in Heap
    BY HeapType DEF IInv
  <1>2. b \in Submitters /\ mine[b] # None /\ rounds[b] < MaxRounds
    BY DEF IInv, PcInv, Submitters
  <1>3. PICK o \in Jobs : o = mine[b]
    BY <1>2, Holder
  <1>4. PICK h : h = Release(job, o)
    OBVIOUS
  <1>5. job[o].refs = 1 + (IF Has(o) THEN 1 ELSE 0) + (IF \E c \in Backs : ours[c] = o THEN 1 ELSE 0)
    BY <1>2, <1>3 DEF IInv, RefInv
  <1>6. job[o].refs >= 1 /\ (Has(o) => job[o].refs >= 2)
    BY <1>5
  <1>7. /\ h \in Heap /\ h[o].refs = job[o].refs - 1
        /\ \A i \in Jobs : i # o => h[i] = job[i]
        /\ job[o].refs >= 2 => /\ h[o].low = job[o].low /\ h[o].pos = job[o].pos
                               /\ h[o].done = job[o].done /\ h[o].cancel = job[o].cancel
    BY <1>1, <1>4, <1>6, Released
  <1>8. \A i \in Jobs : Has(i) \/ i # o =>
          h[i].low = job[i].low /\ h[i].done = job[i].done /\ h[i].cancel = job[i].cancel
    BY <1>6, <1>7
  <1>9. Enqueue(h, j, FALSE, None) /\ j # o
    BY <1>3, <1>4
  <1>10. job[j].refs = 0 /\ j # None
    BY <1>7, <1>9, EngineAssumption DEF Enqueue
  <1>11. \A i \in Range(queue) : h[i].low = job[i].low
    BY <1>1, <1>8, Queued DEF Has
  <1>12. /\ job' \in Heap
         /\ job'[j].refs = 2 /\ job'[j].low = FALSE
         /\ \A i \in Jobs : i # j =>
              /\ job'[i].refs = h[i].refs /\ job'[i].low = h[i].low
              /\ job'[i].done = h[i].done /\ job'[i].cancel = h[i].cancel
         /\ queue' \in Seq(Jobs) /\ Len(queue') <= MaxQueue
         /\ Range(queue') = Range(queue) \cup {j} /\ j \notin Range(queue)
         /\ QueueInOrder'
    BY <1>7, <1>9, <1>10, <1>11, Enqueued
  <1>13. /\ mine' \in [Submitters -> Jobs \cup {None}] /\ mine'[b] = j
         /\ \A t \in Submitters : t # b => mine'[t] = mine[t]
    BY <1>1, <1>2 DEF TypeOK
  <1>14. /\ pc'[b] = "wait" /\ \A t \in Submitters : t # b => pc'[t] = pc[t]
         /\ pc' \in [Submitters -> {"idle", "wait", "leave", "exit", "tools", "adopt",
                                    "keep", "save", "lost"}]
    BY <1>1, <1>2 DEF TypeOK
  <1>15. /\ rounds' \in [Backs -> 0..MaxRounds]
         /\ \A c \in Backs : c # b => rounds'[c] = rounds[c]
    BY <1>1, <1>2, EngineAssumption DEF TypeOK
  <1>16. eng.j # j /\ (\A t \in Submitters : mine[t] # j) /\ (\A c \in Backs : ours[c] # j)
    BY <1>10, Unheld DEF Has
  <1>17. \A t \in Submitters : t # b => mine[t] # o
    BY <1>2, <1>3 DEF IInv, RefInv
  <1>18. TypeOK'
    <2>1. job' \in [Jobs -> [low : BOOLEAN, watch : Runs \cup {None}, done : BOOLEAN,
                       cancel : BOOLEAN, err : Errs, started : BOOLEAN,
                       pos : 0..MaxQueue, refs : 0..4]]
      BY <1>12 DEF Heap, JobType
    <2>2. UNCHANGED <<running, closing, stop, alive, eng, told, main, flag, res, saved,
                      gone, ours>>
      OBVIOUS
    <2> QED
      BY <1>1, <1>12, <1>13, <1>14, <1>15, <2>1, <2>2 DEF TypeOK
  <1>19. RefInv'
    <2>1. \A t, v \in Submitters : mine'[t] # None /\ mine'[t] = mine'[v] => t = v
      BY <1>13, <1>16 DEF IInv, RefInv
    <2>2. \A c \in Backs, t \in Submitters : ours[c] # None /\ ours[c] = mine'[t] => t = c
      BY <1>13, <1>16 DEF IInv, RefInv
    <2>3. \A i \in Jobs : i # j => Has(i)' = Has(i)
      BY <1>12 DEF Has
    <2>4. Has(j)' /\ (\E t \in Submitters : mine'[t] = j) /\ ~(\E c \in Backs : ours[c] = j)
      BY <1>2, <1>12, <1>13, <1>16 DEF Has
    <2>5. job'[j].refs = (IF \E t \in Submitters : mine'[t] = j THEN 1 ELSE 0)
                         + (IF Has(j)' THEN 1 ELSE 0)
                         + (IF \E c \in Backs : ours[c] = j THEN 1 ELSE 0)
      BY <1>12, <2>4
    <2>6. ~ \E t \in Submitters : mine'[t] = o
      BY <1>9, <1>13, <1>17
    <2>7. job'[o].refs = (IF \E t \in Submitters : mine'[t] = o THEN 1 ELSE 0)
                         + (IF Has(o)' THEN 1 ELSE 0)
                         + (IF \E c \in Backs : ours[c] = o THEN 1 ELSE 0)
      BY <1>5, <1>7, <1>9, <1>12, <2>3, <2>6
    <2>8. ASSUME NEW i \in Jobs, i # j, i # o
          PROVE  job'[i].refs = (IF \E t \in Submitters : mine'[t] = i THEN 1 ELSE 0)
                                + (IF Has(i)' THEN 1 ELSE 0)
                                + (IF \E c \in Backs : ours[c] = i THEN 1 ELSE 0)
      <3>1. job[i].refs = (IF \E t \in Submitters : mine[t] = i THEN 1 ELSE 0)
                          + (IF Has(i) THEN 1 ELSE 0)
                          + (IF \E c \in Backs : ours[c] = i THEN 1 ELSE 0)
        BY DEF IInv, RefInv
      <3>2. (\E t \in Submitters : mine'[t] = i) <=> (\E t \in Submitters : mine[t] = i)
        BY <1>3, <1>13, <2>8
      <3> QED
        BY <1>7, <1>12, <2>3, <2>8, <3>1, <3>2
    <2> QED
      BY <2>1, <2>2, <2>5, <2>7, <2>8 DEF IInv, RefInv
  <1>20. EngInv'
    <2>1. eng.j # None => eng.j \in Jobs /\ Has(eng.j) /\ eng.j # j
      BY <1>1, <1>16 DEF TypeOK, Has
    <2>2. eng.j \notin Range(queue')
      BY <1>12, <1>16 DEF IInv, EngInv
    <2> QED
      BY <1>8, <1>12, <2>1, <2>2 DEF IInv, EngInv
  <1>21. PcInv'
    BY <1>10, <1>13, <1>14, <1>15 DEF IInv, PcInv, Submitters
  <1>22. ASSUME NEW t \in Submitters, pc'[t] = "wait", t # b
         PROVE  /\ pc[t] = "wait" /\ mine'[t] = mine[t] /\ mine[t] \in Jobs /\ mine[t] # j
                /\ job'[mine[t]].done = job[mine[t]].done
                /\ job'[mine[t]].cancel = job[mine[t]].cancel
    <2>1. pc[t] = "wait" /\ mine'[t] = mine[t]
      BY <1>13, <1>14, <1>22
    <2>2. mine[t] \in Jobs /\ mine[t] # j /\ mine[t] # o
      BY <1>1, <1>16, <1>17, <1>22, <2>1 DEF IInv, PcInv, TypeOK
    <2> QED
      BY <1>8, <1>12, <2>1, <2>2
  <1>23. NoOrphan'
    <2> SUFFICES ASSUME NEW t \in Submitters, pc'[t] = "wait", ~job'[mine'[t]].done
                 PROVE  mine'[t] \in Range(queue') \/ eng.j = mine'[t]
      BY DEF NoOrphan
    <2>1. CASE t = b
      BY <1>12, <1>13, <2>1
    <2>2. CASE t # b
      BY <1>12, <1>22, <2>2 DEF IInv, NoOrphan
    <2> QED
      BY <2>1, <2>2
  <1>24. CancelsHold'
    <2>1. ASSUME NEW c \in Backs, gone[c], pc'[c] = "wait" PROVE job'[mine'[c]].cancel
      <3>1. c # b /\ c \in Submitters
        BY <2>1 DEF Submitters
      <3> QED
        BY <1>22, <2>1, <3>1 DEF IInv, CancelsHold
    <2>2. ~closing
      BY DEF Taken
    <2> QED
      BY <2>1, <2>2 DEF CancelsHold
  <1> QED
    BY <1>12, <1>18, <1>19, <1>20, <1>21, <1>23, <1>24 DEF IInv

LEMMA AdoptSteps ==
  ASSUME IInv, NEW b \in Backs, BAdopt(b)
  PROVE  IInv'
  <1>1. /\ pc[b] = "adopt"
        /\ UNCHANGED <<running, closing, stop, alive, eng, told, main>>
        /\ UNCHANGED <<flag, res, saved, gone, ours>>
    BY DEF BAdopt, mainVars, runVars
  <1>2. b \in Submitters /\ mine[b] # None /\ TypeOK
    BY <1>1 DEF IInv, PcInv, Submitters
  <1>3. ASSUME NEW to \in {"keep", "lost"}, pc' = [pc EXCEPT ![b] = to],
               UNCHANGED <<job, queue, mine, rounds>>
        PROVE  IInv'
    BY <1>1, <1>2, <1>3, PcStep, UnmarkedIsMarks DEF TypeOK
  <1>4. ASSUME NEW j \in Jobs, ~gone[b], j # mine[b], Taken(FALSE),
               Enqueue(Release(job, mine[b]), j, FALSE, None),
               mine' = [mine EXCEPT ![b] = j], pc' = [pc EXCEPT ![b] = "wait"],
               rounds' = [rounds EXCEPT ![b] = rounds[b] + 1]
        PROVE  IInv'
    BY <1>1, <1>4, AdoptStep
  <1> QED
    BY <1>3, <1>4 DEF BAdopt


-----------------------------------------------------------------------------
(* The engine's thread. *)
EngType == [pc : {"wait", "start", "skip", "setup", "choice", "token",
                  "finish", "clear", "release", "exit"},
            j : Jobs \cup {None}, k : 0..NChoices, tok : 0..(MaxTokens - 1),
            rc : Errs]

(* A step on the job it has. *)
LEMMA EngMove ==
  ASSUME IInv, Marks, eng' \in EngType, eng'.j = eng.j, running' \in Jobs \cup {None}, EngInv',
         UNCHANGED <<queue, closing, stop, alive, told, main>>,
         UNCHANGED <<pc, mine, flag, res, saved, gone, rounds, ours>>
  PROVE  IInv'
  <1>1. TypeOK'
    <2>1. job' \in [Jobs -> [low : BOOLEAN, watch : Runs \cup {None}, done : BOOLEAN,
                       cancel : BOOLEAN, err : Errs, started : BOOLEAN,
                       pos : 0..MaxQueue, refs : 0..4]]
      BY DEF Marks, Heap, JobType
    <2>2. TypeOK
      BY DEF IInv
    <2> QED
      BY <2>1, <2>2 DEF TypeOK, EngType
  <1>2. RefInv' /\ QueueInOrder'
    BY MarksKeep
  <1>3. NoOrphan' /\ CancelsHold'
    <2>1. \A s \in Submitters : pc'[s] = "wait" => pc[s] = "wait"
      OBVIOUS
    <2>2. \A b \in Backs : gone'[b] /\ pc'[b] = "wait" => gone[b] \/ job'[mine[b]].cancel
      OBVIOUS
    <2> QED
      BY <2>1, <2>2, HoldKeep
  <1>4. PcInv'
    BY DEF IInv, PcInv
  <1> QED
    BY <1>1, <1>2, <1>3, <1>4 DEF IInv

(* The job it has, changed but for what the others rely on. *)
LEMMA EngMarks ==
  ASSUME IInv, eng.j \in Jobs, NEW r \in JobType, job' = [job EXCEPT ![eng.j] = r],
         r.refs = job[eng.j].refs, r.low = job[eng.j].low,
         job[eng.j].done => r.done, job[eng.j].cancel => r.cancel
  PROVE  Marks /\ job'[eng.j] = r
  <1>1. job \in Heap /\ eng.j \notin Range(queue)
    BY HeapType DEF IInv, EngInv
  <1>2. job' \in Heap /\ job'[eng.j] = r /\ \A i \in Jobs : i # eng.j => job'[i] = job[i]
    BY <1>1 DEF Heap
  <1> QED
    BY <1>1, <1>2 DEF Marks


LEMMA EngSteps ==
  ASSUME IInv, Exit \/ Start \/ Skip \/ Setup \/ Choice \/ Token \/ Finish \/ Clear
  PROVE  IInv'
  <1>1. /\ UNCHANGED <<queue, closing, stop, alive, told, main>>
        /\ UNCHANGED <<pc, mine, flag, res, saved, gone, rounds, ours>>
    BY DEF Exit, Start, Skip, Setup, Choice, Token, Finish, Clear, EngStep,
           subVars, runVars, mainVars
  <1>2. /\ TypeOK /\ EngInv /\ job \in Heap /\ eng \in EngType
        /\ running \in Jobs \cup {None}
    BY HeapType DEF IInv, TypeOK, EngType
  <1>3. eng.pc \notin {"wait", "exit"} => eng.j \in Jobs /\ job[eng.j] \in JobType
    BY <1>2 DEF EngInv, EngType, Heap
  <1>4. ASSUME UNCHANGED <<job, running>>, eng' \in EngType, eng'.j = eng.j,
               eng.pc \in {"setup", "choice", "token"},
               eng'.pc \in {"choice", "token", "finish"}, eng'.pc = "token" => eng'.k < NChoices
        PROVE  IInv'
    <2>1. EngInv'
      BY <1>1, <1>2, <1>4 DEF EngInv
    <2>2. Marks
      BY <1>2, <1>4, UnmarkedIsMarks
    <2> QED
      BY <1>1, <1>2, <1>4, <2>1, <2>2, EngMove
  <1>5. ASSUME NEW r \in JobType, job' = [job EXCEPT ![eng.j] = r], running' = running,
               eng' \in EngType, eng'.j = eng.j, eng.pc \in {"start", "skip", "finish"},
               \/ eng'.pc \in {"skip", "setup"}
               \/ eng'.pc = "clear" /\ r.done,
               r.refs = job[eng.j].refs, r.low = job[eng.j].low,
               job[eng.j].done => r.done, job[eng.j].cancel => r.cancel
        PROVE  IInv'
    <2>1. eng.j \in Jobs
      BY <1>3, <1>5
    <2>2. Marks /\ job'[eng.j] = r
      BY <1>5, <2>1, EngMarks
    <2>3. EngInv'
      BY <1>1, <1>2, <1>5, <2>2 DEF EngInv
    <2> QED
      BY <1>1, <1>2, <1>5, <2>2, <2>3, EngMove
  <1>6. CASE Exit
    <2>1. eng' \in EngType /\ eng'.j = eng.j /\ eng'.pc = "exit" /\ eng.pc = "wait"
      BY <1>2, <1>6 DEF Exit, EngType
    <2>2. UNCHANGED <<job, running>>
      BY <1>6 DEF Exit
    <2>3. EngInv'
      BY <1>1, <1>2, <2>1, <2>2 DEF EngInv
    <2> QED
      BY <1>1, <1>2, <2>1, <2>2, <2>3, UnmarkedIsMarks, EngMove
  <1>7. CASE Clear
    <2>1. eng' \in EngType /\ eng'.j = eng.j /\ eng'.pc = "release" /\ eng.pc = "clear"
      BY <1>2, <1>7 DEF Clear, EngType
    <2>2. job' = job /\ running' = None
      BY <1>7 DEF Clear
    <2>3. EngInv'
      BY <1>1, <1>2, <2>1, <2>2 DEF EngInv
    <2> QED
      BY <1>1, <1>2, <2>1, <2>2, <2>3, UnmarkedIsMarks, EngMove
  <1>8. CASE Start
    <2> DEFINE r == [job[eng.j] EXCEPT !.started = TRUE, !.pos = 0]
    <2>1. eng.pc = "start" /\ running' = running
      BY <1>8 DEF Start, EngStep
    <2>2. r \in JobType /\ r.refs = job[eng.j].refs /\ r.low = job[eng.j].low
          /\ r.done = job[eng.j].done /\ r.cancel = job[eng.j].cancel
      <3> DEFINE e == [job[eng.j] EXCEPT !.started = TRUE]
      <3>1. /\ e \in JobType /\ e.refs = job[eng.j].refs /\ e.low = job[eng.j].low
            /\ e.done = job[eng.j].done /\ e.cancel = job[eng.j].cancel
        BY <1>3, <2>1 DEF JobType
      <3>2. r = [e EXCEPT !.pos = 0]
        OBVIOUS
      <3> HIDE DEF e, r
      <3>3. 0 \in 0..MaxQueue
        BY EngineAssumption
      <3> QED
        BY <3>1, <3>2, <3>3 DEF JobType
    <2>3. job' = [job EXCEPT ![eng.j] = r]
      BY <1>2, <1>3, <1>8, <2>1 DEF Start, Heap
    <2>4. eng' \in EngType /\ eng'.j = eng.j /\ eng'.pc \in {"skip", "setup"}
      BY <1>2, <1>8 DEF Start, EngType
    <2> HIDE DEF r
    <2> QED
      BY <1>5, <2>1, <2>2, <2>3, <2>4
  <1>9. CASE Skip
    <2> DEFINE r == [job[eng.j] EXCEPT !.done = TRUE]
    <2>1. eng.pc = "skip" /\ running' = running
      BY <1>9 DEF Skip, EngStep
    <2>2. r \in JobType /\ r.refs = job[eng.j].refs /\ r.low = job[eng.j].low
          /\ r.done /\ r.cancel = job[eng.j].cancel
      BY <1>3, <2>1 DEF JobType
    <2>3. job' = [job EXCEPT ![eng.j] = r]
      BY <1>2, <1>3, <1>9, <2>1 DEF Skip, Heap
    <2>4. eng' \in EngType /\ eng'.j = eng.j /\ eng'.pc = "clear"
      BY <1>2, <1>9 DEF Skip, EngType
    <2> HIDE DEF r
    <2> QED
      BY <1>5, <2>1, <2>2, <2>3, <2>4
  <1>10. CASE Finish
    <2> DEFINE v == IF eng.rc = "ok" THEN job[eng.j].err ELSE eng.rc
               e == [job[eng.j] EXCEPT !.done = TRUE]
               r == [e EXCEPT !.err = v]
    <2>1. eng.pc = "finish" /\ running' = running /\ v \in Errs
      BY <1>2, <1>3, <1>10 DEF Finish, EngStep, EngType, JobType
    <2>2. e \in JobType /\ e.refs = job[eng.j].refs /\ e.low = job[eng.j].low
          /\ e.done /\ e.cancel = job[eng.j].cancel
      BY <1>3, <2>1 DEF JobType
    <2>3. job' = [job EXCEPT ![eng.j] = r]
      BY <1>2, <1>3, <1>10, <2>1 DEF Finish, Heap
    <2>4. eng' \in EngType /\ eng'.j = eng.j /\ eng'.pc = "clear"
      BY <1>2, <1>10 DEF Finish, EngType
    <2> HIDE DEF e, v
    <2>5. r \in JobType /\ r.refs = job[eng.j].refs /\ r.low = job[eng.j].low
          /\ r.done /\ r.cancel = job[eng.j].cancel
      BY <2>1, <2>2 DEF JobType
    <2> HIDE DEF r
    <2> QED
      BY <1>5, <2>1, <2>3, <2>4, <2>5
  <1>11. CASE Setup
    <2>1. /\ eng.pc = "setup" /\ UNCHANGED <<job, running>>
          /\ eng' \in EngType /\ eng'.j = eng.j /\ eng'.pc \in {"choice", "finish"}
      BY <1>2, <1>11 DEF Setup, EngStep, EngType, Errs
    <2> QED
      BY <1>4, <2>1
  <1>12. CASE Choice
    <2>1. eng.pc = "choice" /\ UNCHANGED <<job, running>>
      BY <1>12 DEF Choice, EngStep
    <2>2. CASE eng.rc # "ok" \/ eng.k = NChoices \/ stopped(eng.j)
      <3>1. eng' \in EngType /\ eng'.j = eng.j /\ eng'.pc = "finish"
        BY <1>2, <1>12, <2>2 DEF Choice, EngType
      <3> QED
        BY <1>4, <2>1, <3>1
    <2>3. CASE ~(eng.rc # "ok" \/ eng.k = NChoices \/ stopped(eng.j))
      <3>1. eng' \in EngType /\ eng'.j = eng.j /\ eng'.pc = "token" /\ eng'.k < NChoices
        <4>1. eng' = [eng EXCEPT !.pc = "token", !.tok = 0]
          BY <1>12, <2>3 DEF Choice
        <4>2. 0 \in 0..(MaxTokens - 1) /\ eng.k < NChoices /\ eng.k \in 0..NChoices
          BY <1>2, <2>3, EngineAssumption DEF EngType
        <4> QED
          BY <1>2, <4>1, <4>2 DEF EngType
      <3> QED
        BY <1>4, <2>1, <3>1
    <2> QED
      BY <2>2, <2>3
  <1>13. CASE Token
    <2>1. eng.pc = "token" /\ UNCHANGED <<job, running>>
      BY <1>13 DEF Token, EngStep
    <2>2. ASSUME NEW rc \in {"ok", "failed"},
                 eng' = [eng EXCEPT !.pc = "choice", !.k = eng.k + 1, !.tok = 0, !.rc = rc]
          PROVE  IInv'
      <3>1. 0 \in 0..(MaxTokens - 1) /\ eng.k + 1 \in 0..NChoices /\ rc \in Errs
        BY <1>2, <2>1, EngineAssumption DEF EngType, EngInv, Errs
      <3>2. eng' \in EngType /\ eng'.j = eng.j /\ eng'.pc = "choice"
        BY <1>2, <2>2, <3>1 DEF EngType
      <3> QED
        BY <1>4, <2>1, <3>2
    <2>3. ASSUME eng.tok + 1 < MaxTokens, eng' = [eng EXCEPT !.tok = eng.tok + 1]
          PROVE  IInv'
      <3>1. eng.tok + 1 \in 0..(MaxTokens - 1) /\ eng.k < NChoices
        BY <1>2, <2>1, <2>3, EngineAssumption DEF EngType, EngInv
      <3>2. eng' \in EngType /\ eng'.j = eng.j /\ eng'.pc = "token" /\ eng'.k < NChoices
        BY <1>2, <2>1, <2>3, <3>1 DEF EngType
      <3> QED
        BY <1>4, <2>1, <3>2
    <2> QED
      BY <1>13, <2>2, <2>3 DEF Token
  <1> QED
    BY <1>6, <1>7, <1>8, <1>9, <1>10, <1>11, <1>12, <1>13


(* The first of the queue taken: the others move up, and are told. *)
LEMMA TakeStep ==
  ASSUME IInv, Take
  PROVE  IInv'
  <1> DEFINE t == Tail(queue)
             j == Head(queue)
             n == Len(queue)
  <1>1. TypeOK /\ job \in Heap /\ QueueInOrder /\ eng.j = None /\ running = None
    BY HeapType DEF IInv, EngInv, Take
  <1>2. /\ queue # <<>> /\ queue' = t /\ running' = j /\ job' = number_queue(job, t)
        /\ eng' = [NoWork EXCEPT !.pc = "start", !.j = j]
        /\ UNCHANGED <<closing, stop, alive, told, main>>
        /\ UNCHANGED <<pc, mine, flag, res, saved, gone, rounds, ours>>
    BY DEF Take, subVars, runVars, mainVars
  <1>3. /\ queue \in Seq(Jobs) /\ DOMAIN queue = 1..n
        /\ \A i \in 1..n : queue[i] \in Jobs /\ queue[i] \in Range(queue)
        /\ Range(queue) \subseteq Jobs /\ n <= MaxQueue
    BY <1>1, Queued DEF TypeOK
  <1>4. /\ t \in Seq(Jobs) /\ Len(t) = n - 1 /\ n \in Nat \ {0}
        /\ \A i \in 1..Len(t) : t[i] = queue[i + 1]
        /\ j = queue[1] /\ j \in Jobs
        /\ Range(queue) = Range(t) \cup {j}
    BY <1>2, <1>3, Taken1
  <1> HIDE DEF t, j
  <1>5. \A i, k \in 1..n : queue[i] = queue[k] => i = k
    BY <1>1, <1>3 DEF QueueInOrder
  <1>6. OneEach(t) /\ j \notin Range(t) /\ Len(t) <= MaxQueue /\ DOMAIN t = 1..Len(t)
    <2>1. \A i \in 1..Len(t) : i + 1 \in 1..n /\ i + 1 # 1 /\ i \in Int
      BY <1>4
    <2>2. OneEach(t)
      <3> SUFFICES ASSUME NEW i \in 1..Len(t), NEW k \in 1..Len(t), t[i] = t[k] PROVE i = k
        BY DEF OneEach
      <3>1. i + 1 = k + 1
        BY <1>4, <1>5, <2>1
      <3> QED
        BY <2>1, <3>1
    <2>3. \A i \in 1..Len(t) : t[i] # j
      <3> SUFFICES ASSUME NEW i \in 1..Len(t) PROVE t[i] # j
        OBVIOUS
      <3>1. 1 \in 1..n /\ i + 1 \in 1..n /\ i + 1 # 1
        BY <1>4, <2>1
      <3> QED
        BY <1>4, <1>5, <3>1
    <2>4. j \notin Range(t) /\ DOMAIN t = 1..Len(t)
      BY <1>4, <2>3, InRange
    <2> QED
      BY <1>3, <1>4, <2>2, <2>4, EngineAssumption
  <1>7. /\ job' \in Heap
        /\ \A i \in 1..Len(t) : job'[t[i]].pos = i
        /\ \A i \in Jobs : /\ job'[i].refs = job[i].refs /\ job'[i].low = job[i].low
                           /\ job'[i].done = job[i].done /\ job'[i].cancel = job[i].cancel
    <2> DEFINE r == number_queue(job, t)
    <2>1. r = number_queue(job, t)
      OBVIOUS
    <2>2. job' = r
      BY <1>2
    <2> HIDE DEF r
    <2>3. /\ r \in Heap
          /\ \A i \in 1..Len(t) : r[t[i]].pos = i
          /\ \A i \in Jobs : /\ r[i].refs = job[i].refs /\ r[i].low = job[i].low
                             /\ r[i].done = job[i].done /\ r[i].cancel = job[i].cancel
      <3>1. job \in Heap /\ t \in Seq(Jobs) /\ Len(t) <= MaxQueue /\ OneEach(t)
        BY <1>1, <1>4, <1>6
      <3> QED
        BY <2>1, <3>1, Numbered
    <2> QED
      BY <2>2, <2>3
  <1>8. /\ eng' \in EngType /\ eng'.pc = "start" /\ eng'.j = j
    <2>1. 0 \in 0..(MaxTokens - 1) /\ 0 \in 0..NChoices /\ "ok" \in Errs
      BY EngineAssumption DEF Errs
    <2> QED
      BY <1>2, <1>4, <2>1 DEF NoWork, EngType
  <1>9. \A i \in Jobs : Has(i)' = Has(i)
    <2> SUFFICES ASSUME NEW i \in Jobs PROVE Has(i)' = Has(i)
      OBVIOUS
    <2>1. Has(i)' <=> i \in Range(t) \/ i = j
      BY <1>2, <1>8 DEF Has
    <2>2. Has(i) <=> i \in Range(queue)
      BY <1>1, EngineAssumption DEF Has
    <2>3. Has(i)' <=> Has(i)
      BY <1>4, <2>1, <2>2
    <2> QED
      BY <2>3 DEF Has
  <1>10. TypeOK'
    <2>1. job' \in [Jobs -> [low : BOOLEAN, watch : Runs \cup {None}, done : BOOLEAN,
                       cancel : BOOLEAN, err : Errs, started : BOOLEAN,
                       pos : 0..MaxQueue, refs : 0..4]]
      BY <1>7 DEF Heap, JobType
    <2>2. queue' \in Seq(Jobs) /\ Len(queue') <= MaxQueue /\ running' \in Jobs \cup {None}
      BY <1>2, <1>4, <1>6
    <2> QED
      BY <1>1, <1>2, <1>8, <2>1, <2>2 DEF TypeOK, EngType
  <1>11. RefInv'
    BY <1>2, <1>7, <1>9 DEF IInv, RefInv
  <1>12. QueueInOrder'
    <2>1. ASSUME NEW i \in 1..Len(t), NEW k \in 1..Len(t), i < k, job'[t[i]].low
          PROVE  job'[t[k]].low
      <3>1. i + 1 \in 1..n /\ k + 1 \in 1..n /\ i + 1 < k + 1
        BY <1>4, <2>1
      <3>2. t[i] = queue[i + 1] /\ t[k] = queue[k + 1] /\ t[i] \in Jobs /\ t[k] \in Jobs
        BY <1>3, <1>4, <3>1
      <3>3. job[queue[i + 1]].low => job[queue[k + 1]].low
        BY <1>1, <1>3, <3>1 DEF QueueInOrder
      <3> QED
        BY <1>7, <2>1, <3>2, <3>3
    <2> QED
      BY <1>2, <1>6, <1>7, <2>1 DEF QueueInOrder
  <1>13. EngInv'
    BY <1>2, <1>4, <1>6, <1>8, EngineAssumption DEF EngInv
  <1>14. PcInv'
    BY <1>2 DEF IInv, PcInv
  <1>15. \A s \in Submitters : pc[s] = "wait" => mine[s] \in Jobs
    BY DEF IInv, PcInv, TypeOK
  <1>16. NoOrphan'
    <2> SUFFICES ASSUME NEW s \in Submitters, pc[s] = "wait", NEW i \in Jobs, i = mine[s],
                        ~job'[i].done
                 PROVE  Has(i)'
      BY <1>2, <1>15 DEF NoOrphan, Has
    <2>1. Has(i)
      BY <1>7 DEF IInv, NoOrphan, Has
    <2> QED
      BY <1>9, <2>1
  <1>17. CancelsHold'
    <2>1. \A b \in Backs : gone[b] /\ pc[b] = "wait" => job'[mine[b]].cancel
      BY <1>7, <1>15 DEF IInv, CancelsHold, Submitters
    <2>2. ASSUME closing, NEW i \in Jobs, Has(i)', ~job'[i].low, ~job'[i].done
          PROVE  job'[i].cancel
      <3>1. Has(i) /\ ~job[i].low /\ ~job[i].done
        BY <1>7, <1>9, <2>2
      <3> QED
        BY <1>7, <2>2, <3>1 DEF IInv, CancelsHold, Has
    <2> QED
      BY <1>2, <2>1, <2>2 DEF CancelsHold, Has
  <1> QED
    BY <1>10, <1>11, <1>12, <1>13, <1>14, <1>16, <1>17 DEF IInv


-----------------------------------------------------------------------------
(* The main thread. *)
MainType == {"serve", "http", "runs", "lows", "join", "free", "shutdown", "over"}

LEMMA MainMove ==
  ASSUME IInv, Marks, closing' \in BOOLEAN, stop' \in BOOLEAN, alive' \in BOOLEAN,
         told' \subseteq Lows, main' \in MainType,
         UNCHANGED <<queue, running, eng>>,
         UNCHANGED <<pc, mine, flag, res, saved, gone, rounds, ours>>,
         closing' => \/ closing
                     \/ \A j \in Jobs : Has(j) /\ ~job[j].low /\ ~job[j].done => job'[j].cancel
  PROVE  IInv'
  <1>1. TypeOK'
    <2>1. job' \in [Jobs -> [low : BOOLEAN, watch : Runs \cup {None}, done : BOOLEAN,
                       cancel : BOOLEAN, err : Errs, started : BOOLEAN,
                       pos : 0..MaxQueue, refs : 0..4]]
      BY DEF Marks, Heap, JobType
    <2>2. TypeOK
      BY DEF IInv
    <2> QED
      BY <2>1, <2>2 DEF TypeOK, MainType
  <1>2. RefInv' /\ QueueInOrder'
    BY MarksKeep
  <1>3. \A s \in Submitters : pc[s] = "wait" => mine[s] \in Jobs
    BY DEF IInv, PcInv, TypeOK
  <1>4. NoOrphan'
    BY <1>3 DEF IInv, NoOrphan, Marks
  <1>5. CancelsHold'
    <2>1. \A b \in Backs : gone[b] /\ pc[b] = "wait" => job'[mine[b]].cancel
      BY <1>3 DEF IInv, CancelsHold, Marks, Submitters
    <2>2. ASSUME closing', NEW i \in Jobs, Has(i), ~job'[i].low, ~job'[i].done
          PROVE  job'[i].cancel
      <3>1. ~job[i].low /\ ~job[i].done
        BY <2>2 DEF Marks
      <3>2. CASE closing
        BY <2>2, <3>1, <3>2 DEF IInv, CancelsHold, Has, Marks
      <3>3. CASE ~closing
        BY <2>2, <3>1, <3>3
      <3> QED
        BY <3>2, <3>3
    <2> QED
      BY <2>1, <2>2 DEF CancelsHold, Has
  <1>6. PcInv'
    BY DEF IInv, PcInv
  <1>7. EngInv'
    <2>1. eng.j # None => eng.j \in Jobs
      BY DEF IInv, TypeOK
    <2> QED
      BY <2>1 DEF IInv, EngInv, Marks
  <1> QED
    BY <1>1, <1>2, <1>4, <1>5, <1>6, <1>7 DEF IInv

(* srv_engine_cancel_clients marks every client's job the engine has and
   has not ended: those in the queue, and the running one. *)
LEMMA ClosingStep ==
  ASSUME IInv, srv_engine_cancel_clients
  PROVE  IInv'
  <1>1. /\ closing' = TRUE /\ main' = "http"
        /\ UNCHANGED <<queue, running, stop, alive, eng, told>>
        /\ UNCHANGED <<pc, mine, flag, res, saved, gone, rounds, ours>>
    BY DEF srv_engine_cancel_clients, subVars, runVars
  <1>2. job' = [j \in Jobs |-> IF j \in Range(queue) \cup {running} /\ ~job[j].low
                               THEN cancel_job(job[j]) ELSE job[j]]
    BY DEF srv_engine_cancel_clients
  <1>3. TypeOK /\ job \in Heap
    BY HeapType DEF IInv
  <1>4. ASSUME NEW r \in JobType, NEW c, c = cancel_job(r)
        PROVE  /\ c \in JobType /\ c.refs = r.refs /\ c.low = r.low /\ c.pos = r.pos
               /\ c.done = r.done /\ c.cancel
    <2> DEFINE a == [r EXCEPT !.cancel = TRUE]
               v == IF r.err = "ok" THEN "stopping" ELSE r.err
    <2>1. v \in Errs
      BY DEF JobType, Errs
    <2>2. /\ a \in JobType /\ a.refs = r.refs /\ a.low = r.low /\ a.pos = r.pos
          /\ a.done = r.done /\ a.cancel /\ a.err = r.err
      BY DEF JobType
    <2>3. c = [a EXCEPT !.err = v]
      BY <1>4 DEF cancel_job, JobType
    <2> HIDE DEF a, v
    <2> QED
      BY <2>1, <2>2, <2>3 DEF JobType
  <1>5. ASSUME NEW j \in Jobs
        PROVE  /\ job'[j] \in JobType
               /\ job'[j].refs = job[j].refs /\ job'[j].low = job[j].low
               /\ job'[j].pos = job[j].pos /\ job'[j].done = job[j].done
               /\ job[j].cancel => job'[j].cancel
               /\ j \in Range(queue) \cup {running} /\ ~job[j].low => job'[j].cancel
    <2>1. job[j] \in JobType
      BY <1>3 DEF Heap
    <2>2. CASE j \in Range(queue) \cup {running} /\ ~job[j].low
      <3>1. job'[j] = cancel_job(job[j])
        BY <1>2, <2>2
      <3> QED
        BY <1>4, <2>1, <3>1
    <2>3. CASE ~(j \in Range(queue) \cup {running} /\ ~job[j].low)
      <3>1. job'[j] = job[j]
        BY <1>2, <2>3
      <3> QED
        BY <2>1, <2>3, <3>1
    <2> QED
      BY <2>2, <2>3
  <1>6. job' \in Heap
    <2>1. job' = [j \in Jobs |-> job'[j]]
      BY <1>2
    <2> QED
      BY <1>5, <2>1 DEF Heap
  <1>7. Marks
    BY <1>5, <1>6 DEF Marks
  <1>8. \A j \in Jobs : Has(j) /\ ~job[j].low /\ ~job[j].done => job'[j].cancel
    <2> SUFFICES ASSUME NEW j \in Jobs, Has(j), ~job[j].low, ~job[j].done PROVE job'[j].cancel
      OBVIOUS
    <2>1. j \in Range(queue) \/ running = j
      BY EngineAssumption DEF Has, IInv, EngInv
    <2> QED
      BY <1>5, <2>1
  <1>9. stop \in BOOLEAN /\ alive \in BOOLEAN /\ told \subseteq Lows
    BY <1>3 DEF TypeOK
  <1> QED
    BY <1>1, <1>7, <1>8, <1>9, MainMove DEF MainType

LEMMA MainSteps ==
  ASSUME IInv,
         \/ srv_http_stop \/ srv_runs_stop \/ (\E w \in Lows : StopLow(w))
         \/ srv_engine_stop \/ Free \/ srv_responses_shutdown
  PROVE  IInv'
  <1>1. TypeOK
    BY DEF IInv
  <1>2. /\ closing \in BOOLEAN /\ stop \in BOOLEAN /\ alive \in BOOLEAN
        /\ told \subseteq Lows /\ main \in MainType
    BY <1>1 DEF TypeOK, MainType
  <1>3. /\ UNCHANGED <<job, queue, running, eng, closing>>
        /\ UNCHANGED <<pc, mine, flag, res, saved, gone, rounds, ours>>
    BY DEF srv_http_stop, srv_runs_stop, StopLow, srv_engine_stop, Free,
           srv_responses_shutdown, engVars, subVars, runVars
  <1>4. /\ stop' \in BOOLEAN /\ alive' \in BOOLEAN /\ told' \subseteq Lows
        /\ main' \in MainType
    BY <1>2 DEF srv_http_stop, srv_runs_stop, StopLow, srv_engine_stop, Free,
           srv_responses_shutdown, engVars, MainType
  <1>5. Marks
    BY <1>1, <1>3, UnmarkedIsMarks
  <1> QED
    BY <1>2, <1>3, <1>4, <1>5, MainMove


(* A job left in the queue is over, and the engine's hold on it gone. *)
LEMMA EndedJob ==
  ASSUME NEW h \in Heap, NEW j \in Jobs, h[j].refs >= 1, NEW r,
         r = Release([h EXCEPT ![j].done = TRUE, ![j].err = "stopping"], j)[j]
  PROVE  /\ r \in JobType /\ r.refs = h[j].refs - 1
         /\ h[j].refs >= 2 => r.done /\ r.cancel = h[j].cancel
  <1> DEFINE a == [h[j] EXCEPT !.done = TRUE]
             x == [a EXCEPT !.err = "stopping"]
             g == [h EXCEPT ![j] = x]
  <1>1. h[j] \in JobType
    BY DEF Heap
  <1>2. a \in JobType /\ a.refs = h[j].refs /\ a.done /\ a.cancel = h[j].cancel
    BY <1>1 DEF JobType
  <1>3. [h EXCEPT ![j].done = TRUE, ![j].err = "stopping"] = g
    BY DEF Heap
  <1>4. "stopping" \in Errs
    BY DEF Errs
  <1> HIDE DEF a
  <1>5. x \in JobType /\ x.refs = h[j].refs /\ x.done /\ x.cancel = h[j].cancel
    BY <1>2, <1>4 DEF JobType
  <1> HIDE DEF x
  <1>6. g \in Heap /\ g[j] = x
    BY <1>5 DEF Heap
  <1>7. r = Release(g, j)[j]
    BY <1>3
  <1> HIDE DEF g
  <1>8. PICK f : f = Release(g, j)
    OBVIOUS
  <1>9. g[j].refs >= 1
    BY <1>5, <1>6
  <1>10. /\ f \in Heap /\ f[j].refs = g[j].refs - 1
         /\ g[j].refs >= 2 => f[j].done = g[j].done /\ f[j].cancel = g[j].cancel
    BY <1>6, <1>8, <1>9, Released
  <1>11. r = f[j] /\ f[j] \in JobType
    BY <1>7, <1>8, <1>10 DEF Heap
  <1> QED
    BY <1>5, <1>6, <1>10, <1>11

LEMMA EndStep ==
  ASSUME IInv, EndQueue
  PROVE  IInv'
  <1>1. TypeOK /\ job \in Heap /\ eng.j = None /\ running = None
    BY HeapType DEF IInv, EngInv, EndQueue
  <1>2. /\ eng.pc = "exit" /\ queue' = <<>> /\ main' = "free"
        /\ UNCHANGED <<running, closing, stop, alive, eng, told>>
        /\ UNCHANGED <<pc, mine, flag, res, saved, gone, rounds, ours>>
    BY DEF EndQueue, subVars, runVars
  <1>3. job' = [j \in Jobs |-> IF j \in Range(queue)
                  THEN Release([job EXCEPT ![j].done = TRUE, ![j].err = "stopping"], j)[j]
                  ELSE job[j]]
    BY DEF EndQueue, EndLeft
  <1>4. ASSUME NEW j \in Jobs
        PROVE  job[j].refs = (IF \E s \in Submitters : mine[s] = j THEN 1 ELSE 0)
                             + (IF j \in Range(queue) THEN 1 ELSE 0)
                             + (IF \E b \in Backs : ours[b] = j THEN 1 ELSE 0)
    <2>1. Has(j) <=> j \in Range(queue)
      BY <1>1, EngineAssumption DEF Has
    <2> QED
      BY <2>1 DEF IInv, RefInv
  <1>5. ASSUME NEW j \in Jobs
        PROVE  /\ job'[j] \in JobType
               /\ job'[j].refs = (IF \E s \in Submitters : mine[s] = j THEN 1 ELSE 0)
                                 + (IF \E b \in Backs : ours[b] = j THEN 1 ELSE 0)
               /\ \A s \in Submitters : mine[s] = j =>
                    /\ job'[j].cancel = job[j].cancel
                    /\ j \in Range(queue) => job'[j].done
                    /\ j \notin Range(queue) => job'[j].done = job[j].done
    <2>1. CASE j \in Range(queue)
      <3> DEFINE r == job'[j]
      <3>1. r = Release([job EXCEPT ![j].done = TRUE, ![j].err = "stopping"], j)[j]
        BY <1>3, <2>1
      <3>2. job[j].refs = (IF \E s \in Submitters : mine[s] = j THEN 1 ELSE 0) + 1
                           + (IF \E b \in Backs : ours[b] = j THEN 1 ELSE 0)
        BY <1>4, <2>1
      <3>3. job[j].refs >= 1 /\ \A s \in Submitters : mine[s] = j => job[j].refs >= 2
        BY <3>2
      <3> HIDE DEF r
      <3>4. /\ r \in JobType /\ r.refs = job[j].refs - 1
            /\ job[j].refs >= 2 => r.done /\ r.cancel = job[j].cancel
        BY <1>1, <3>1, <3>3, EndedJob
      <3> QED
        BY <2>1, <3>2, <3>3, <3>4 DEF r
    <2>2. CASE j \notin Range(queue)
      <3>0. job'[j] = job[j]
        BY <1>3, <2>2
      <3>1. job'[j] = job[j] /\ job[j] \in JobType
        BY <1>1, <3>0 DEF Heap
      <3>2. job[j].refs = (IF \E s \in Submitters : mine[s] = j THEN 1 ELSE 0) + 0
                           + (IF \E b \in Backs : ours[b] = j THEN 1 ELSE 0)
        BY <1>4, <2>2
      <3> QED
        BY <2>2, <3>1, <3>2
    <2> QED
      BY <2>1, <2>2
  <1>6. job' \in Heap
    <2>1. job' = [j \in Jobs |-> job'[j]]
      BY <1>3
    <2> QED
      BY <1>5, <2>1 DEF Heap
  <1>7. Range(queue') = {} /\ queue' \in Seq(Jobs) /\ Len(queue') = 0 /\ DOMAIN queue' = {}
    BY <1>2 DEF Range
  <1>8. TypeOK'
    <2>1. job' \in [Jobs -> [low : BOOLEAN, watch : Runs \cup {None}, done : BOOLEAN,
                       cancel : BOOLEAN, err : Errs, started : BOOLEAN,
                       pos : 0..MaxQueue, refs : 0..4]]
      BY <1>6 DEF Heap, JobType
    <2>2. queue' \in Seq(Jobs) /\ Len(queue') <= MaxQueue
      BY <1>7, EngineAssumption
    <2> QED
      BY <1>1, <1>2, <2>1, <2>2 DEF TypeOK
  <1>9. \A j \in Jobs : ~Has(j)'
    BY <1>1, <1>2, <1>7, EngineAssumption DEF Has
  <1>10. RefInv'
    <2>1. ASSUME NEW j \in Jobs
          PROVE  job'[j].refs = (IF \E s \in Submitters : mine[s] = j THEN 1 ELSE 0)
                                + (IF Has(j)' THEN 1 ELSE 0)
                                + (IF \E b \in Backs : ours[b] = j THEN 1 ELSE 0)
      <3>1. Has(j)' = FALSE
        BY <1>9 DEF Has
      <3> QED
        BY <1>5, <3>1
    <2> QED
      BY <1>2, <2>1 DEF IInv, RefInv
  <1>11. QueueInOrder'
    BY <1>7 DEF QueueInOrder
  <1>12. EngInv'
    BY <1>1, <1>2, <1>7 DEF EngInv
  <1>13. PcInv'
    BY <1>2 DEF IInv, PcInv
  <1>14. \A s \in Submitters : pc[s] = "wait" => mine[s] \in Jobs
    BY DEF IInv, PcInv, TypeOK
  <1>15. NoOrphan'
    <2> SUFFICES ASSUME NEW s \in Submitters, pc[s] = "wait", ~job'[mine[s]].done
                 PROVE  FALSE
      BY <1>2 DEF NoOrphan
    <2>1. mine[s] \in Jobs /\ mine[s] \notin Range(queue) /\ ~job[mine[s]].done
      BY <1>5, <1>14
    <2> QED
      BY <1>1, <2>1, EngineAssumption DEF IInv, NoOrphan
  <1>16. CancelsHold'
    <2>1. \A b \in Backs : gone[b] /\ pc[b] = "wait" => job'[mine[b]].cancel
      BY <1>5, <1>14 DEF IInv, CancelsHold, Submitters
    <2> QED
      BY <1>2, <1>9, <2>1 DEF CancelsHold, Has
  <1> QED
    BY <1>8, <1>10, <1>11, <1>12, <1>13, <1>15, <1>16 DEF IInv


-----------------------------------------------------------------------------
LEMMA Stutter == IInv /\ UNCHANGED vars => IInv'
  <1> SUFFICES ASSUME IInv, UNCHANGED vars PROVE IInv'
    OBVIOUS
  <1>1. /\ UNCHANGED <<job, queue, running, closing, stop, alive, eng, told, main>>
        /\ UNCHANGED <<pc, mine, flag, res, saved, gone, rounds, ours>>
    BY DEF vars, engVars, subVars, runVars, mainVars
  <1>2. TypeOK /\ Marks
    BY <1>1, UnmarkedIsMarks DEF IInv
  <1>3. /\ closing \in BOOLEAN /\ stop \in BOOLEAN /\ alive \in BOOLEAN
        /\ told \subseteq Lows /\ main \in MainType
    BY <1>2 DEF TypeOK, MainType
  <1> QED
    BY <1>1, <1>2, <1>3, MainMove

LEMMA Started == Init => IInv
  <1> SUFFICES ASSUME Init PROVE IInv
    OBVIOUS
  <1>1. Range(queue) = {} /\ queue \in Seq(Jobs) /\ Len(queue) = 0 /\ DOMAIN queue = {}
    BY DEF Init, Range
  <1>2. eng \in EngType /\ eng.pc = "wait" /\ eng.j = None
    <2>1. 0 \in 0..(MaxTokens - 1) /\ 0 \in 0..NChoices /\ "ok" \in Errs
      BY EngineAssumption DEF Errs
    <2> QED
      BY <2>1 DEF Init, NoWork, EngType
  <1>3. job \in Heap /\ \A j \in Jobs : job[j].refs = 0
    BY NoJobType DEF Init, Heap
  <1>4. TypeOK
    <2>1. job \in [Jobs -> [low : BOOLEAN, watch : Runs \cup {None}, done : BOOLEAN,
                       cancel : BOOLEAN, err : Errs, started : BOOLEAN,
                       pos : 0..MaxQueue, refs : 0..4]]
      BY <1>3 DEF Heap, JobType
    <2>2. Len(queue) <= MaxQueue /\ 0 \in 0..MaxRounds
      BY <1>1, EngineAssumption
    <2> QED
      BY <1>1, <1>2, <2>1, <2>2 DEF Init, TypeOK, EngType
  <1>5. RefInv
    <2>1. \A s \in Submitters : mine[s] = None
      BY DEF Init
    <2>2. \A b \in Backs : ours[b] = None
      BY DEF Init
    <2>3. ASSUME NEW j \in Jobs
          PROVE  /\ ~Has(j) /\ ~(\E s \in Submitters : mine[s] = j)
                 /\ ~(\E b \in Backs : ours[b] = j)
      BY <1>1, <1>2, <2>1, <2>2, EngineAssumption DEF Has
    <2> QED
      BY <1>3, <2>1, <2>2, <2>3 DEF RefInv
  <1>6. QueueInOrder
    BY <1>1 DEF QueueInOrder
  <1>7. EngInv
    BY <1>1, <1>2 DEF EngInv, Init
  <1>8. PcInv /\ NoOrphan /\ CancelsHold
    <2>1. \A s \in Submitters : pc[s] = "idle" /\ mine[s] = None
      BY DEF Init
    <2>2. \A b \in Backs : b \in Submitters
      BY DEF Submitters
    <2>3. ~closing
      BY DEF Init
    <2> QED
      BY <2>1, <2>2, <2>3 DEF PcInv, NoOrphan, CancelsHold
  <1> QED
    BY <1>4, <1>5, <1>6, <1>7, <1>8 DEF IInv

LEMMA Step == IInv /\ [Next]_vars => IInv'
  <1> SUFFICES ASSUME IInv, [Next]_vars PROVE IInv'
    OBVIOUS
  <1>1. CASE Engine
    BY <1>1, TakeStep, EngSteps, DropStep DEF Engine
  <1>2. CASE Main
    BY <1>2, ClosingStep, MainSteps, EndStep DEF Main
  <1>3. ASSUME NEW c \in Clients, Client(c) PROVE IInv'
    BY <1>3, SubmitSteps, PcSteps, LeaveSteps DEF Client, Submitters
  <1>4. ASSUME NEW w \in Lows, Low(w) PROVE IInv'
    BY <1>4, SubmitSteps, PcSteps, LeaveSteps DEF Low, Submitters
  <1>5. ASSUME NEW r \in Runs, Run(r) PROVE IInv'
    BY <1>5, SubmitSteps, PcSteps, LeaveSteps DEF Run
  <1>6. ASSUME NEW b \in Backs, Back(b) PROVE IInv'
    BY <1>6, SubmitSteps, PcSteps, LeaveSteps, CancelStep, CancelledStep, AdoptSteps
       DEF Back, Submitters
  <1>7. CASE UNCHANGED vars
    BY <1>7, Stutter
  <1> QED
    BY <1>1, <1>2, <1>3, <1>4, <1>5, <1>6, <1>7 DEF Next

LEMMA Invariance == Spec => []IInv
  BY Started, Step, PTL DEF Spec

(* The set of the holders of one kind is empty or a singleton. *)
LEMMA CountOne ==
  ASSUME NEW S, \A x, y \in S : x = y
  PROVE  Cardinality(S) = IF S = {} THEN 0 ELSE 1
  <1>1. CASE S = {}
    BY <1>1, FS_EmptySet
  <1>2. CASE S # {}
    <2>1. PICK x \in S : TRUE
      BY <1>2
    <2>2. S = {x}
      BY <2>1
    <2> QED
      BY <1>2, <2>2, FS_Singleton
  <1> QED
    BY <1>1, <1>2

LEMMA InvRefs == IInv => RefsExact
  <1> SUFFICES ASSUME IInv, NEW j \in Jobs PROVE job[j].refs = Holders(j)
    BY DEF RefsExact
  <1> DEFINE M == {s \in Submitters : mine[s] = j}
             O == {b \in Backs : ours[b] = j}
  <1>1. j # None
    BY EngineAssumption
  <1>2. Cardinality(M) = IF M = {} THEN 0 ELSE 1
    <2>1. \A x, y \in M : x = y
      BY <1>1 DEF IInv, RefInv
    <2> HIDE DEF M
    <2> QED
      BY <2>1, CountOne
  <1>3. Cardinality(O) = IF O = {} THEN 0 ELSE 1
    <2>1. \A x, y \in O : x = y
      BY <1>1 DEF IInv, RefInv
    <2> HIDE DEF O
    <2> QED
      BY <2>1, CountOne
  <1>4. /\ M # {} <=> \E s \in Submitters : mine[s] = j
        /\ O # {} <=> \E b \in Backs : ours[b] = j
    OBVIOUS
  <1>5. job[j].refs = (IF \E s \in Submitters : mine[s] = j THEN 1 ELSE 0)
                      + (IF Has(j) THEN 1 ELSE 0)
                      + (IF \E b \in Backs : ours[b] = j THEN 1 ELSE 0)
    BY DEF IInv, RefInv
  <1>6. Holders(j) = Cardinality(M) + (IF Has(j) THEN 1 ELSE 0) + Cardinality(O)
    BY DEF Holders, Has
  <1> HIDE DEF M, O
  <1> QED
    BY <1>2, <1>3, <1>4, <1>5, <1>6


-----------------------------------------------------------------------------
(* The action of NoOvertaking. *)
KeepsOrder ==
  \A a \in Range(queue), b \in Range(queue') :
    (a \in Range(queue') /\ job[a].low = job'[b].low /\ a # b
       /\ (b \in Range(queue) => Before(queue, a, b)))
    => Before(queue', a, b)

LEMMA SubmitKeepsOrder ==
  ASSUME IInv, NEW h \in Heap, NEW j \in Jobs, NEW low \in BOOLEAN,
         NEW watch \in Runs \cup {None},
         Taken(low), Enqueue(h, j, low, watch), job[j].refs = 0,
         \A i \in Range(queue) : h[i].low = job[i].low
  PROVE  KeepsOrder
  <1>1. /\ job'[j].low = low /\ Range(queue') = Range(queue) \cup {j} /\ j \notin Range(queue)
        /\ \A a, b : Before(queue, a, b) => Before(queue', a, b)
        /\ \A a \in Range(queue) : job[a].low = low => Before(queue', a, j)
    BY Enqueued
  <1> QED
    BY <1>1 DEF KeepsOrder

LEMMA TakeKeepsOrder ==
  ASSUME IInv, Take
  PROVE  KeepsOrder
  <1> DEFINE t == Tail(queue)
             n == Len(queue)
  <1>1. queue # <<>> /\ queue' = t /\ TypeOK
    BY DEF Take, IInv
  <1>2. queue \in Seq(Jobs) /\ DOMAIN queue = 1..n
    BY <1>1, Queued
  <1>3. /\ t \in Seq(Jobs) /\ Len(t) = n - 1 /\ n \in Nat \ {0}
        /\ \A i \in 1..Len(t) : t[i] = queue[i + 1]
        /\ Range(queue) = Range(t) \cup {Head(queue)}
    BY <1>1, <1>2, Taken1
  <1> HIDE DEF t
  <1>4. DOMAIN t = 1..Len(t) /\ \A x \in Range(t) : \E i \in 1..Len(t) : t[i] = x
    BY <1>3, InRange
  <1>5. \A i, k \in 1..n : queue[i] = queue[k] => i = k
    BY <1>2 DEF IInv, QueueInOrder
  <1> SUFFICES ASSUME NEW a \in Range(t), NEW b \in Range(t), Before(queue, a, b)
               PROVE  Before(t, a, b)
    BY <1>1, <1>3 DEF KeepsOrder
  <1>6. PICK i \in 1..n, k \in 1..n : i < k /\ queue[i] = a /\ queue[k] = b
    BY <1>2 DEF Before
  <1>7. PICK x \in 1..Len(t), y \in 1..Len(t) : t[x] = a /\ t[y] = b
    BY <1>4
  <1>8. /\ x + 1 \in 1..n /\ y + 1 \in 1..n
        /\ queue[x + 1] = a /\ queue[y + 1] = b
    BY <1>3, <1>7
  <1>9. x + 1 = i /\ y + 1 = k
    BY <1>5, <1>6, <1>8
  <1>10. x < y
    BY <1>6, <1>9
  <1> QED
    BY <1>4, <1>7, <1>10 DEF Before

LEMMA AdoptKeepsOrder ==
  ASSUME IInv, NEW b \in Backs, BAdopt(b)
  PROVE  KeepsOrder \/ queue' = queue
  <1> SUFFICES ASSUME NEW j \in Jobs, j # mine[b], Taken(FALSE), pc[b] = "adopt",
                      Enqueue(Release(job, mine[b]), j, FALSE, None)
               PROVE  KeepsOrder
    BY DEF BAdopt
  <1>1. TypeOK /\ job \in Heap
    BY HeapType DEF IInv
  <1>2. b \in Submitters /\ mine[b] # None
    BY DEF IInv, PcInv, Submitters
  <1>3. PICK o \in Jobs : o = mine[b]
    BY <1>2, Holder
  <1>4. PICK h : h = Release(job, o)
    OBVIOUS
  <1>5. job[o].refs = 1 + (IF Has(o) THEN 1 ELSE 0) + (IF \E c \in Backs : ours[c] = o THEN 1 ELSE 0)
    BY <1>2, <1>3 DEF IInv, RefInv
  <1>6. job[o].refs >= 1 /\ (Has(o) => job[o].refs >= 2)
    BY <1>5
  <1>7. /\ h \in Heap
        /\ \A i \in Jobs : i # o => h[i] = job[i]
        /\ job[o].refs >= 2 => h[o].low = job[o].low
    BY <1>1, <1>4, <1>6, Released
  <1>8. Enqueue(h, j, FALSE, None) /\ j # o
    BY <1>3, <1>4
  <1>9. job[j].refs = 0
    BY <1>7, <1>8 DEF Enqueue
  <1>10. \A i \in Range(queue) : h[i].low = job[i].low
    BY <1>1, <1>6, <1>7, Queued DEF Has
  <1> QED
    BY <1>7, <1>8, <1>9, <1>10, SubmitKeepsOrder

LEMMA OrderStep == IInv /\ [Next]_vars => [KeepsOrder]_queue
  <1> SUFFICES ASSUME IInv, [Next]_vars, queue' # queue PROVE KeepsOrder
    OBVIOUS
  <1>1. ASSUME NEW s, NEW j \in Jobs, NEW low \in BOOLEAN, NEW watch \in Runs \cup {None},
               Submit(s, j, low, watch, "wait")
        PROVE  KeepsOrder
    <2>1. Taken(low) /\ Enqueue(job, j, low, watch) /\ job[j].refs = 0
      BY <1>1 DEF Submit, Enqueue
    <2>2. job \in Heap
      BY HeapType DEF IInv
    <2>3. \A i \in Range(queue) : job[i].low = job[i].low
      OBVIOUS
    <2> QED
      BY <2>1, <2>2, <2>3, SubmitKeepsOrder
  <1>2. CASE Engine
    <2>1. Take
      BY <1>2 DEF Engine, Exit, Start, Skip, Setup, Choice, Token, Finish, Clear, Drop, EngStep
    <2> QED
      BY <2>1, TakeKeepsOrder
  <1>3. CASE Main
    <2>1. EndQueue
      BY <1>3 DEF Main, srv_engine_cancel_clients, srv_http_stop, srv_runs_stop, StopLow,
                  srv_engine_stop, Free, srv_responses_shutdown, engVars
    <2>2. Range(queue') = {}
      BY <2>1 DEF EndQueue, Range
    <2> QED
      BY <2>2 DEF KeepsOrder
  <1>4. ASSUME NEW c \in Clients, Client(c) PROVE KeepsOrder
    <2>1. CSubmit(c)
      BY <1>4 DEF Client, out_free, Leave, SubStep, engVars
    <2> QED
      BY <1>1, <2>1 DEF CSubmit
  <1>5. ASSUME NEW w \in Lows, Low(w) PROVE KeepsOrder
    <2>1. LSubmit(w)
      BY <1>5 DEF Low, WaitDone, Leave, LExit, SubStep, engVars
    <2> QED
      BY <1>1, <2>1 DEF LSubmit
  <1>6. ASSUME NEW r \in Runs, Run(r) PROVE KeepsOrder
    <2>1. RSubmit(r)
      BY <1>6 DEF Run, RRefused, RCancel, RDone, RSave, SubStep, engVars
    <2> QED
      BY <1>1, <2>1 DEF RSubmit
  <1>7. ASSUME NEW b \in Backs, Back(b) PROVE KeepsOrder
    <2>1. BSubmit(b) \/ BAdopt(b)
      BY <1>7 DEF Back, BDone, BTools, BKeep, Leave, BCancel, BCancelled, SubStep, engVars
    <2>2. CASE BSubmit(b)
      BY <1>1, <2>2 DEF BSubmit
    <2> QED
      BY <2>1, <2>2, AdoptKeepsOrder
  <1>8. ~UNCHANGED vars
    BY DEF vars, engVars
  <1> QED
    BY <1>2, <1>3, <1>4, <1>5, <1>6, <1>7, <1>8 DEF Next

-----------------------------------------------------------------------------
(* The types: the queue is within e->max_queue, and no count of references
   leaves its range, through every interleaving and the whole shutdown. *)
THEOREM TypeCorrect == Spec => []TypeOK
  <1>1. IInv => TypeOK
    BY DEF IInv
  <1> QED
    BY <1>1, Invariance, PTL

(* A job's refs counts exactly the threads that will still use it: it is
   freed after the last of them, and under none. *)
THEOREM RefsAreExact == Spec => []RefsExact
  BY Invariance, InvRefs, PTL

(* The clients' requests stand before the batches', and each job that waits
   knows its place. *)
THEOREM QueueKeepsOrder == Spec => []QueueInOrder
  <1>1. IInv => QueueInOrder
    BY DEF IInv
  <1> QED
    BY <1>1, Invariance, PTL

(* Nobody waits for a job that the engine lost without ending it. *)
THEOREM NobodyOrphaned == Spec => []NoOrphan
  <1>1. IInv => NoOrphan
    BY DEF IInv
  <1> QED
    BY <1>1, Invariance, PTL

(* Once the server is closing every client's job the engine has is cancelled
   or over, and no round follows a response's cancel. *)
THEOREM CancelsAreKept == Spec => []CancelsHold
  <1>1. IInv => CancelsHold
    BY DEF IInv
  <1> QED
    BY <1>1, Invariance, PTL

(* No step lets a request overtake one of its own kind. *)
THEOREM NobodyOvertakes == Spec => NoOvertaking
  <1>1. NoOvertaking <=> [][KeepsOrder]_queue
    BY PTL DEF NoOvertaking, KeepsOrder
  <1>2. Spec => []IInv
    BY Invariance
  <1>3. Spec => [][Next]_vars
    BY PTL DEF Spec
  <1> QED
    BY <1>1, <1>2, <1>3, OrderStep, PTL

=============================================================================
