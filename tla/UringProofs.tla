---------------------------- MODULE UringProofs -----------------------------
(***************************************************************************)
(* Proofs about Uring, for every size of the ring, every size of the reads *)
(* and any number of batches, short reads and interruptions: the types,    *)
(* that a wait that returns leaves no read of its batch behind, and that   *)
(* the ring implements AsyncReads.                                         *)
(*                                                                         *)
(* The inductive invariant is the bookkeeping the code keeps in two        *)
(* counts: every read that has not ended is in exactly one place (the      *)
(* submission queue, the kernel's hands or the completion queue), pending  *)
(* is how many there are, and to_submit the length of the queue.           *)
(***************************************************************************)
EXTENDS Uring, FiniteSetTheorems, SequenceTheorems, TLAPS

Waiting == {"wait", "events", "reap"}

(* The reads of the batch that have not ended. *)
OpenReads == {i \in Slots : i < n_req /\ i \notin bad /\ req[i].done < req[i].bytes}

(* Where a read is. *)
InSq(i) == \E x \in 1 .. Len(sq) : sq[x] = i
InCq(i) == \E x \in 1 .. Len(cq) : cq[x].slot = i
InKernel(i) == \E k \in kernel : k.slot = i

(* Every open read is in one place, once, and nothing else is anywhere. *)
PlaceInv ==
  /\ \A x, y \in 1 .. Len(sq) : sq[x] = sq[y] => x = y
  /\ \A x, y \in 1 .. Len(cq) : cq[x].slot = cq[y].slot => x = y
  /\ \A k, l \in kernel : k.slot = l.slot => k = l
  /\ \A i \in Slots : /\ ~(InSq(i) /\ InCq(i))
                      /\ ~(InSq(i) /\ InKernel(i))
                      /\ ~(InCq(i) /\ InKernel(i))
                      /\ i \in OpenReads <=> InSq(i) \/ InCq(i) \/ InKernel(i)

(* The two counts of struct janas_uring. *)
CountInv ==
  /\ to_submit = Len(sq)
  /\ pending = Cardinality(OpenReads)

(* No read is ever given more than it asked for, and none that failed is
   forgotten by the wait's result. *)
ReadInv ==
  /\ \A i \in Slots : i < n_req => req[i].done <= req[i].bytes
  /\ \A x \in 1 .. Len(cq) :
        cq[x].res <= req[cq[x].slot].bytes - req[cq[x].slot].done
  /\ bad \subseteq {i \in Slots : i < n_req}
  /\ rc = -1 <=> bad # {}

(* Where the thread is. *)
ThreadInv ==
  /\ pc \notin Waiting => rc = 0
  /\ pc = "reap" => unseen <= Len(cq)
  /\ pc # "reap" => unseen = 0
  /\ pc \in Waiting => batches < MaxBatches

IInv ==
  /\ TypeOK
  /\ ThreadInv
  /\ pc # "broken" => PlaceInv /\ CountInv /\ ReadInv

-----------------------------------------------------------------------------
(* What the steps do to the two queues, by position. *)
LEMMA TakeQueue ==
  ASSUME TypeOK, NEW n \in Nat, n <= Len(sq)
  PROVE  LET rest == SubSeq(sq, n + 1, Len(sq))
         IN /\ rest \in Seq(Slots)
            /\ Len(rest) = Len(sq) - n
            /\ \A x \in 1 .. Len(rest) : rest[x] = sq[x + n]
  <1>1. Len(sq) \in Nat /\ \A x \in 1 .. Len(sq) : sq[x] \in Slots
    BY LenProperties, ElementOfSeq DEF TypeOK
  <1>2. n + 1 \in Int /\ Len(sq) \in Int /\ \A x \in n + 1 .. Len(sq) : sq[x] \in Slots
    BY <1>1
  <1> QED
    BY <1>1, <1>2, SubSeqProperties

LEMMA HeadOfCq ==
  ASSUME TypeOK, cq # <<>>
  PROVE  /\ Head(cq) = cq[1] /\ Len(cq) \in Nat /\ Len(cq) >= 1
         /\ cq[1].slot \in Slots /\ cq[1].res \in Int
         /\ Tail(cq) \in Seq([slot : Slots, res : Int])
         /\ Len(Tail(cq)) = Len(cq) - 1
         /\ \A x \in 1 .. Len(Tail(cq)) : Tail(cq)[x] = cq[x + 1]
  <1>1. cq \in Seq([slot : Slots, res : Int])
    BY DEF TypeOK
  <1>2. Len(cq) \in Nat \ {0}
    BY <1>1, EmptySeq
  <1>3. cq[1] \in [slot : Slots, res : Int]
    <2>1. 1 \in 1 .. Len(cq)
      BY <1>2
    <2> QED
      BY <1>1, <2>1, ElementOfSeq
  <1>4. Head(cq) = cq[1]
    BY <1>1 DEF Head
  <1>5. /\ Tail(cq) \in Seq([slot : Slots, res : Int])
        /\ Len(Tail(cq)) = Len(cq) - 1
        /\ \A x \in 1 .. Len(Tail(cq)) : Tail(cq)[x] = cq[x + 1]
    BY <1>1, HeadTailProperties
  <1> QED
    BY <1>2, <1>3, <1>4, <1>5

LEMMA AppendSq ==
  ASSUME TypeOK, NEW i \in Slots
  PROVE  /\ Append(sq, i) \in Seq(Slots)
         /\ Len(Append(sq, i)) = Len(sq) + 1 /\ Len(sq) \in Nat
         /\ \A x \in 1 .. Len(sq) : Append(sq, i)[x] = sq[x]
         /\ Append(sq, i)[Len(sq) + 1] = i
  BY AppendProperties, LenProperties DEF TypeOK

LEMMA AppendCq ==
  ASSUME TypeOK, NEW c \in [slot : Slots, res : Int]
  PROVE  /\ Append(cq, c) \in Seq([slot : Slots, res : Int])
         /\ Len(Append(cq, c)) = Len(cq) + 1 /\ Len(cq) \in Nat
         /\ \A x \in 1 .. Len(cq) : Append(cq, c)[x] = cq[x]
         /\ Append(cq, c)[Len(cq) + 1] = c
  BY AppendProperties, LenProperties DEF TypeOK

(* The kernel publishes one completion, of no more than the read misses. *)
LEMMA CompleteAdds ==
  ASSUME TypeOK, NEW k \in kernel, Complete(k)
  PROVE  /\ \E c \in [slot : Slots, res : Int] :
              /\ c.slot = k.slot
              /\ c.res > 0 => c.res <= req[k.slot].bytes - req[k.slot].done
              /\ cq' = Append(cq, c)
         /\ hiccups' \in 0 .. MaxHiccups
  <1> DEFINE left == req[k.slot].bytes - req[k.slot].done
             C(res) == [slot |-> k.slot, res |-> res]
  <1>1. k.slot \in Slots /\ left \in Int
    BY DEF TypeOK
  <1>2. \/ \E res \in 1 .. left : cq' = Append(cq, C(res)) /\ MaybeHiccup(res < left)
        \/ cq' = Append(cq, C(-EAGAIN)) /\ Hiccup
        \/ \E res \in {0, -EIO} : cq' = Append(cq, C(res)) /\ UNCHANGED hiccups
    BY DEF Complete
  <1>3. PICK res \in Int : (res > 0 => res <= left) /\ cq' = Append(cq, C(res))
    BY <1>1, <1>2 DEF EAGAIN, EIO
  <1>4. hiccups' \in 0 .. MaxHiccups
    <2>1. hiccups \in 0 .. MaxHiccups /\ MaxHiccups \in Nat
      BY UringAssumption DEF TypeOK
    <2>2. UNCHANGED hiccups \/ Hiccup
      BY <1>2 DEF MaybeHiccup
    <2> QED
      BY <2>1, <2>2 DEF Hiccup
  <1>5. /\ C(res) \in [slot : Slots, res : Int]
        /\ C(res).slot = k.slot /\ C(res).res = res
    BY <1>1
  <1> QED
    BY <1>3, <1>4, <1>5

LEMMA Lengths ==
  ASSUME TypeOK
  PROVE  Len(sq) \in Nat /\ Len(cq) \in Nat
         /\ (\A x \in 1 .. Len(sq) : sq[x] \in Slots)
         /\ (\A x \in 1 .. Len(cq) : cq[x].slot \in Slots /\ cq[x].res \in Int)
  <1>1. Len(sq) \in Nat /\ Len(cq) \in Nat /\ \A x \in 1 .. Len(sq) : sq[x] \in Slots
    BY LenProperties, ElementOfSeq DEF TypeOK
  <1>2. \A x \in 1 .. Len(cq) : cq[x] \in [slot : Slots, res : Int]
    BY ElementOfSeq DEF TypeOK
  <1> QED
    BY <1>1, <1>2

(* The open reads are finitely many. *)
LEMMA OpenFinite ==
  ASSUME NEW S \in SUBSET Slots
  PROVE  IsFiniteSet(S) /\ Cardinality(S) \in Nat /\ (Cardinality(S) = 0 <=> S = {})
  <1>1. 0 \in Int /\ Entries - 1 \in Int
    BY UringAssumption
  <1>2. IsFiniteSet(Slots)
    BY <1>1, FS_Interval DEF Slots
  <1> QED
    BY <1>2, FS_Subset, FS_CardinalityType, FS_EmptySet

(* With nothing open, nothing of the batch is anywhere. *)
LEMMA NothingLeft ==
  ASSUME TypeOK, PlaceInv, OpenReads = {}
  PROVE  sq = <<>> /\ cq = <<>> /\ kernel = {}
  <1>1. ASSUME sq # <<>> PROVE FALSE
    <2>1. Len(sq) \in Nat \ {0}
      BY <1>1, EmptySeq DEF TypeOK
    <2>2. sq[1] \in Slots /\ InSq(sq[1])
      BY <2>1, Lengths DEF InSq
    <2> QED
      BY <2>2 DEF PlaceInv
  <1>2. ASSUME cq # <<>> PROVE FALSE
    <2>1. cq[1].slot \in Slots /\ InCq(cq[1].slot)
      BY <1>2, HeadOfCq DEF InCq
    <2> QED
      BY <2>1 DEF PlaceInv
  <1>3. ASSUME NEW k \in kernel PROVE FALSE
    <2>1. k.slot \in Slots /\ InKernel(k.slot)
      BY DEF InKernel, TypeOK
    <2> QED
      BY <2>1 DEF PlaceInv
  <1> QED
    BY <1>1, <1>2, <1>3

-----------------------------------------------------------------------------
(* Initially. *)
LEMMA InitInv == Init => IInv
  <1> SUFFICES ASSUME Init PROVE IInv
    OBVIOUS
  <1>1. TypeOK
    BY UringAssumption, EmptySeq DEF Init, TypeOK
  <1>2. ThreadInv
    BY <1>1, UringAssumption DEF Init, ThreadInv, Waiting
  <1>3. OpenReads = {} /\ Len(sq) = 0 /\ Len(cq) = 0
    BY EmptySeq DEF Init, OpenReads, Slots
  <1>4. PlaceInv
    BY <1>3 DEF Init, PlaceInv, InSq, InCq, InKernel
  <1>5. CountInv /\ ReadInv
    BY <1>3, FS_EmptySet DEF Init, CountInv, ReadInv, Slots
  <1> QED
    BY <1>1, <1>2, <1>4, <1>5 DEF IInv

-----------------------------------------------------------------------------
(* Each step keeps the types. *)
LEMMA TypeStep == IInv /\ [Next]_vars => TypeOK'
  <1> SUFFICES ASSUME IInv, [Next]_vars PROVE TypeOK'
    OBVIOUS
  <1> USE DEF ring
  <1>0. TypeOK /\ ThreadInv
    BY DEF IInv
  <1>1. ASSUME NEW bytes \in Sizes, Read(bytes) PROVE TypeOK'
    <2>1. n_req \in Slots /\ bytes \in Nat
      BY <1>0, <1>1, UringAssumption DEF Read, TypeOK, Slots
    <2>2. sq' \in Seq(Slots)
      BY <1>0, <1>1, <2>1, AppendSq DEF Read
    <2>3. req' \in [Slots -> [bytes : Nat, done : Nat]]
      BY <1>0, <1>1, <2>1 DEF Read, TypeOK
    <2>4. n_req' \in 0 .. Entries /\ pending' \in Nat /\ to_submit' \in Nat
      BY <1>0, <1>1, UringAssumption DEF Read, TypeOK
    <2> QED
      BY <1>0, <1>1, <2>2, <2>3, <2>4 DEF Read, TypeOK
  <1>2. ASSUME NEW n \in 0 .. to_submit, Take(n)
        PROVE  /\ kernel' \subseteq [slot : Slots, of : Nat]
               /\ sq' \in Seq(Slots)
               /\ to_submit' \in Nat
    <2>1. n \in Nat /\ n <= Len(sq) /\ batches \in Nat
      BY <1>0, <1>2, UringAssumption DEF Take, TypeOK
    <2>2. sq' \in Seq(Slots)
      BY <1>0, <1>2, <2>1, TakeQueue DEF Take
    <2>3. \A i \in 1 .. n : sq[i] \in Slots
      BY <1>0, <2>1, Lengths
    <2>4. {[slot |-> sq[i], of |-> batches] : i \in 1 .. n} \subseteq [slot : Slots, of : Nat]
      BY <2>1, <2>3
    <2>5. kernel' \subseteq [slot : Slots, of : Nat]
      BY <1>0, <1>2, <2>4 DEF Take, TypeOK
    <2>6. to_submit' \in Nat
      BY <1>0, <1>2, <2>1 DEF Take, TypeOK
    <2> QED
      BY <2>2, <2>5, <2>6
  <1>3. CASE SubmitEnter
    <2>1. CASE \E n \in 1 .. to_submit : Take(n) /\ MaybeHiccup(n < to_submit)
      <3>1. PICK n \in 0 .. to_submit : Take(n) /\ MaybeHiccup(n < to_submit)
        BY <2>1, <1>0 DEF TypeOK
      <3>2. hiccups' \in 0 .. MaxHiccups
        BY <3>1, <1>0, UringAssumption DEF MaybeHiccup, Hiccup, TypeOK
      <3>3. pc' \in {"ready", "submit"}
        BY <1>3, <1>0 DEF SubmitEnter
      <3> QED
        BY <1>3, <1>0, <1>2, <3>1, <3>2, <3>3 DEF SubmitEnter, TypeOK
    <2>2. CASE Hiccup /\ pc' = "ready" /\ UNCHANGED <<to_submit, sq, kernel>>
      BY <1>3, <2>2, <1>0, UringAssumption DEF SubmitEnter, TypeOK, Hiccup
    <2> QED
      BY <1>3, <2>1, <2>2 DEF SubmitEnter
  <1>4. CASE Submit \/ Wait
    BY <1>4, <1>0 DEF Submit, Wait, TypeOK
  <1>5. CASE WaitEnter
    <2>1. PICK n \in 0 .. to_submit : Take(n) /\ MaybeHiccup(n < to_submit)
      BY <1>5 DEF WaitEnter
    <2>2. hiccups' \in 0 .. MaxHiccups
      BY <2>1, <1>0, UringAssumption DEF MaybeHiccup, Hiccup, TypeOK
    <2> QED
      BY <1>5, <1>0, <1>2, <2>1, <2>2 DEF WaitEnter, TypeOK
  <1>6. CASE WaitEvents
    BY <1>6, <1>0, Lengths DEF WaitEvents, TypeOK
  <1>7. CASE Reap
    <2>1. cq # <<>>
      BY <1>7, <1>0, EmptySeq DEF Reap, ThreadInv, TypeOK
    <2> DEFINE i == Head(cq).slot
               res == Head(cq).res
    <2>2. i \in Slots /\ res \in Int /\ cq' \in Seq([slot : Slots, res : Int])
      BY <1>7, <1>0, <2>1, HeadOfCq DEF Reap
    <2>3. Done(i, res) \in Nat
      BY <2>2, <1>0 DEF Done, TypeOK
    <2>4. req' \in [Slots -> [bytes : Nat, done : Nat]]
      BY <1>7, <1>0, <2>2, <2>3 DEF Reap, TypeOK
    <2>5. sq' \in Seq(Slots) /\ to_submit' \in Nat /\ pending' \in Nat
      <3>1. CASE Unfinished(i, res)
        <4>1. Requeue(i)
          BY <1>7, <3>1 DEF Reap
        <4>2. sq' \in Seq(Slots)
          BY <4>1, <1>0, <2>2, AppendSq DEF Requeue
        <4> QED
          BY <4>1, <4>2, <1>0 DEF Requeue, TypeOK
      <3>2. CASE ~Unfinished(i, res)
        <4>1. pc # "broken" /\ i \in OpenReads
          <5>1. InCq(i)
            BY <2>1, <1>0, HeadOfCq DEF InCq
          <5> QED
            BY <1>7, <5>1, <2>2 DEF Reap, IInv, PlaceInv
        <4>2. pending # 0
          BY <4>1, OpenFinite DEF IInv, CountInv, OpenReads
        <4> QED
          BY <1>7, <3>2, <1>0, <4>2 DEF Reap, Ends, TypeOK
      <3> QED
        BY <3>1, <3>2
    <2>6. rc' \in {0, -1} /\ bad' \subseteq Slots /\ unseen' \in Nat
      <3>1. rc' \in {rc, -1} /\ bad' \in {bad, bad \cup {i}} /\ unseen' = unseen - 1
        BY <1>7 DEF Reap
      <3>2. unseen' \in Nat
        BY <1>7, <3>1, <1>0 DEF Reap, TypeOK
      <3>3. rc' \in {0, -1}
        BY <3>1, <1>0 DEF TypeOK
      <3>4. bad' \subseteq Slots
        BY <3>1, <1>0, <2>2 DEF TypeOK
      <3> QED
        BY <3>2, <3>3, <3>4
    <2> QED
      BY <1>7, <1>0, <2>2, <2>4, <2>5, <2>6 DEF Reap, TypeOK
  <1>8. CASE ReapEnd
    BY <1>8, <1>0 DEF ReapEnd, TypeOK
  <1>9. CASE WaitReturn \/ WaitFails
    <2>1. batches < MaxBatches
      BY <1>9, <1>0 DEF WaitReturn, WaitFails, ThreadInv, Waiting
    <2> QED
      BY <1>9, <1>0, <2>1, UringAssumption DEF WaitReturn, WaitFails, Return, TypeOK
  <1>10. ASSUME NEW k \in kernel, Complete(k) PROVE TypeOK'
    <2>1. PICK c \in [slot : Slots, res : Int] : cq' = Append(cq, c)
      BY <1>0, <1>10, CompleteAdds
    <2>2. cq' \in Seq([slot : Slots, res : Int])
      BY <2>1, <1>0, AppendCq
    <2>3. hiccups' \in 0 .. MaxHiccups
      BY <1>0, <1>10, CompleteAdds
    <2> QED
      BY <1>10, <1>0, <2>2, <2>3 DEF Complete, TypeOK
  <1>11. CASE UNCHANGED vars
    BY <1>11, <1>0 DEF vars, TypeOK
  <1> QED
    BY <1>1, <1>3, <1>4, <1>5, <1>6, <1>7, <1>8, <1>9, <1>10, <1>11
       DEF Next, Thread, Kernel

(* Each step keeps what is said of the thread's place. *)
LEMMA ThreadStep == IInv /\ [Next]_vars => ThreadInv'
  <1> SUFFICES ASSUME IInv, [Next]_vars PROVE ThreadInv'
    OBVIOUS
  <1> USE DEF ring, Waiting
  <1>0. TypeOK /\ ThreadInv
    BY DEF IInv
  <1>1. ASSUME NEW bytes \in Sizes, Read(bytes) PROVE ThreadInv'
    BY <1>0, <1>1 DEF Read, ThreadInv
  <1>2. CASE SubmitEnter
    BY <1>0, <1>2 DEF SubmitEnter, ThreadInv
  <1>3. CASE Submit \/ Wait \/ WaitEnter
    BY <1>0, <1>3 DEF Submit, Wait, WaitEnter, ThreadInv
  <1>4. CASE WaitEvents
    BY <1>0, <1>4, Lengths DEF WaitEvents, ThreadInv
  <1>5. CASE Reap
    <2>1. cq # <<>>
      BY <1>5, <1>0, EmptySeq DEF Reap, ThreadInv, TypeOK
    <2>2. Len(cq') = Len(cq) - 1 /\ Len(cq) \in Nat
      BY <1>5, <1>0, <2>1, HeadOfCq DEF Reap
    <2> QED
      BY <1>0, <1>5, <2>2 DEF Reap, ThreadInv, TypeOK
  <1>6. CASE ReapEnd
    BY <1>0, <1>6 DEF ReapEnd, ThreadInv
  <1>7. CASE WaitReturn \/ WaitFails
    BY <1>0, <1>7 DEF WaitReturn, WaitFails, Return, ThreadInv
  <1>8. ASSUME NEW k \in kernel, Complete(k) PROVE ThreadInv'
    <2>1. Len(cq') = Len(cq) + 1 /\ Len(cq) \in Nat
      <3>1. PICK c \in [slot : Slots, res : Int] : cq' = Append(cq, c)
        BY <1>0, <1>8, CompleteAdds
      <3> QED
        BY <3>1, <1>0, AppendCq
    <2> QED
      BY <1>0, <1>8, <2>1 DEF Complete, ThreadInv, TypeOK
  <1>9. CASE UNCHANGED vars
    BY <1>0, <1>9 DEF vars, ThreadInv
  <1> QED
    BY <1>1, <1>2, <1>3, <1>4, <1>5, <1>6, <1>7, <1>8, <1>9
       DEF Next, Thread, Kernel

-----------------------------------------------------------------------------
(* The places, the counts and the results, action by action. *)
Books == PlaceInv /\ CountInv /\ ReadInv

(* Entries taken go from the queue to the kernel. *)
LEMMA TakeStep ==
  ASSUME TypeOK, Books, NEW n \in 0 .. to_submit, Take(n),
         UNCHANGED <<n_req, pending, req, cq, rc, bad>>
  PROVE  Books'
  <1>1. n \in Nat /\ n <= Len(sq) /\ Len(sq) \in Nat
    BY Lengths DEF Take, TypeOK
  <1>2. /\ Len(sq') = Len(sq) - n
        /\ \A x \in 1 .. Len(sq') : sq'[x] = sq[x + n]
    BY <1>1, TakeQueue DEF Take
  <1>3. \A i \in Slots : InSq(i)' <=> \E x \in n + 1 .. Len(sq) : sq[x] = i
    <2> SUFFICES ASSUME NEW i \in Slots
                 PROVE  InSq(i)' <=> \E x \in n + 1 .. Len(sq) : sq[x] = i
      OBVIOUS
    <2>1. ASSUME NEW x \in n + 1 .. Len(sq), sq[x] = i PROVE InSq(i)'
      <3>1. x - n \in 1 .. Len(sq') /\ sq'[x - n] = i
        BY <1>1, <1>2, <2>1
      <3> QED
        BY <3>1 DEF InSq
    <2>2. ASSUME NEW x \in 1 .. Len(sq'), sq'[x] = i
          PROVE  \E y \in n + 1 .. Len(sq) : sq[y] = i
      <3>1. x + n \in n + 1 .. Len(sq) /\ sq[x + n] = i
        BY <1>1, <1>2, <2>2
      <3> QED
        BY <3>1
    <2> QED
      BY <2>1, <2>2 DEF InSq
  <1>4. \A i \in Slots : InKernel(i)' <=> InKernel(i) \/ \E x \in 1 .. n : sq[x] = i
    <2> SUFFICES ASSUME NEW i \in Slots
                 PROVE  InKernel(i)' <=> InKernel(i) \/ \E x \in 1 .. n : sq[x] = i
      OBVIOUS
    <2>1. ASSUME NEW k \in kernel', k.slot = i
          PROVE  InKernel(i) \/ \E x \in 1 .. n : sq[x] = i
      BY <2>1 DEF Take, InKernel
    <2>2. ASSUME InKernel(i) PROVE InKernel(i)'
      BY <2>2 DEF Take, InKernel
    <2>3. ASSUME NEW x \in 1 .. n, sq[x] = i PROVE InKernel(i)'
      <3>1. [slot |-> sq[x], of |-> batches] \in kernel'
        BY DEF Take
      <3> QED
        BY <2>3, <3>1 DEF InKernel
    <2> QED
      BY <2>1, <2>2, <2>3 DEF InKernel
  <1>5. \A i \in Slots : InCq(i)' <=> InCq(i)
    BY DEF InCq
  <1>6. OpenReads' = OpenReads
    BY DEF OpenReads
  <1>7. \A i \in Slots : InSq(i) <=> \/ \E x \in 1 .. n : sq[x] = i
                                   \/ \E x \in n + 1 .. Len(sq) : sq[x] = i
    BY <1>1 DEF InSq
  <1>8. \A i \in Slots : ~(/\ \E x \in 1 .. n : sq[x] = i
                          /\ \E x \in n + 1 .. Len(sq) : sq[x] = i)
    BY <1>1 DEF Books, PlaceInv
  <1>9. \A x, y \in 1 .. Len(sq') : sq'[x] = sq'[y] => x = y
    BY <1>1, <1>2 DEF Books, PlaceInv
  <1>10. \A k, l \in kernel' : k.slot = l.slot => k = l
    <2> SUFFICES ASSUME NEW k \in kernel', NEW l \in kernel', k.slot = l.slot
                 PROVE  k = l
      OBVIOUS
    <2>1. \A m \in kernel' : \/ m \in kernel
                            \/ \E x \in 1 .. n : m = [slot |-> sq[x], of |-> batches]
      BY DEF Take
    <2>2. \A m \in kernel : m.slot \in Slots /\ InKernel(m.slot)
      BY DEF TypeOK, InKernel
    <2>3. \A x \in 1 .. n : sq[x] \in Slots /\ InSq(sq[x])
      BY <1>1, Lengths DEF InSq
    <2>4. \A m \in kernel, x \in 1 .. n : m.slot # sq[x]
      BY <2>2, <2>3 DEF Books, PlaceInv
    <2> QED
      BY <2>1, <2>4 DEF Books, PlaceInv
  <1>11. PlaceInv'
    <2>1. \A x, y \in 1 .. Len(cq') : cq'[x].slot = cq'[y].slot => x = y
      BY DEF Books, PlaceInv
    <2>2. \A i \in Slots : /\ ~(InSq(i)' /\ InCq(i)')
                          /\ ~(InSq(i)' /\ InKernel(i)')
                          /\ ~(InCq(i)' /\ InKernel(i)')
                          /\ i \in OpenReads' <=> InSq(i)' \/ InCq(i)' \/ InKernel(i)'
      BY <1>3, <1>4, <1>5, <1>6, <1>7, <1>8 DEF Books, PlaceInv
    <2> QED
      BY <1>9, <1>10, <2>1, <2>2 DEF PlaceInv
  <1>12. CountInv'
    BY <1>1, <1>2, <1>6 DEF Take, Books, CountInv, TypeOK
  <1>13. ReadInv'
    BY DEF Books, ReadInv
  <1> QED
    BY <1>11, <1>12, <1>13 DEF Books

(* A read queued is a read more, in the queue. *)
LEMMA ReadStep ==
  ASSUME TypeOK, ThreadInv, Books, NEW bytes \in Sizes, Read(bytes)
  PROVE  Books'
  <1>1. n_req \in Slots /\ bytes \in Nat /\ bytes > 0
    BY UringAssumption DEF Read, TypeOK, Slots
  <1>2. bad = {} /\ rc = 0
    BY DEF Read, ThreadInv, Waiting, Books, ReadInv
  <1>3. /\ Len(sq') = Len(sq) + 1 /\ Len(sq) \in Nat
        /\ \A x \in 1 .. Len(sq) : sq'[x] = sq[x]
        /\ sq'[Len(sq) + 1] = n_req
    BY <1>1, AppendSq DEF Read
  <1>4. n_req \notin OpenReads
    BY <1>1 DEF OpenReads, Slots
  <1>5. OpenReads' = OpenReads \cup {n_req}
    BY <1>1, <1>2 DEF OpenReads, Read, TypeOK, Slots
  <1>6. \A i \in Slots : InSq(i)' <=> InSq(i) \/ i = n_req
    BY <1>3 DEF InSq
  <1>7. \A i \in Slots : (InCq(i)' <=> InCq(i)) /\ (InKernel(i)' <=> InKernel(i))
    BY DEF InCq, InKernel, Read
  <1>8. ~InSq(n_req) /\ ~InCq(n_req) /\ ~InKernel(n_req)
    BY <1>1, <1>4 DEF Books, PlaceInv
  <1>9. PlaceInv'
    <2>1. \A x, y \in 1 .. Len(sq') : sq'[x] = sq'[y] => x = y
      BY <1>3, <1>8 DEF Books, PlaceInv, InSq
    <2>2. \A i \in Slots : /\ ~(InSq(i)' /\ InCq(i)')
                          /\ ~(InSq(i)' /\ InKernel(i)')
                          /\ ~(InCq(i)' /\ InKernel(i)')
                          /\ i \in OpenReads' <=> InSq(i)' \/ InCq(i)' \/ InKernel(i)'
      BY <1>5, <1>6, <1>7, <1>8 DEF Books, PlaceInv
    <2>3. /\ \A x, y \in 1 .. Len(cq') : cq'[x].slot = cq'[y].slot => x = y
          /\ \A k, l \in kernel' : k.slot = l.slot => k = l
      BY DEF Books, PlaceInv, Read
    <2> QED
      BY <2>1, <2>2, <2>3 DEF PlaceInv
  <1>10. CountInv'
    <2>1. OpenReads \in SUBSET Slots
      BY DEF OpenReads
    <2>2. Cardinality(OpenReads') = Cardinality(OpenReads) + 1
      BY <1>4, <1>5, <2>1, OpenFinite, FS_AddElement
    <2> QED
      BY <1>3, <2>2 DEF Books, CountInv, Read
  <1>11. ReadInv'
    <2>1. \A i \in Slots : i < n_req' => req'[i].done <= req'[i].bytes
      BY <1>1 DEF Read, Books, ReadInv, TypeOK, Slots
    <2>2. \A x \in 1 .. Len(cq') :
            cq'[x].res <= req'[cq'[x].slot].bytes - req'[cq'[x].slot].done
      <3> SUFFICES ASSUME NEW x \in 1 .. Len(cq)
                   PROVE  cq[x].res <= req'[cq[x].slot].bytes - req'[cq[x].slot].done
        BY DEF Read
      <3>1. cq[x].slot \in Slots /\ InCq(cq[x].slot)
        BY Lengths DEF InCq
      <3>2. cq[x].slot # n_req
        BY <3>1, <1>8
      <3>3. req'[cq[x].slot] = req[cq[x].slot]
        BY <3>1, <3>2 DEF Read, TypeOK
      <3> QED
        BY <3>3 DEF Books, ReadInv
    <2> QED
      BY <1>2, <2>1, <2>2 DEF ReadInv, Read
  <1> QED
    BY <1>9, <1>10, <1>11 DEF Books

(* A completion goes from the kernel to its queue. *)
LEMMA CompleteStep ==
  ASSUME TypeOK, Books, NEW k \in kernel, Complete(k)
  PROVE  Books'
  <1>1. PICK c \in [slot : Slots, res : Int] :
              /\ c.slot = k.slot
              /\ c.res > 0 => c.res <= req[k.slot].bytes - req[k.slot].done
              /\ cq' = Append(cq, c)
    BY CompleteAdds
  <1>2. /\ Len(cq') = Len(cq) + 1 /\ Len(cq) \in Nat
        /\ \A x \in 1 .. Len(cq) : cq'[x] = cq[x]
        /\ cq'[Len(cq) + 1] = c
    BY <1>1, AppendCq
  <1>3. kernel' = kernel \ {k} /\ UNCHANGED <<ring, sq, rc, bad>>
    BY DEF Complete
  <1>4. k.slot \in Slots /\ InKernel(k.slot)
    BY DEF TypeOK, InKernel
  <1>5. ~InSq(k.slot) /\ ~InCq(k.slot) /\ k.slot \in OpenReads
    BY <1>4 DEF Books, PlaceInv
  <1>6. \A i \in Slots : InCq(i)' <=> InCq(i) \/ i = k.slot
    BY <1>1, <1>2 DEF InCq
  <1>7. \A i \in Slots : InKernel(i)' <=> InKernel(i) /\ i # k.slot
    BY <1>3 DEF InKernel, Books, PlaceInv
  <1>8. OpenReads' = OpenReads /\ \A i \in Slots : InSq(i)' <=> InSq(i)
    BY <1>3 DEF OpenReads, InSq, ring
  <1>9. PlaceInv'
    <2>1. \A x, y \in 1 .. Len(cq') : cq'[x].slot = cq'[y].slot => x = y
      BY <1>1, <1>2, <1>5 DEF Books, PlaceInv, InCq
    <2>2. \A i \in Slots : /\ ~(InSq(i)' /\ InCq(i)')
                          /\ ~(InSq(i)' /\ InKernel(i)')
                          /\ ~(InCq(i)' /\ InKernel(i)')
                          /\ i \in OpenReads' <=> InSq(i)' \/ InCq(i)' \/ InKernel(i)'
      BY <1>5, <1>6, <1>7, <1>8 DEF Books, PlaceInv
    <2>3. /\ \A x, y \in 1 .. Len(sq') : sq'[x] = sq'[y] => x = y
          /\ \A m, l \in kernel' : m.slot = l.slot => m = l
      BY <1>3 DEF Books, PlaceInv
    <2> QED
      BY <2>1, <2>2, <2>3 DEF PlaceInv
  <1>10. CountInv'
    BY <1>3, <1>8 DEF Books, CountInv, ring
  <1>11. ReadInv'
    <2>1. k.slot < n_req /\ req[k.slot].done <= req[k.slot].bytes
      BY <1>4, <1>5 DEF OpenReads, Books, ReadInv
    <2>2. c.res <= req[c.slot].bytes - req[c.slot].done
      BY <1>1, <1>4, <2>1 DEF TypeOK
    <2>3. \A x \in 1 .. Len(cq') :
            cq'[x].res <= req[cq'[x].slot].bytes - req[cq'[x].slot].done
      BY <1>2, <2>2 DEF Books, ReadInv
    <2> QED
      BY <1>3, <2>3 DEF Books, ReadInv, ring
  <1> QED
    BY <1>9, <1>10, <1>11 DEF Books

(* A completion looked at: its read is queued again, or it has ended. *)
LEMMA ReapStep ==
  ASSUME TypeOK, ThreadInv, Books, Reap
  PROVE  Books'
  <1> DEFINE i == cq[1].slot
             res == cq[1].res
             more == Unfinished(i, res)
             fails == res <= 0 /\ ~more
  <1>1. cq # <<>>
    BY EmptySeq DEF Reap, ThreadInv, TypeOK
  <1>2. /\ Head(cq) = cq[1] /\ Len(cq) \in Nat /\ Len(cq) >= 1
        /\ i \in Slots /\ res \in Int
        /\ Len(Tail(cq)) = Len(cq) - 1
        /\ \A x \in 1 .. Len(Tail(cq)) : Tail(cq)[x] = cq[x + 1]
    BY <1>1, HeadOfCq
  <1>3. /\ req' = [req EXCEPT ![i].done = Done(i, res)]
        /\ IF more THEN Requeue(i) ELSE Ends
        /\ rc' = IF fails THEN -1 ELSE rc
        /\ bad' = IF fails THEN bad \cup {i} ELSE bad
        /\ cq' = Tail(cq)
        /\ UNCHANGED <<n_req, kernel>>
    BY <1>2 DEF Reap
  <1>4. InCq(i) /\ ~InSq(i) /\ ~InKernel(i) /\ i \in OpenReads
    BY <1>2 DEF InCq, Books, PlaceInv
  <1>5. i < n_req /\ i \notin bad /\ req[i].done < req[i].bytes
    BY <1>4 DEF OpenReads
  <1>6. /\ req[i].done \in Nat /\ req[i].bytes \in Nat
        /\ res <= req[i].bytes - req[i].done
    BY <1>2 DEF TypeOK, Books, ReadInv
  <1>7. /\ req'[i].bytes = req[i].bytes /\ req'[i].done = Done(i, res)
        /\ \A j \in Slots : j # i => req'[j] = req[j]
    BY <1>2, <1>3 DEF TypeOK
  <1>8. Done(i, res) \in Nat /\ Done(i, res) <= req[i].bytes
    BY <1>2, <1>5, <1>6 DEF Done
  <1>9. more => Done(i, res) < req[i].bytes /\ ~fails
    BY <1>2, <1>5, <1>6 DEF Unfinished, Done, EAGAIN
  <1>10. ~more => fails \/ Done(i, res) = req[i].bytes
    BY <1>2, <1>6, <1>8 DEF Unfinished
  <1>11. OpenReads' = IF more THEN OpenReads ELSE OpenReads \ {i}
    <2>1. \A j \in Slots : j # i => (j \in OpenReads' <=> j \in OpenReads)
      BY <1>3, <1>7 DEF OpenReads
    <2>2. i \in OpenReads' <=> more
      BY <1>2, <1>3, <1>5, <1>7, <1>8, <1>9, <1>10 DEF OpenReads
    <2>3. OpenReads' \subseteq Slots /\ OpenReads \subseteq Slots
      BY DEF OpenReads
    <2> QED
      BY <1>4, <2>1, <2>2, <2>3
  <1>12. \A j \in Slots : InCq(j)' <=> InCq(j) /\ j # i
    <2> SUFFICES ASSUME NEW j \in Slots PROVE InCq(j)' <=> InCq(j) /\ j # i
      OBVIOUS
    <2>1. ASSUME NEW x \in 1 .. Len(cq'), cq'[x].slot = j PROVE InCq(j) /\ j # i
      <3>1. x + 1 \in 1 .. Len(cq) /\ cq[x + 1].slot = j /\ x + 1 # 1
        BY <2>1, <1>2, <1>3
      <3>2. 1 \in 1 .. Len(cq)
        BY <1>2
      <3> QED
        BY <3>1, <3>2 DEF InCq, Books, PlaceInv
    <2>2. ASSUME NEW x \in 1 .. Len(cq), cq[x].slot = j, j # i PROVE InCq(j)'
      <3>1. x # 1
        BY <2>2
      <3>2. x - 1 \in 1 .. Len(cq') /\ cq'[x - 1].slot = j
        BY <3>1, <2>2, <1>2, <1>3
      <3> QED
        BY <3>2 DEF InCq
    <2> QED
      BY <2>1, <2>2 DEF InCq
  <1>13. /\ Len(sq) \in Nat /\ Len(sq') = IF more THEN Len(sq) + 1 ELSE Len(sq)
         /\ \A x \in 1 .. Len(sq) : sq'[x] = sq[x]
         /\ more => sq'[Len(sq) + 1] = i
    <2>1. CASE more
      BY <2>1, <1>2, <1>3, AppendSq DEF Requeue
    <2>2. CASE ~more
      BY <2>2, <1>3, Lengths DEF Ends
    <2> QED
      BY <2>1, <2>2
  <1>14. \A j \in Slots : InSq(j)' <=> InSq(j) \/ (more /\ j = i)
    BY <1>13 DEF InSq
  <1>15. \A j \in Slots : InKernel(j)' <=> InKernel(j)
    BY <1>3 DEF InKernel
  <1>16. PlaceInv'
    <2>1. \A x, y \in 1 .. Len(cq') : cq'[x].slot = cq'[y].slot => x = y
      <3>1. \A x \in 1 .. Len(cq') : x + 1 \in 1 .. Len(cq) /\ cq'[x] = cq[x + 1]
        BY <1>2, <1>3
      <3>2. \A x, y \in 1 .. Len(cq') : cq[x + 1].slot = cq[y + 1].slot => x + 1 = y + 1
        BY <3>1 DEF Books, PlaceInv
      <3> QED
        BY <3>1, <3>2, <1>2, <1>3
    <2>2. \A x, y \in 1 .. Len(sq') : sq'[x] = sq'[y] => x = y
      BY <1>13, <1>4 DEF Books, PlaceInv, InSq
    <2>3. \A k, l \in kernel' : k.slot = l.slot => k = l
      BY <1>3 DEF Books, PlaceInv
    <2>4. \A j \in Slots : /\ ~(InSq(j)' /\ InCq(j)')
                          /\ ~(InSq(j)' /\ InKernel(j)')
                          /\ ~(InCq(j)' /\ InKernel(j)')
                          /\ j \in OpenReads' <=> InSq(j)' \/ InCq(j)' \/ InKernel(j)'
      BY <1>4, <1>11, <1>12, <1>14, <1>15 DEF Books, PlaceInv
    <2> QED
      BY <2>1, <2>2, <2>3, <2>4 DEF PlaceInv
  <1>17. CountInv'
    <2>1. to_submit' = Len(sq')
      BY <1>3, <1>13 DEF Requeue, Ends, Books, CountInv
    <2>2. pending' = Cardinality(OpenReads')
      <3>1. CASE more
        BY <3>1, <1>3, <1>11 DEF Requeue, Books, CountInv
      <3>2. CASE ~more
        <4>1. OpenReads \in SUBSET Slots
          BY DEF OpenReads
        <4>2. Cardinality(OpenReads \ {i}) = Cardinality(OpenReads) - 1
          BY <4>1, <1>4, OpenFinite, FS_RemoveElement
        <4> QED
          BY <3>2, <4>2, <1>3, <1>11 DEF Ends, Books, CountInv
      <3> QED
        BY <3>1, <3>2
    <2> QED
      BY <2>1, <2>2 DEF CountInv
  <1>18. ReadInv'
    <2>1. \A j \in Slots : j < n_req' => req'[j].done <= req'[j].bytes
      BY <1>3, <1>7, <1>8 DEF Books, ReadInv
    <2>2. \A x \in 1 .. Len(cq') :
            cq'[x].res <= req'[cq'[x].slot].bytes - req'[cq'[x].slot].done
      <3> SUFFICES ASSUME NEW x \in 1 .. Len(cq')
                   PROVE  cq'[x].res <= req'[cq'[x].slot].bytes - req'[cq'[x].slot].done
        OBVIOUS
      <3>1. x + 1 \in 1 .. Len(cq) /\ cq'[x] = cq[x + 1]
        BY <1>2, <1>3
      <3>2. cq'[x].slot \in Slots /\ cq'[x].slot # i
        BY <3>1, <1>2, Lengths DEF Books, PlaceInv
      <3>3. req'[cq'[x].slot] = req[cq'[x].slot]
        BY <3>2, <1>7
      <3> QED
        BY <3>1, <3>3 DEF Books, ReadInv
    <2>3. bad' \subseteq {j \in Slots : j < n_req'}
      BY <1>2, <1>3, <1>5 DEF Books, ReadInv
    <2>4. rc' = -1 <=> bad' # {}
      BY <1>3 DEF Books, ReadInv
    <2> QED
      BY <2>1, <2>2, <2>3, <2>4 DEF ReadInv
  <1> QED
    BY <1>16, <1>17, <1>18 DEF Books

(* The wait returns with nothing open, hence nothing anywhere. *)
LEMMA ReturnStep ==
  ASSUME TypeOK, Books, WaitReturn
  PROVE  sq = <<>> /\ cq = <<>> /\ kernel = {} /\ OpenReads = {} /\ Books'
  <1>1. OpenReads \in SUBSET Slots /\ Cardinality(OpenReads) = 0
    BY DEF OpenReads, WaitReturn, Books, CountInv
  <1>2. OpenReads = {}
    BY <1>1, OpenFinite
  <1>3. sq = <<>> /\ cq = <<>> /\ kernel = {}
    BY <1>2, NothingLeft DEF Books
  <1>4. OpenReads' = {} /\ Len(sq') = 0 /\ Len(cq') = 0 /\ kernel' = {}
    BY <1>3, EmptySeq DEF WaitReturn, Return, OpenReads, Slots
  <1>5. PlaceInv'
    BY <1>4 DEF PlaceInv, InSq, InCq, InKernel
  <1>6. CountInv' /\ ReadInv'
    BY <1>4, FS_EmptySet DEF WaitReturn, Return, CountInv, ReadInv, Slots
  <1> QED
    BY <1>2, <1>3, <1>5, <1>6 DEF Books

(* Nothing starts again after a wait whose enter failed. *)
LEMMA BooksStep == IInv /\ [Next]_vars /\ pc' # "broken" => pc # "broken" /\ Books'
  <1> SUFFICES ASSUME IInv, [Next]_vars, pc' # "broken" PROVE pc # "broken" /\ Books'
    OBVIOUS
  <1> USE DEF ring
  <1>0. pc # "broken"
    BY DEF Next, Thread, Kernel, vars, Read, Submit, SubmitEnter, Wait, WaitEnter,
           WaitEvents, Reap, ReapEnd, WaitReturn, WaitFails, Return, Complete
  <1> SUFFICES Books'
    BY <1>0
  <1>1. TypeOK /\ ThreadInv /\ Books
    BY <1>0 DEF IInv, Books
  <1>2. ASSUME NEW bytes \in Sizes, Read(bytes) PROVE Books'
    BY <1>1, <1>2, ReadStep
  <1>3. ASSUME UNCHANGED <<n_req, pending, to_submit, req, sq, cq, kernel, bad>>, rc' = rc
        PROVE  Books'
    BY <1>1, <1>3 DEF Books, PlaceInv, CountInv, ReadInv, OpenReads, InSq, InCq, InKernel
  <1>4. CASE SubmitEnter
    <2>1. CASE \E n \in 1 .. to_submit : Take(n) /\ MaybeHiccup(n < to_submit)
      <3>1. PICK n \in 0 .. to_submit : Take(n)
        BY <2>1, <1>1 DEF TypeOK
      <3> QED
        BY <3>1, <1>1, <1>4, TakeStep DEF SubmitEnter
    <2>2. CASE UNCHANGED <<to_submit, sq, kernel>>
      BY <1>3, <1>4, <2>2 DEF SubmitEnter
    <2> QED
      BY <1>4, <2>1, <2>2 DEF SubmitEnter
  <1>5. CASE WaitEnter
    <2>1. PICK n \in 0 .. to_submit : Take(n)
      BY <1>5 DEF WaitEnter
    <2> QED
      BY <2>1, <1>1, <1>5, TakeStep DEF WaitEnter
  <1>6. CASE Wait
    BY <1>1, <1>3, <1>6 DEF Wait, ThreadInv, Waiting
  <1>7. CASE Submit \/ WaitEvents \/ ReapEnd
    BY <1>3, <1>7 DEF Submit, WaitEvents, ReapEnd
  <1>8. CASE Reap
    BY <1>1, <1>8, ReapStep
  <1>9. CASE WaitReturn
    BY <1>1, <1>9, ReturnStep
  <1>10. ASSUME NEW k \in kernel, Complete(k) PROVE Books'
    BY <1>1, <1>10, CompleteStep
  <1>11. CASE UNCHANGED vars
    BY <1>3, <1>11 DEF vars
  <1>12. ~WaitFails
    BY DEF WaitFails, Return
  <1> QED
    BY <1>2, <1>4, <1>5, <1>6, <1>7, <1>8, <1>9, <1>10, <1>11, <1>12
       DEF Next, Thread, Kernel

LEMMA InductiveStep == IInv /\ [Next]_vars => IInv'
  BY TypeStep, ThreadStep, BooksStep DEF IInv, Books

(* The inductive invariant holds throughout. *)
LEMMA Invariance == Spec => []IInv
  BY InitInv, InductiveStep, PTL DEF Spec

-----------------------------------------------------------------------------
(* The ring's variables keep their types: in particular pending never goes
   below zero and no slot is given twice in a batch. *)
THEOREM TypeCorrect == Spec => []TypeOK
  <1>1. IInv => TypeOK
    BY DEF IInv
  <1> QED
    BY <1>1, Invariance, PTL

(* Once a wait has returned, no read of its batch is in a queue or in the
   kernel's hands, whatever the kernel did with the entries. *)
THEOREM BuffersComeBack == Spec => []BuffersBack
  <1>1. IInv => BuffersBack
    <2> SUFFICES ASSUME IInv, pc = "ready", n_req = 0
                 PROVE  sq = <<>> /\ cq = <<>> /\ kernel = {}
      BY DEF BuffersBack
    <2>1. OpenReads = {}
      BY DEF OpenReads, Slots
    <2> QED
      BY <2>1, NothingLeft DEF IInv
  <1> QED
    BY <1>1, Invariance, PTL

-----------------------------------------------------------------------------
(* The refinement of AsyncReads. *)
Batch == [j \in Slots |-> State(j)]

(* A step that changes no count, no read and no result changes no batch. *)
LEMMA SameBatch ==
  ASSUME UNCHANGED <<n_req, req, bad>>
  PROVE  Batch' = Batch
  BY DEF Batch, State

LEMMA BatchFcn ==
  /\ Batch = [j \in Slots |-> Batch[j]] /\ \A j \in Slots : Batch[j] = State(j)
  /\ Batch' = [j \in Slots |-> Batch'[j]] /\ \A j \in Slots : Batch'[j] = State(j)'
  BY DEF Batch, State

(* A slot without a read is in none of the three states. *)
LEMMA NoneIsNoState == None \notin {"open", "whole", "failed"}
  BY UringAssumption

LEMMA InitRefines == Init => Promise!AInit
  BY DEF Init, Promise!AInit, Promise!Slots, Slots, State

LEMMA StepRefines == IInv /\ [Next]_vars => [Promise!ANext]_(Promise!areads)
  <1> SUFFICES ASSUME IInv, [Next]_vars
               PROVE  Promise!ANext \/ UNCHANGED Promise!areads
    BY DEF Promise!areads
  <1> USE DEF ring
  <1>0. TypeOK /\ ThreadInv /\ (pc # "broken" => Books)
    BY DEF IInv, Books
  <1>1. ASSUME NEW bytes \in Sizes, Read(bytes) PROVE Promise!ANext
    <2>1. n_req \in Slots /\ bytes \in Nat /\ bytes > 0 /\ bad = {}
      BY <1>0, <1>1, UringAssumption
         DEF Read, TypeOK, Slots, ThreadInv, Waiting, Books, ReadInv
    <2>2. PICK i \in Slots : i = n_req
      BY <2>1
    <2>3. Batch[i] = None
      BY <1>0, <2>2, BatchFcn DEF State, TypeOK
    <2>4. Batch'[i] = "open"
      <3>1. n_req' = n_req + 1 /\ bad' = {} /\ req'[i].done = 0 /\ req'[i].bytes = bytes
        BY <1>0, <1>1, <2>1, <2>2 DEF Read, TypeOK
      <3>2. ~(i >= n_req') /\ i \notin bad' /\ req'[i].done # req'[i].bytes
        BY <1>0, <2>1, <2>2, <3>1 DEF TypeOK
      <3>3. State(i)' = "open"
        BY <3>2 DEF State
      <3> QED
        BY <3>3, BatchFcn
    <2>5. \A j \in Slots : j # i => Batch'[j] = Batch[j]
      <3>1. \A j \in Slots : j # i => State(j)' = State(j)
        BY <1>0, <1>1, <2>1, <2>2 DEF State, Read, TypeOK, Slots
      <3> QED
        BY <3>1, BatchFcn
    <2>6. Batch' = [Batch EXCEPT ![i] = "open"]
      BY <2>4, <2>5, BatchFcn
    <2>7. Promise!AQueue(i)
      BY <1>1, <2>3, <2>6 DEF Promise!AQueue, Batch, Read
    <2> QED
      BY <2>7 DEF Promise!ANext, Promise!Slots, Slots
  <1>2. CASE Wait
    <2>1. Batch' = Batch
      BY <1>2, SameBatch DEF Wait
    <2>2. Promise!AWait
      BY <1>2, <2>1 DEF Promise!AWait, Wait, Batch
    <2> QED
      BY <2>2 DEF Promise!ANext
  <1>3. CASE Submit \/ SubmitEnter
    <2>1. Batch' = Batch
      BY <1>3, SameBatch DEF Submit, SubmitEnter
    <2> QED
      BY <1>3, <2>1 DEF Promise!areads, Submit, SubmitEnter, Batch
  <1>4. CASE WaitEnter \/ WaitEvents \/ ReapEnd
    <2>1. Batch' = Batch
      BY <1>4, SameBatch DEF WaitEnter, WaitEvents, ReapEnd
    <2> QED
      BY <1>4, <2>1 DEF Promise!areads, WaitEnter, WaitEvents, ReapEnd, Batch
  <1>5. ASSUME NEW k \in kernel, Complete(k) PROVE UNCHANGED Promise!areads
    <2>1. Batch' = Batch
      BY <1>5, SameBatch DEF Complete
    <2> QED
      BY <1>5, <2>1 DEF Promise!areads, Complete, Batch
  <1>6. CASE UNCHANGED vars
    <2>1. Batch' = Batch
      BY <1>6, SameBatch DEF vars
    <2> QED
      BY <1>6, <2>1 DEF Promise!areads, vars, Batch
  <1>7. CASE WaitReturn
    <2>1. OpenReads = {}
      BY <1>0, <1>7, ReturnStep DEF WaitReturn
    <2>2. \A j \in Slots : State(j) # "open"
      <3> SUFFICES ASSUME NEW j \in Slots, j < n_req, j \notin bad
                   PROVE  req[j].done = req[j].bytes
        BY <1>0, NoneIsNoState DEF State, TypeOK, Slots
      <3>1. ~(req[j].done < req[j].bytes) /\ req[j].done <= req[j].bytes
        BY <1>0, <1>7, <2>1 DEF OpenReads, WaitReturn, Books, ReadInv
      <3> QED
        BY <1>0, <3>1 DEF TypeOK
    <2>3. Batch' = [j \in Slots |-> None]
      BY <1>7 DEF WaitReturn, Return, Batch, State, Slots
    <2>4. rc = IF \E j \in Slots : State(j) = "failed" THEN -1 ELSE 0
      <3>1. \A j \in bad : j \in Slots /\ State(j) = "failed"
        BY <1>0, <1>7 DEF WaitReturn, Books, ReadInv, State, Slots, TypeOK
      <3>2. \A j \in Slots : State(j) = "failed" => j \in bad
        BY NoneIsNoState DEF State
      <3> QED
        BY <3>1, <3>2, <1>0, <1>7 DEF WaitReturn, Books, ReadInv, TypeOK
    <2>5. Promise!AReturn
      BY <1>7, <2>2, <2>3, <2>4
         DEF Promise!AReturn, Promise!Slots, Slots, WaitReturn, Return, Batch
    <2> QED
      BY <2>5 DEF Promise!ANext
  <1>8. CASE WaitFails
    <2>1. Batch' = [j \in Slots |-> None]
      BY <1>8 DEF WaitFails, Return, Batch, State, Slots
    <2>2. Promise!AGiveUp
      BY <1>8, <2>1 DEF Promise!AGiveUp, Promise!Slots, Slots, WaitFails, Return, Batch
    <2> QED
      BY <2>2 DEF Promise!ANext
  <1>9. CASE Reap
    <2>1. Books /\ cq # <<>>
      BY <1>0, <1>9, EmptySeq DEF Reap, ThreadInv, TypeOK
    <2>2. Head(cq) = cq[1] /\ Len(cq) >= 1 /\ Len(cq) \in Nat /\ cq[1].slot \in Slots
      BY <1>0, <2>1, HeadOfCq
    <2>3. PICK i \in Slots : i = cq[1].slot
      BY <2>2
    <2>4. /\ \A j \in Slots : j # i => req'[j] = req[j] /\ (j \in bad' <=> j \in bad)
          /\ UNCHANGED <<n_req, pc, ret>>
      BY <1>0, <1>9, <2>2, <2>3 DEF Reap, TypeOK
    <2>5. i \in OpenReads
      <3>1. InCq(i)
        BY <2>2, <2>3 DEF InCq
      <3> QED
        BY <2>1, <3>1 DEF Books, PlaceInv
    <2>6. i < n_req /\ i \in Int /\ n_req \in Int
      BY <2>5, <1>0, UringAssumption DEF OpenReads, TypeOK, Slots
    <2>7. Batch[i] = "open"
      <3>1. ~(i >= n_req) /\ i \notin bad /\ req[i].done # req[i].bytes
        BY <1>0, <2>5, <2>6 DEF OpenReads, TypeOK
      <3>2. State(i) = "open"
        BY <3>1 DEF State
      <3> QED
        BY <3>2, BatchFcn
    <2>8. Batch'[i] \in {"open", "whole", "failed"}
      <3>1. ~(i >= n_req')
        BY <2>4, <2>6
      <3>2. State(i)' \in {"open", "whole", "failed"}
        BY <3>1 DEF State
      <3> QED
        BY <3>2, BatchFcn
    <2>9. \A j \in Slots : j # i => Batch'[j] = Batch[j]
      <3>1. \A j \in Slots : j # i => State(j)' = State(j)
        BY <2>4 DEF State
      <3> QED
        BY <3>1, BatchFcn
    <2>10. CASE Batch'[i] = "open"
      <3>1. Batch' = Batch
        BY <2>7, <2>9, <2>10, BatchFcn
      <3> QED
        BY <2>4, <3>1 DEF Promise!areads, Batch
    <2>11. CASE Batch'[i] \in {"whole", "failed"}
      <3>1. Batch' = [Batch EXCEPT ![i] = Batch'[i]]
        BY <2>9, BatchFcn
      <3>2. \E how \in {"whole", "failed"} : Batch' = [Batch EXCEPT ![i] = how]
        BY <2>11, <3>1
      <3>3. Promise!AEnd(i)
        BY <2>4, <2>7, <3>2 DEF Promise!AEnd, Batch
      <3> QED
        BY <3>3 DEF Promise!ANext, Promise!Slots, Slots
    <2> QED
      BY <2>8, <2>10, <2>11
  <1> QED
    BY <1>1, <1>2, <1>3, <1>4, <1>5, <1>6, <1>7, <1>8, <1>9 DEF Next, Thread, Kernel

(* The ring keeps the promise of uring.h: a wait returns when every read of
   the batch has ended, with 0 only when each was read whole, and no read
   changes after its end. *)
THEOREM PromiseKept == Spec => KeepsPromise
  BY InitRefines, StepRefines, Invariance, PTL DEF Spec, KeepsPromise, Promise!ASpec

=============================================================================
