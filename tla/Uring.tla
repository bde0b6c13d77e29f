-------------------------------- MODULE Uring -------------------------------
(***************************************************************************)
(* Asynchronous reads with io_uring (common/uring.c): the ring of one      *)
(* thread and the kernel it shares its two queues with.                    *)
(*                                                                         *)
(* The thread queues, submits and waits; the kernel takes entries of the   *)
(* submission queue in io_uring_enter and publishes completions whenever   *)
(* it likes: whole, short, interrupted, at the end of the file, or failed. *)
(* A loop of the code is a step for each turn, since the kernel goes on    *)
(* meanwhile.  EINTR of io_uring_enter changes nothing, and is no step.    *)
(***************************************************************************)
EXTENDS Integers, Sequences, FiniteSets

CONSTANTS
  Entries,     \* of the ring
  Sizes,       \* bytes of a read
  MaxBatches,  \* bound: waits
  MaxHiccups,  \* bound: short or interrupted reads, and entries not taken
  None

ASSUME UringAssumption ==
  /\ Entries \in Nat \ {0} /\ Sizes \subseteq Nat \ {0}
  /\ MaxBatches \in Nat /\ MaxHiccups \in Nat
  /\ None \notin {"open", "whole", "failed"}

Slots == 0 .. (Entries - 1)
EAGAIN == 11
EIO == 5

VARIABLES
  n_req, pending, to_submit, \* struct janas_uring
  req,       \* slot -> bytes asked and done
  sq, cq,    \* the queues: slots, and slots with the result of their read
  kernel,    \* the reads in the kernel's hands: slot and batch
  pc,        \* where the thread is
  rc,        \* of the wait under way
  ret,       \* of the last wait
  unseen,    \* completions reap has still to look at
  bad,       \* history: the slots of the batch that ended with an error
  batches, hiccups

ring == <<n_req, pending, to_submit, req>>
vars == <<ring, sq, cq, kernel, pc, rc, ret, unseen, bad, batches, hiccups>>

-----------------------------------------------------------------------------
Init ==
  /\ n_req = 0 /\ pending = 0 /\ to_submit = 0
  /\ req = [i \in Slots |-> [bytes |-> 0, done |-> 0]]
  /\ sq = <<>> /\ cq = <<>> /\ kernel = {}
  /\ pc = "ready" /\ rc = 0 /\ ret = 0 /\ unseen = 0
  /\ bad = {}
  /\ batches = 0 /\ hiccups = 0

Hiccup == hiccups < MaxHiccups /\ hiccups' = hiccups + 1
MaybeHiccup(is) == IF is THEN Hiccup ELSE UNCHANGED hiccups

(* Mutant: a read is taken when every slot is. *)
Read_NoLimit(bytes) ==
  /\ pc = "ready" /\ batches < MaxBatches
  /\ Len(sq) < Entries
  /\ req' = [req EXCEPT ![n_req] = [bytes |-> bytes, done |-> 0]]
  /\ sq' = Append(sq, n_req)
  /\ n_req' = n_req + 1
  /\ pending' = pending + 1
  /\ to_submit' = to_submit + 1
  /\ UNCHANGED <<cq, kernel, pc, rc, ret, unseen, bad, batches, hiccups>>

(* janas_uring_read and its queue_sqe; -1 when the slots are taken, or the
   queue is full, leaves all as it is. *)
Read(bytes) ==
  /\ pc = "ready" /\ batches < MaxBatches
  /\ n_req < Entries /\ Len(sq) < Entries
  /\ req' = [req EXCEPT ![n_req] = [bytes |-> bytes, done |-> 0]]
  /\ sq' = Append(sq, n_req)
  /\ n_req' = n_req + 1
  /\ pending' = pending + 1
  /\ to_submit' = to_submit + 1
  /\ UNCHANGED <<cq, kernel, pc, rc, ret, unseen, bad, batches, hiccups>>

(* io_uring_enter takes the first n entries of the queue. *)
Take(n) ==
  /\ n <= to_submit /\ n <= Len(sq)
  /\ kernel' = kernel \cup {[slot |-> sq[i], of |-> batches] : i \in 1 .. n}
  /\ sq' = SubSeq(sq, n + 1, Len(sq))
  /\ to_submit' = to_submit - n

(* janas_uring_submit: until the kernel has taken all of them; when it takes
   nothing, or fails, they are left to the wait. *)
Submit ==
  /\ pc = "ready" /\ to_submit > 0
  /\ pc' = "submit"
  /\ UNCHANGED <<ring, sq, cq, kernel, rc, ret, unseen, bad, batches, hiccups>>

SubmitEnter ==
  /\ pc = "submit"
  /\ \/ /\ \E n \in 1 .. to_submit : Take(n) /\ MaybeHiccup(n < to_submit)
        /\ pc' = IF to_submit' = 0 THEN "ready" ELSE "submit"
     \/ /\ Hiccup
        /\ pc' = "ready"
        /\ UNCHANGED <<to_submit, sq, kernel>>
  /\ UNCHANGED <<n_req, pending, req, cq, rc, ret, unseen, bad, batches>>

(* The kernel publishes the end of a read: some of the bytes that miss, all
   of them, none for the end of the file, or an error; EAGAIN stands for EINTR
   as well, EIO for all the others. *)
Complete(k) ==
  /\ k \in kernel
  /\ kernel' = kernel \ {k}
  /\ LET left == req[k.slot].bytes - req[k.slot].done IN
     \/ \E res \in 1 .. left : /\ cq' = Append(cq, [slot |-> k.slot, res |-> res])
                               /\ MaybeHiccup(res < left)
     \/ cq' = Append(cq, [slot |-> k.slot, res |-> -EAGAIN]) /\ Hiccup
     \/ \E res \in {0, -EIO} : /\ cq' = Append(cq, [slot |-> k.slot, res |-> res])
                               /\ UNCHANGED hiccups
  /\ UNCHANGED <<ring, sq, pc, rc, ret, unseen, bad, batches>>

-----------------------------------------------------------------------------
(* janas_uring_wait, and the turn of its loop: enter, with what is left to
   submit. *)
Wait ==
  /\ pc = "ready" /\ batches < MaxBatches
  /\ pc' = "wait" /\ rc' = 0
  /\ UNCHANGED <<ring, sq, cq, kernel, ret, unseen, bad, batches, hiccups>>

WaitEnter ==
  /\ pc = "wait" /\ pending > 0
  /\ \E n \in 0 .. to_submit : Take(n) /\ MaybeHiccup(n < to_submit)
  /\ pc' = "events"
  /\ UNCHANGED <<n_req, pending, req, cq, rc, ret, unseen, bad, batches>>

(* Back from enter: with a completion, or short of all it was given. *)
WaitEvents ==
  /\ pc = "events"
  /\ cq # <<>> \/ to_submit > 0
  /\ unseen' = Len(cq)
  /\ pc' = "reap"
  /\ UNCHANGED <<ring, sq, cq, kernel, rc, ret, bad, batches, hiccups>>

Done(i, res) == IF res > 0 THEN req[i].done + res ELSE req[i].done

(* Mutant: a short read is taken for a whole one. *)
Unfinished_NotShort(i, res) == res = -EAGAIN

(* What is short or was interrupted is to be queued again for the rest. *)
Unfinished(i, res) ==
  res = -EAGAIN \/ (res > 0 /\ Done(i, res) < req[i].bytes)

(* Mutant: a read queued again is not counted as one to submit. *)
Requeue_NotCounted(i) ==
  /\ sq' = Append(sq, i)
  /\ UNCHANGED <<pending, to_submit>>

(* queue_sqe *)
Requeue(i) ==
  /\ sq' = Append(sq, i)
  /\ to_submit' = to_submit + 1
  /\ UNCHANGED pending

(* Anything else ends the read, well or not. *)
Ends ==
  /\ pending' = pending - 1
  /\ UNCHANGED <<sq, to_submit>>

(* reap, one completion. *)
Reap ==
  /\ pc = "reap" /\ unseen > 0
  /\ LET i == Head(cq).slot
         res == Head(cq).res
         fails == res <= 0 /\ ~Unfinished(i, res)
     IN /\ req' = [req EXCEPT ![i].done = Done(i, res)]
        /\ IF Unfinished(i, res) THEN Requeue(i) ELSE Ends
        /\ rc' = IF fails THEN -1 ELSE rc
        /\ bad' = IF fails THEN bad \cup {i} ELSE bad
  /\ cq' = Tail(cq)
  /\ unseen' = unseen - 1
  /\ UNCHANGED <<n_req, kernel, pc, ret, batches, hiccups>>

ReapEnd ==
  /\ pc = "reap" /\ unseen = 0
  /\ pc' = "wait"
  /\ UNCHANGED <<ring, sq, cq, kernel, rc, ret, unseen, bad, batches, hiccups>>

(* The counts go back to nothing, the batch to the caller. *)
Return(r, to) ==
  /\ n_req' = 0 /\ pending' = 0 /\ to_submit' = 0
  /\ req' = [i \in Slots |-> [bytes |-> 0, done |-> 0]]
  /\ pc' = to /\ ret' = r /\ rc' = 0
  /\ bad' = {}
  /\ batches' = batches + 1
  /\ UNCHANGED <<sq, cq, kernel, unseen, hiccups>>

(* Mutant: the wait returns at the first failure. *)
WaitReturn_AtFailure ==
  pc = "wait" /\ (pending = 0 \/ rc = -1) /\ Return(rc, "ready")

(* The loop ends when the kernel has answered for every read of the batch. *)
WaitReturn == pc = "wait" /\ pending = 0 /\ Return(rc, "ready")

(* An enter of the wait fails, with an error that is not EINTR: the loop is
   left, whatever is in flight.  From here the counts say nothing of what the
   kernel holds, and the model stops. *)
WaitFails ==
  /\ pc = "wait" /\ pending > 0
  /\ Return(-1, "broken")

Kernel == \E k \in kernel : Complete(k)
Thread ==
  \/ SubmitEnter \/ WaitEnter \/ WaitEvents \/ Reap \/ ReapEnd \/ WaitReturn

Next ==
  \/ \E bytes \in Sizes : Read(bytes)
  \/ Submit \/ Wait
  \/ Thread \/ WaitFails
  \/ Kernel

(* The thread in a call runs on, and the kernel ends every read it has. *)
Fairness == WF_vars(Thread) /\ WF_vars(Kernel)

Spec == Init /\ [][Next]_vars /\ Fairness

-----------------------------------------------------------------------------
(* The types: a slot of the ring is never given twice in a batch, and the
   queues hold only slots of the ring. *)
TypeOK ==
  /\ n_req \in 0 .. Entries /\ pending \in Nat /\ to_submit \in Nat
  /\ req \in [Slots -> [bytes : Nat, done : Nat]]
  /\ sq \in Seq(Slots) /\ cq \in Seq([slot : Slots, res : Int])
  /\ kernel \subseteq [slot : Slots, of : Nat]
  /\ pc \in {"ready", "submit", "wait", "events", "reap", "broken"}
  /\ rc \in {0, -1} /\ ret \in {0, -1} /\ unseen \in Nat
  /\ bad \subseteq Slots
  /\ batches \in 0 .. MaxBatches /\ hiccups \in 0 .. MaxHiccups

(* The state of a read as its caller sees it. *)
State(i) ==
  IF i >= n_req THEN None
  ELSE IF i \in bad THEN "failed"
  ELSE IF req[i].done = req[i].bytes THEN "whole"
  ELSE "open"

Promise == INSTANCE AsyncReads WITH
             batch <- [i \in Slots |-> State(i)],
             waiting <- (pc \in {"wait", "events", "reap"}),
             ret <- ret

(* The ring keeps the promise of uring.h: wait returns when every read of the
   batch has ended, 0 only when each was read whole, and no read changes after
   its end: through short reads, interruptions, failures and a kernel that
   takes the entries as it likes; unless an enter of a wait itself fails. *)
KeepsPromise == Promise!ASpec

(* "until the kernel has answered, the buffers of the other reads are still its
   own" (janas_uring_wait): once a wait has returned no read of its batch is in
   either queue or in the kernel's hands. *)
BuffersBack ==
  pc = "ready" /\ n_req = 0 => sq = <<>> /\ cq = <<>> /\ kernel = {}

(* A wait returns: it never waits for a completion of a read that is neither in
   the submission queue and counted there nor in the kernel's hands. *)
WaitEnds == pc = "wait" ~> pc \in {"ready", "broken"}
=============================================================================
