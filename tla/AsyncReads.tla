----------------------------- MODULE AsyncReads -----------------------------
(***************************************************************************)
(* What common/uring.h promises of a ring: reads are queued in a batch,    *)
(* each of them ends read whole or failed, and the wait gives the batch    *)
(* back when every one has ended, saying whether one failed.               *)
(***************************************************************************)
EXTENDS Integers

CONSTANTS Entries, None

VARIABLES
  batch,   \* the reads of the batch, each "open", "whole" or "failed"
  waiting, \* a wait is under way
  ret      \* what the last wait returned

areads == <<batch, waiting, ret>>

Slots == 0 .. (Entries - 1)

AInit == batch = [i \in Slots |-> None] /\ waiting = FALSE /\ ret = 0

(* janas_uring_read: a buffer is lent. *)
AQueue(i) ==
  /\ ~waiting
  /\ batch[i] = None
  /\ batch' = [batch EXCEPT ![i] = "open"]
  /\ UNCHANGED <<waiting, ret>>

AWait == ~waiting /\ waiting' = TRUE /\ UNCHANGED <<batch, ret>>

(* A read ends, for good. *)
AEnd(i) ==
  /\ batch[i] = "open"
  /\ \E how \in {"whole", "failed"} : batch' = [batch EXCEPT ![i] = how]
  /\ UNCHANGED <<waiting, ret>>

(* janas_uring_wait returns: every buffer is back, and 0 says that all of
   them were filled. *)
AReturn ==
  /\ waiting
  /\ \A i \in Slots : batch[i] # "open"
  /\ batch' = [i \in Slots |-> None]
  /\ waiting' = FALSE
  /\ ret' = IF \E i \in Slots : batch[i] = "failed" THEN -1 ELSE 0

(* A wait that gives up: -1, and the buffers are no longer the caller's to use. *)
AGiveUp ==
  /\ waiting
  /\ batch' = [i \in Slots |-> None]
  /\ waiting' = FALSE
  /\ ret' = -1

ANext == (\E i \in Slots : AQueue(i) \/ AEnd(i)) \/ AWait \/ AReturn \/ AGiveUp

ASpec == AInit /\ [][ANext]_areads
=============================================================================
