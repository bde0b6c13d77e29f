--------------------------- MODULE BatchesProofs ---------------------------
(***************************************************************************)
(* Proofs about Batches, for any number of batches and lines, and of       *)
(* stops, kills, failures and evictions: when a line is taken up the work  *)
(* files hold exactly the lines before it, a batch nobody cancels ends     *)
(* with its answers, and progress and cancels do not overwrite each other. *)
(***************************************************************************)
EXTENDS Batches, FiniteSetTheorems, SequenceTheorems, TLAPS

Files == Seq(-NLines..NLines)
Rec == [status : Statuses, next : 0..NLines, bytes : [Kinds -> 0..(2 * NLines)],
        ok : 0..NLines, bad : 0..NLines, file : [Kinds -> Files]]

Running == {"read", "trim", "loop", "text", "nl", "save", "final", "add",
            "unlink", "end"}

TypeInv ==
  /\ doc \in [Ids -> Rec] /\ w \in Rec /\ copy \in Rec
  /\ work \in [Ids -> [Kinds -> Files]]
  /\ pc \in Running \cup {"idle", "asleep", "exit", "load"}
  /\ cur \in Ids /\ k \in Kinds /\ end \in Ended \ {"failed"}
  /\ mu \in Ids \cup {0} /\ toWake \subseteq Ids /\ stopping \in BOOLEAN
  /\ stops \in 0..MaxStops /\ crashes \in 0..MaxCrashes
  /\ faults \in 0..MaxFaults

(* A batch counts the lines it has run, and what it wrote of them: two units
   for each answer, and for each error too unless a write failed (n, the
   failures so far, is not 0).  One that
   is not begun has no progress. *)
Good(r, n) ==
  /\ r.ok + r.bad = r.next
  /\ r.bytes["out"] = 2 * r.ok
  /\ r.bytes["err"] <= 2 * r.bad
  /\ n = 0 => r.bytes["err"] = 2 * r.bad
  /\ r.status = "validating" => r = NewBatch
  /\ r.status = "evicted" => r = Evicted

RecInv == Good(w, faults) /\ Good(copy, faults) /\ \A b \in Ids : Good(doc[b], faults)

(* While a cancel holds mu only saves that leave the progress alone happen. *)
MuInv ==
  mu # 0 => /\ mu \in Cancellable /\ doc[mu].status # "none"
            /\ copy.status \in {"validating", "in_progress"}
            /\ doc[mu] # Evicted => copy.next = doc[mu].next

(* The worker's copy against the store's: the same until a line is run, but
   for a cancel and an eviction; then one line ahead until it is saved. *)
StageInv ==
  /\ pc = "load" => doc[cur].status \in Open \cup {"evicted"}
  /\ pc \in Running => doc[cur].status # "none"
  /\ pc \in Running => w.status \in Open
  /\ pc \in Running \ {"read"} => w.status # "validating"
  /\ pc \in {"text", "nl"} => w.status = "in_progress" /\ w.next < NLines
  /\ pc = "save" => w.status = "in_progress"
  /\ pc \in {"add", "unlink", "end"} =>
       /\ w.status = "finalizing"
       /\ doc[cur].status \in {"finalizing", "cancelling", "evicted"}
  /\ pc \in {"read", "trim", "loop", "text", "nl"} =>
       doc[cur] = w \/ doc[cur].status \in {"cancelling", "evicted"}
  /\ pc \in Running /\ doc[cur] # Evicted =>
       w.next = doc[cur].next + (IF pc = "save" THEN 1 ELSE 0)

(* What the files f begin with is the lines r counts, each once. *)
Begins(f, r) ==
  /\ \A x \in Kinds : /\ r.bytes[x] <= Len(f[x])
                      /\ \A i \in 1..r.bytes[x] :
                           IF i % 2 = 1 THEN f[x][i] \in 1..r.next ELSE f[x][i] = 0
  /\ \A x, y \in Kinds : \A i \in 1..r.bytes[x], j \in 1..r.bytes[y] :
       f[x][i] = f[y][j] /\ f[x][i] # 0 => x = y /\ i = j
  /\ \A l \in 1..r.next : \E x \in Kinds : \E i \in 1..r.bytes[x] : f[x][i] = l

(* The files hold nothing else. *)
NoMore(f, r) == \A x \in Kinds : Len(f[x]) = r.bytes[x]

WorkInv ==
  faults = 0 =>
    /\ \A b \in Ids : doc[b].status = "in_progress" => Begins(work[b], doc[b])
    /\ pc \in {"read", "trim", "loop", "text", "nl", "save"} /\ w.status = "in_progress"
         => Begins(work[cur], w)
    /\ pc \in {"loop", "text", "save"} /\ w.status = "in_progress" => NoMore(work[cur], w)
    /\ pc = "nl" => \A x \in Kinds :
         IF x = k THEN Len(work[cur][x]) = w.bytes[x] + 1 /\ work[cur][x][w.bytes[x] + 1] = Line
                  ELSE Len(work[cur][x]) = w.bytes[x]

Made(f, n) == Whole(f) /\ Len(f) = n
NoFiles(r) == \A x \in Kinds : r.file[x] = NoFile

(* A server never killed, with no failure: a batch that nobody may cancel is
   in the hands of the worker from finalizing on, and its work files are its
   Files or will be. *)
KeptInv ==
  (crashes = 0 /\ faults = 0) =>
    /\ \A b \in Ids \ Cancellable :
         /\ doc[b].status # "cancelling"
         /\ doc[b].status = "finalizing" => pc \in {"add", "unlink", "end"} /\ cur = b
         /\ doc[b].status \in {"validating", "in_progress"} => NoFiles(doc[b])
         /\ doc[b].status \in Ended \ {"failed"} =>
              \A x \in Kinds : Made(doc[b].file[x], doc[b].bytes[x])
    /\ cur \notin Cancellable =>
         /\ pc \in {"read", "trim", "loop", "text", "nl", "save", "final"} =>
              w.status \in {"validating", "in_progress"} /\ NoFiles(w)
         /\ pc = "final" => \A x \in Kinds : Made(work[cur][x], w.bytes[x])
         /\ pc = "add" => \A x \in Kinds :
              IF k = "err" /\ x = "out" THEN Made(w.file[x], w.bytes[x])
              ELSE Made(work[cur][x], w.bytes[x]) /\ w.file[x] = NoFile
         /\ pc = "unlink" => \A x \in Kinds :
              IF k = "err" \/ x = "out" THEN Made(w.file[x], w.bytes[x])
              ELSE Made(work[cur][x], w.bytes[x]) /\ w.file[x] = NoFile
         /\ pc = "end" => \A x \in Kinds : Made(w.file[x], w.bytes[x])

IInv == TypeInv /\ RecInv /\ MuInv /\ StageInv /\ WorkInv /\ KeptInv

-----------------------------------------------------------------------------
(* Records. *)
LEMMA Names ==
  /\ Kinds = {"out", "err"} /\ "out" # "err"
  /\ NLines \in Nat /\ Ids = 1..NBatches /\ NBatches \in Nat
  BY BatchesAssumption DEF Kinds, Ids

LEMMA FixedRecs ==
  /\ NewBatch \in Rec /\ NewBatch.status = "validating" /\ NewBatch.next = 0
  /\ NoDoc \in Rec /\ NoDoc.status = "none" /\ NoDoc.next = 0
  /\ Evicted \in Rec /\ Evicted.status = "evicted" /\ Evicted.next = 0
  /\ \A r \in {NewBatch, NoDoc, Evicted} :
       /\ r.ok = 0 /\ r.bad = 0 /\ \A x \in Kinds : r.bytes[x] = 0 /\ r.file[x] = NoFile
  <1>1. 0 \in 0..NLines /\ 0 \in 0..(2 * NLines) /\ NoFile \in Files
    BY BatchesAssumption DEF NoFile, Files
  <1>2. {"validating", "none", "evicted"} \subseteq Statuses
    BY DEF Statuses, Open
  <1>3. /\ NewBatch \in Rec /\ NewBatch.status = "validating" /\ NewBatch.next = 0
        /\ NewBatch.ok = 0 /\ NewBatch.bad = 0
        /\ \A x \in Kinds : NewBatch.bytes[x] = 0 /\ NewBatch.file[x] = NoFile
    BY <1>1, <1>2 DEF NewBatch, Rec
  <1>4. /\ NoDoc \in Rec /\ NoDoc.status = "none" /\ NoDoc.next = 0
        /\ NoDoc.ok = 0 /\ NoDoc.bad = 0
        /\ \A x \in Kinds : NoDoc.bytes[x] = 0 /\ NoDoc.file[x] = NoFile
    BY <1>1, <1>2 DEF NoDoc, NewBatch, Rec
  <1>5. /\ Evicted \in Rec /\ Evicted.status = "evicted" /\ Evicted.next = 0
        /\ Evicted.ok = 0 /\ Evicted.bad = 0
        /\ \A x \in Kinds : Evicted.bytes[x] = 0 /\ Evicted.file[x] = NoFile
    BY <1>1, <1>2 DEF Evicted, NewBatch, Rec
  <1> QED
    BY <1>3, <1>4, <1>5

(* A record with another status. *)
LEMMA WithStatus ==
  ASSUME NEW r \in Rec, NEW s \in Statuses, NEW q, q = [r EXCEPT !.status = s]
  PROVE  /\ q \in Rec /\ q.status = s /\ q.next = r.next /\ q.bytes = r.bytes
         /\ q.ok = r.ok /\ q.bad = r.bad /\ q.file = r.file
  BY DEF Rec

LEMMA GoodStatus ==
  ASSUME NEW r \in Rec, NEW n, Good(r, n), NEW s \in Statuses \ {"validating", "evicted"},
         NEW q, q = [r EXCEPT !.status = s]
  PROVE  q \in Rec /\ Good(q, n) /\ q.status = s /\ q.next = r.next
  <1>1. /\ q \in Rec /\ q.status = s /\ q.next = r.next /\ q.bytes = r.bytes
        /\ q.ok = r.ok /\ q.bad = r.bad
    BY WithStatus
  <1> QED
    BY <1>1 DEF Good

LEMMA FixedGood ==
  ASSUME NEW n
  PROVE  Good(NewBatch, n) /\ Good(NoDoc, n) /\ Good(Evicted, n)
  BY FixedRecs, Names DEF Good

(* A document saved, unless the store let it go. *)
LEMMA Updates ==
  ASSUME doc \in [Ids -> Rec], NEW b \in Ids, NEW r \in Rec, Updated(b, r)
  PROVE  /\ doc' \in [Ids -> Rec]
         /\ doc'[b] = IF doc[b] = Evicted THEN Evicted ELSE r
         /\ \A c \in Ids : c # b => doc'[c] = doc[c]
  BY DEF Updated

(* A work file written to at its end. *)
LEMMA Appends ==
  ASSUME work \in [Ids -> [Kinds -> Files]], cur \in Ids, NEW x \in Kinds, NEW u \in Files,
         work' = Appended(x, u)
  PROVE  /\ work' \in [Ids -> [Kinds -> Files]]
         /\ \A b \in Ids : b # cur => work'[b] = work[b]
         /\ \A y \in Kinds : y # x => work'[cur][y] = work[cur][y]
         /\ Len(work'[cur][x]) = Len(work[cur][x]) + Len(u)
         /\ \A i \in 1..Len(work[cur][x]) : work'[cur][x][i] = work[cur][x][i]
         /\ \A i \in 1..Len(u) : work'[cur][x][Len(work[cur][x]) + i] = u[i]
         /\ Len(work[cur][x]) \in Nat /\ Len(u) \in Nat
  <1> DEFINE f == work[cur][x]
             g == f \o u
  <1>1. f \in Files /\ Len(f) \in Nat /\ Len(u) \in Nat
    BY LenProperties DEF Files
  <1>2. /\ g \in Files /\ Len(g) = Len(f) + Len(u)
        /\ \A i \in 1 .. Len(f) + Len(u) : g[i] = IF i <= Len(f) THEN f[i] ELSE u[i - Len(f)]
    <2> HIDE DEF f
    <2> QED
      BY <1>1, ConcatProperties DEF Files
  <1>3. work' = [work EXCEPT ![cur] = [work[cur] EXCEPT ![x] = g]]
    BY DEF Appended
  <1>4. /\ work'[cur] = [work[cur] EXCEPT ![x] = g]
        /\ \A b \in Ids : b # cur => work'[b] = work[b]
    BY <1>3
  <1> HIDE DEF g
  <1>5. work'[cur][x] = g /\ \A y \in Kinds : y # x => work'[cur][y] = work[cur][y]
    BY <1>4
  <1>6. work' \in [Ids -> [Kinds -> Files]]
    BY <1>2, <1>3
  <1>7. \A i \in 1..Len(f) : g[i] = f[i]
    <2> HIDE DEF f
    <2> QED
      BY <1>1, <1>2
  <1>8. \A i \in 1..Len(u) : g[Len(f) + i] = u[i]
    <2> HIDE DEF f
    <2> SUFFICES ASSUME NEW i \in 1..Len(u) PROVE g[Len(f) + i] = u[i]
      OBVIOUS
    <2>1. Len(f) + i \in 1 .. Len(f) + Len(u) /\ ~(Len(f) + i <= Len(f)) /\ Len(f) + i - Len(f) = i
      BY <1>1
    <2> QED
      BY <1>2, <2>1
  <1> QED
    BY <1>1, <1>2, <1>4, <1>5, <1>6, <1>7, <1>8


LEMMA GoodKeeps ==
  ASSUME NEW r, NEW n, NEW m, Good(r, n), m = 0 => n = 0
  PROVE  Good(r, m)
  BY DEF Good

-----------------------------------------------------------------------------
(* The worker without a batch: what is on disk is as it was.  The server may
   have been killed anywhere, but stopped only where no batch is finalizing. *)
LEMMA Rest ==
  ASSUME IInv, UNCHANGED <<doc, work, faults>>, w' \in Rec, Good(w', faults),
         UNCHANGED <<mu, copy>> \/ (mu' = 0 /\ copy' = NoDoc),
         pc' \in {"idle", "asleep", "exit", "load"},
         pc' = "load" => doc[cur'].status \in Open,
         crashes' \in 0..MaxCrashes, crashes' = 0 => crashes = 0,
         pc \notin {"add", "unlink", "end"} \/ crashes' # 0,
         cur' \in Ids, k' \in Kinds, end' \in Ended \ {"failed"},
         toWake' \subseteq Ids, stopping' \in BOOLEAN, stops' \in 0..MaxStops
  PROVE  IInv'
  <1> USE DEF Running
  <1>1. TypeInv'
    BY FixedRecs DEF IInv, TypeInv
  <1>2. RecInv'
    BY FixedGood DEF IInv, RecInv
  <1>3. MuInv'
    BY DEF IInv, MuInv
  <1>4. StageInv'
    BY DEF StageInv
  <1>5. WorkInv'
    BY DEF IInv, WorkInv
  <1>6. KeptInv'
    BY DEF IInv, KeptInv
  <1> QED
    BY <1>1, <1>2, <1>3, <1>4, <1>5, <1>6 DEF IInv

(* The worker where it was, or woken. *)
Stays == /\ UNCHANGED <<work, cur, w, k, end, crashes, faults>>
         /\ pc' = pc \/ (pc = "asleep" /\ pc' = "idle")

(* Steps of the handlers that leave the store alone. *)
LEMMA Aside ==
  ASSUME IInv, Stays, doc' = doc, MuInv', copy' \in Rec, Good(copy', faults),
         mu' \in Ids \cup {0}, toWake' \subseteq Ids, stopping' \in BOOLEAN,
         stops' \in 0..MaxStops
  PROVE  IInv'
  <1> USE DEF Running, Stays
  <1>1. TypeInv'
    BY DEF IInv, TypeInv
  <1>2. RecInv'
    BY DEF IInv, RecInv
  <1>4. StageInv'
    BY DEF IInv, StageInv
  <1>5. WorkInv'
    BY DEF IInv, WorkInv, Line
  <1>6. KeptInv'
    BY DEF IInv, KeptInv
  <1> QED
    BY <1>1, <1>2, <1>4, <1>5, <1>6 DEF IInv

(* Steps of others on one document: created, cancelled or let go. *)
LEMMA Other ==
  ASSUME IInv, Stays, NEW b \in Ids, NEW r \in Rec, Good(r, faults),
         doc' \in [Ids -> Rec], doc'[b] = r, \A c \in Ids : c # b => doc'[c] = doc[c],
         \/ r.status = "validating" /\ doc[b].status = "none"
         \/ r.status = "cancelling" /\ b \in Cancellable /\ r.next = doc[b].next
            /\ doc[b].status \notin {"none", "evicted"}
         \/ r = Evicted,
         MuInv', copy' \in Rec, Good(copy', faults),
         mu' \in Ids \cup {0}, toWake' \subseteq Ids, UNCHANGED <<stopping, stops>>
  PROVE  IInv'
  <1> USE DEF Running, Stays
  <1>1. TypeInv'
    BY DEF IInv, TypeInv
  <1>2. RecInv'
    BY DEF IInv, RecInv
  <1>3. r.status = "validating" => NoFiles(r)
    BY FixedRecs DEF Good, NoFiles
  <1>4. StageInv'
    <2>1. cur \in Ids /\ doc[cur].status \in Statuses
      BY DEF IInv, TypeInv, Rec
    <2>2. CASE b # cur
      BY <2>1, <2>2 DEF IInv, StageInv
    <2>3. CASE b = cur /\ r.status = "validating"
      <3>1. pc \notin Running \cup {"load"}
        BY <2>3, FixedRecs DEF IInv, StageInv, Open
      <3> QED
        BY <3>1 DEF StageInv
    <2>4. CASE b = cur /\ r.status = "cancelling"
      <3>1. r.next = doc[cur].next /\ doc[cur] # Evicted /\ doc'[cur] = r
        BY <2>4, FixedRecs
      <3> QED
        BY <2>1, <2>4, <3>1 DEF IInv, StageInv, Open
    <2>5. CASE b = cur /\ r = Evicted
      BY <2>1, <2>5, FixedRecs DEF IInv, StageInv
    <2> QED
      BY <2>2, <2>3, <2>4, <2>5
  <1>5. WorkInv'
    <2>1. r.status # "in_progress"
      BY FixedRecs
    <2>2. \A c \in Ids : doc'[c].status = "in_progress" => doc'[c] = doc[c]
      BY <2>1
    <2> QED
      BY <2>2 DEF IInv, WorkInv, Line
  <1>6. KeptInv'
    <2>1. \A c \in Ids : c \notin Cancellable =>
            \/ doc'[c] = doc[c] \/ doc'[c].status = "evicted"
            \/ doc'[c].status = "validating" /\ NoFiles(doc'[c])
      BY <1>3, FixedRecs
    <2>2. /\ "evicted" \notin {"cancelling", "finalizing", "validating", "in_progress"}
          /\ "evicted" \notin Ended /\ "validating" \notin Ended
      BY DEF Ended
    <2> QED
      BY <2>1, <2>2 DEF IInv, KeptInv
  <1> QED
    BY <1>1, <1>2, <1>4, <1>5, <1>6 DEF IInv

(* A set of numbers has a first. *)
LEMMA First ==
  ASSUME NEW S \in SUBSET Nat, S # {}
  PROVE  \E x \in S : \A y \in S : x <= y
  <1>1. PICK x \in S : \A y \in S : <<y, x>> \notin OpToRel(<, Nat)
    BY NatLessThanWellFounded, WFMin
  <1>2. \A y \in S : ~(y < x)
    BY <1>1 DEF OpToRel
  <1> QED
    BY <1>2

(* next_batch takes the oldest batch with work left. *)
LEMMA Chosen ==
  ASSUME Waiting # {}, NEW m, m = CHOOSE b \in Waiting : \A c \in Waiting : b <= c
  PROVE  m \in Ids /\ doc[m].status \in Open
  <1>1. Waiting \subseteq Ids /\ Ids = 1..NBatches /\ NBatches \in Nat
    BY Names DEF Waiting
  <1>2. Waiting \in SUBSET Nat
    BY <1>1
  <1>3. PICK x \in Waiting : \A y \in Waiting : x <= y
    BY <1>2, First
  <1>4. m \in Waiting
    BY <1>3
  <1> QED
    BY <1>4 DEF Waiting

LEMMA RestSteps ==
  ASSUME IInv,
         next_batch \/ Sleep \/ Exit \/ LoadGone \/ LoopStop \/ Start \/ Crash
  PROVE  IInv'
  <1>1. /\ UNCHANGED <<doc, work, faults>>
        /\ UNCHANGED <<mu, copy>> \/ (mu' = 0 /\ copy' = NoDoc)
    BY DEF next_batch, Sleep, Exit, LoadGone, LoopStop, Start, Crash, Fresh,
           handlerVars, countVars
  <1>2. w' = w \/ w' = NoDoc
    BY DEF next_batch, Sleep, Exit, LoadGone, LoopStop, Start, Crash, Fresh
  <1>3. w' \in Rec /\ Good(w', faults)
    BY <1>2, FixedRecs, FixedGood DEF IInv, TypeInv, RecInv
  <1>4. TypeInv /\ "completed" \in Ended \ {"failed"} /\ 1 \in Ids /\ "out" \in Kinds
    BY BatchesAssumption DEF IInv, Ended, Ids, Kinds
  <1>5. /\ k' \in Kinds /\ end' \in Ended \ {"failed"} /\ toWake' \subseteq Ids
        /\ stopping' \in BOOLEAN /\ stops' \in 0..MaxStops
    BY <1>4 DEF next_batch, Sleep, Exit, LoadGone, LoopStop, Start, Crash, Fresh,
                handlerVars, countVars, TypeInv
  <1>6. crashes' \in 0..MaxCrashes /\ (crashes' = 0 => crashes = 0)
    <2>1. CASE Crash
      BY <1>4, <2>1, BatchesAssumption DEF Crash, TypeInv
    <2>2. CASE ~Crash
      <3>1. crashes' = crashes
        BY <2>2 DEF next_batch, Sleep, Exit, LoadGone, LoopStop, Start, countVars
      <3> QED
        BY <1>4, <3>1 DEF TypeInv
    <2> QED
      BY <2>1, <2>2
  <1>7. pc \notin {"add", "unlink", "end"} \/ crashes' # 0
    BY <1>4, BatchesAssumption
       DEF next_batch, Sleep, Exit, LoadGone, LoopStop, Start, Crash, Worker, TypeInv
  <1>8. pc' \in {"idle", "asleep", "exit", "load"}
    BY DEF next_batch, Sleep, Exit, LoadGone, LoopStop, Start, Crash, Fresh, Worker
  <1>9. cur' \in Ids /\ (pc' = "load" => doc[cur'].status \in Open)
    <2>1. CASE next_batch
      <3>1. Waiting # {} /\ cur' = CHOOSE b \in Waiting : \A c \in Waiting : b <= c
        BY <2>1 DEF next_batch
      <3>2. PICK m : m = CHOOSE b \in Waiting : \A c \in Waiting : b <= c
        OBVIOUS
      <3>3. m \in Ids /\ doc[m].status \in Open
        BY <3>1, <3>2, Chosen
      <3> QED
        BY <3>1, <3>2, <3>3
    <2>2. CASE ~next_batch
      BY <1>4, <2>2 DEF Sleep, Exit, LoadGone, LoopStop, Start, Crash, Fresh, Worker, TypeInv
    <2> QED
      BY <2>1, <2>2
  <1> QED
    BY <1>1, <1>3, <1>5, <1>6, <1>7, <1>8, <1>9, Rest

LEMMA AsideSteps ==
  ASSUME IInv, CreateWake \/ Stop \/ CancelLoad
  PROVE  IInv'
  <1>1. TypeInv /\ MuInv /\ RecInv
    BY DEF IInv
  <1>2. Stays /\ doc' = doc
    BY DEF CreateWake, Stop, CancelLoad, Stays, Woken, workerVars, countVars
  <1>3. toWake' \subseteq Ids /\ stopping' \in BOOLEAN /\ stops' \in 0..MaxStops
    <2>1. CASE CreateWake
      BY <1>1, <2>1 DEF TypeInv, CreateWake, countVars
    <2>2. CASE Stop
      BY <1>1, <2>2, BatchesAssumption DEF TypeInv, Stop, handlerVars
    <2>3. CASE CancelLoad
      BY <1>1, <2>3 DEF TypeInv, CancelLoad, countVars
    <2> QED
      BY <2>1, <2>2, <2>3
  <1>4. CASE CreateWake \/ Stop
    <2>1. UNCHANGED <<mu, copy>>
      BY <1>4 DEF CreateWake, Stop, handlerVars
    <2>2. MuInv' /\ copy' \in Rec /\ Good(copy', faults) /\ mu' \in Ids \cup {0}
      BY <1>1, <1>2, <2>1 DEF MuInv, TypeInv, RecInv
    <2> QED
      BY <1>2, <1>3, <2>2, Aside
  <1>5. CASE CancelLoad
    <2>1. PICK b \in Cancellable : /\ doc[b].status \in {"validating", "in_progress"}
                                   /\ mu' = b /\ copy' = doc[b]
      BY <1>5 DEF CancelLoad
    <2>2. b \in Ids
      BY BatchesAssumption DEF Ids
    <2>3. MuInv' /\ copy' \in Rec /\ Good(copy', faults) /\ mu' \in Ids \cup {0}
      BY <1>1, <1>2, <2>1, <2>2 DEF MuInv, TypeInv, RecInv
    <2> QED
      BY <1>2, <1>3, <2>3, Aside
  <1> QED
    BY <1>4, <1>5

LEMMA OtherSteps ==
  ASSUME IInv, Create \/ CancelSave \/ Evict
  PROVE  IInv'
  <1>1. TypeInv /\ MuInv /\ RecInv
    BY DEF IInv
  <1>2. Stays /\ UNCHANGED <<stopping, stops>>
    BY DEF Create, CancelSave, Evict, Stays, Woken, workerVars, countVars
  <1>3. CASE Create
    <2>1. PICK b \in Ids : /\ doc[b] = NoDoc /\ doc' = [doc EXCEPT ![b] = NewBatch]
                           /\ toWake' = toWake \cup {b}
      BY <1>3 DEF Create
    <2>2. UNCHANGED <<mu, copy>>
      BY <1>3 DEF Create
    <2>3. /\ doc' \in [Ids -> Rec] /\ doc'[b] = NewBatch
          /\ \A c \in Ids : c # b => doc'[c] = doc[c]
      BY <1>1, <2>1, FixedRecs DEF TypeInv
    <2>4. toWake' \subseteq Ids /\ mu' \in Ids \cup {0} /\ copy' \in Rec /\ Good(copy', faults)
      BY <1>1, <2>1, <2>2 DEF TypeInv, RecInv
    <2>5. MuInv'
      <3>1. mu # b
        BY <1>1, <2>1, FixedRecs, Names DEF MuInv
      <3> QED
        BY <1>1, <2>2, <2>3, <3>1 DEF MuInv, TypeInv
    <2> QED
      BY <1>2, <2>1, <2>3, <2>4, <2>5, FixedRecs, FixedGood, Other
  <1>4. CASE CancelSave
    <2>1. PICK b : b = mu
      OBVIOUS
    <2>2. PICK r : r = [copy EXCEPT !.status = "cancelling"]
      OBVIOUS
    <2>3. /\ b \in Ids /\ b \in Cancellable /\ Updated(b, r)
          /\ mu' = 0 /\ copy' = NoDoc /\ toWake' = toWake
      BY <1>1, <1>4, <2>1, <2>2, Names DEF CancelSave, MuInv
    <2>4. "cancelling" \in Statuses \ {"validating", "evicted"}
      BY DEF Statuses, Open
    <2>5. r \in Rec /\ Good(r, faults) /\ r.status = "cancelling" /\ r.next = copy.next
      BY <1>1, <2>2, <2>4, GoodStatus DEF TypeInv, RecInv
    <2>6. /\ doc' \in [Ids -> Rec]
          /\ doc'[b] = IF doc[b] = Evicted THEN Evicted ELSE r
          /\ \A c \in Ids : c # b => doc'[c] = doc[c]
      BY <1>1, <2>3, <2>5, Updates DEF TypeInv
    <2>7. toWake' \subseteq Ids /\ mu' \in Ids \cup {0} /\ copy' \in Rec /\ Good(copy', faults)
      BY <1>1, <2>3, FixedRecs, FixedGood DEF TypeInv
    <2>8. MuInv'
      BY <2>3 DEF MuInv
    <2>9. CASE doc[b] = Evicted
      BY <1>2, <2>3, <2>6, <2>7, <2>8, <2>9, FixedRecs, FixedGood, Other
    <2>10. CASE doc[b] # Evicted
      <3>1. r.next = doc[b].next /\ doc[b].status \notin {"none", "evicted"}
        BY <1>1, <2>1, <2>3, <2>5, <2>10, Names DEF MuInv, RecInv, Good
      <3> QED
        BY <1>2, <2>3, <2>5, <2>6, <2>7, <2>8, <2>10, <3>1, Other
    <2> QED
      BY <2>9, <2>10
  <1>5. CASE Evict
    <2>1. PICK b \in Ids : doc' = [doc EXCEPT ![b] = Evicted]
      BY <1>5 DEF Evict
    <2>2. UNCHANGED <<mu, copy, toWake>>
      BY <1>5 DEF Evict, handlerVars
    <2>3. /\ doc' \in [Ids -> Rec] /\ doc'[b] = Evicted
          /\ \A c \in Ids : c # b => doc'[c] = doc[c]
      BY <1>1, <2>1, FixedRecs DEF TypeInv
    <2>4. toWake' \subseteq Ids /\ mu' \in Ids \cup {0} /\ copy' \in Rec /\ Good(copy', faults)
      BY <1>1, <2>2 DEF TypeInv, RecInv
    <2>5. MuInv'
      BY <1>1, <2>2, <2>3, FixedRecs DEF MuInv, TypeInv
    <2> QED
      BY <1>2, <2>3, <2>4, <2>5, FixedRecs, FixedGood, Other
  <1> QED
    BY <1>3, <1>4, <1>5


-----------------------------------------------------------------------------
(* Work files. *)
LEMMA NoFileMade == Made(NoFile, 0) /\ NoFile \in Files
  BY DEF Made, Whole, NoFile, Files

(* What a record counts depends on the beginning of the files alone. *)
LEMMA BeginsKeeps ==
  ASSUME NEW f, NEW g, NEW r, Begins(f, r),
         \A x \in Kinds : r.bytes[x] <= Len(g[x]),
         \A x \in Kinds : \A i \in 1..r.bytes[x] : g[x][i] = f[x][i]
  PROVE  Begins(g, r)
  <1>1. \A x, y \in Kinds : \A i \in 1..r.bytes[x], j \in 1..r.bytes[y] :
          g[x][i] = g[y][j] /\ g[x][i] # 0 => x = y /\ i = j
    BY DEF Begins
  <1>2. \A l \in 1..r.next : \E x \in Kinds : \E i \in 1..r.bytes[x] : g[x][i] = l
    BY DEF Begins
  <1>3. \A x \in Kinds : \A i \in 1..r.bytes[x] :
          IF i % 2 = 1 THEN g[x][i] \in 1..r.next ELSE g[x][i] = 0
    BY DEF Begins
  <1> QED
    BY <1>1, <1>2, <1>3 DEF Begins

LEMMA NothingBegins ==
  ASSUME NEW f \in [Kinds -> Files], NEW r, r.next = 0, \A x \in Kinds : r.bytes[x] = 0
  PROVE  Begins(f, r)
  <1>1. \A x \in Kinds : Len(f[x]) \in Nat
    BY LenProperties DEF Files
  <1> QED
    BY <1>1 DEF Begins

(* Files that hold the lines counted and nothing else are whole. *)
LEMMA MadeOf ==
  ASSUME NEW f \in [Kinds -> Files], NEW r \in Rec, Good(r, 0), Begins(f, r), NoMore(f, r)
  PROVE  \A x \in Kinds : Made(f[x], r.bytes[x])
  <1> SUFFICES ASSUME NEW x \in Kinds PROVE Made(f[x], r.bytes[x])
    OBVIOUS
  <1>1. /\ r.ok \in Nat /\ r.bad \in Nat /\ r.next \in Nat /\ r.bytes[x] \in Nat
        /\ Len(f[x]) = r.bytes[x]
    BY BatchesAssumption DEF NoMore, Rec
  <1>2. \E n \in Nat : r.bytes[x] = 2 * n
    BY <1>1 DEF Good, Kinds
  <1>3. Len(f[x]) % 2 = 0
    BY <1>1, <1>2
  <1>4. \A i \in 1..Len(f[x]) : IF i % 2 = 1 THEN f[x][i] > 0 ELSE f[x][i] = 0
    <2> SUFFICES ASSUME NEW i \in 1..r.bytes[x]
                 PROVE  IF i % 2 = 1 THEN f[x][i] > 0 ELSE f[x][i] = 0
      BY <1>1
    <2>1. IF i % 2 = 1 THEN f[x][i] \in 1..r.next ELSE f[x][i] = 0
      BY DEF Begins
    <2> QED
      BY <1>1, <2>1
  <1>5. \A i, j \in 1..Len(f[x]) : (f[x][i] = f[x][j] /\ f[x][i] # 0) => i = j
    BY <1>1 DEF Begins
  <1> QED
    BY <1>1, <1>3, <1>4, <1>5 DEF Made, Whole

LEMMA Trimmed ==
  ASSUME NEW f \in Files, NEW n \in Nat, NEW g, g = trim_work(f, n)
  PROVE  /\ g \in Files
         /\ n <= Len(f) => Len(g) = n /\ \A i \in 1..n : g[i] = f[i]
  <1>1. f \in Seq(-NLines..NLines) /\ Len(f) \in Nat
    BY LenProperties DEF Files
  <1>2. CASE n < Len(f)
    <2>1. g = SubSeq(f, 1, n)
      BY <1>2 DEF trim_work
    <2>2. PICK S : S = -NLines..NLines
      OBVIOUS
    <2>3. f \in Seq(S) /\ n <= Len(f)
      BY <1>1, <1>2, <2>2
    <2>4. g \in Seq(S) /\ Len(g) = n /\ \A i \in 1..n : g[i] = f[i]
      BY <1>1, <2>1, <2>3
    <2> QED
      BY <2>2, <2>4 DEF Files
  <1>3. CASE ~(n < Len(f))
    BY <1>1, <1>3 DEF trim_work
  <1> QED
    BY <1>2, <1>3

-----------------------------------------------------------------------------
(* The worker's steps. *)

(* A save of its batch. *)
LEMMA Saves ==
  ASSUME IInv, NEW r \in Rec, Good(r, faults'), Updated(cur, r), r.status # "none",
         mu = 0 \/ (doc[cur] # Evicted => r.next = doc[cur].next),
         UNCHANGED <<mu, copy>>, faults' = 0 => faults = 0
  PROVE  /\ doc' \in [Ids -> Rec]
         /\ doc'[cur] = IF doc[cur] = Evicted THEN Evicted ELSE r
         /\ \A c \in Ids : c # cur => doc'[c] = doc[c]
         /\ \A b \in Ids : Good(doc'[b], faults')
         /\ MuInv'
  <1>1. TypeInv /\ MuInv /\ RecInv /\ cur \in Ids
    BY DEF IInv, TypeInv
  <1>2. /\ doc' \in [Ids -> Rec]
        /\ doc'[cur] = IF doc[cur] = Evicted THEN Evicted ELSE r
        /\ \A c \in Ids : c # cur => doc'[c] = doc[c]
    BY <1>1, Updates DEF TypeInv
  <1>3. \A b \in Ids : Good(doc'[b], faults')
    BY <1>1, <1>2, FixedGood, GoodKeeps DEF RecInv
  <1>4. MuInv'
    BY <1>1, <1>2, FixedRecs DEF MuInv, TypeInv
  <1> QED
    BY <1>2, <1>3, <1>4

(* How far it is ahead of the store. *)
LEMMA Ahead ==
  ASSUME IInv, pc \in Running, doc[cur] # Evicted
  PROVE  /\ pc # "save" => w.next = doc[cur].next
         /\ pc = "save" => w.next = doc[cur].next + 1
  <1>1. doc[cur].next \in Nat
    BY Names DEF IInv, TypeInv, Rec
  <1> QED
    BY <1>1 DEF IInv, StageInv

LEMMA LoadStep ==
  ASSUME IInv, Load
  PROVE  IInv'
  <1> USE DEF Running
  <1>1. /\ pc = "load" /\ pc' = "read" /\ doc[cur] # Evicted /\ w' = doc[cur] /\ end' = "completed"
        /\ UNCHANGED <<doc, work, cur, k, mu, copy, toWake, stopping, stops, crashes, faults>>
    BY DEF Load, Worker, handlerVars, countVars
  <1>2. cur \in Ids /\ doc[cur] \in Rec /\ Good(doc[cur], faults)
    BY DEF IInv, TypeInv, RecInv
  <1>3. doc[cur].status \in Open
    BY <1>1, <1>2 DEF IInv, StageInv, Good
  <1>4. TypeInv'
    BY <1>1, <1>2 DEF IInv, TypeInv, Ended
  <1>5. RecInv' /\ MuInv'
    BY <1>1, <1>2 DEF IInv, RecInv, MuInv
  <1>6. StageInv'
    BY <1>1, <1>2, <1>3, Names DEF StageInv, Open, Rec
  <1>7. WorkInv'
    BY <1>1, <1>2 DEF IInv, WorkInv
  <1>8. KeptInv'
    BY <1>1, <1>2, <1>3 DEF IInv, KeptInv, Open
  <1> QED
    BY <1>4, <1>5, <1>6, <1>7, <1>8 DEF IInv

LEMMA BeginFailedStep ==
  ASSUME IInv, BeginFailed
  PROVE  IInv'
  <1> USE DEF Running
  <1>1. PICK r : r = [w EXCEPT !.status = "failed"]
    OBVIOUS
  <1>2. /\ pc = "read" /\ pc' = "idle" /\ Updated(cur, r) /\ w' = NoDoc
        /\ UNCHANGED <<work, cur, k, end, mu, copy, toWake, stopping, stops, crashes>>
    BY <1>1 DEF BeginFailed, Worker, Save, handlerVars
  <1>3. faults' \in 0..MaxFaults /\ (faults' = 0 => faults = 0)
    BY BatchesAssumption DEF BeginFailed, Fault, IInv, TypeInv
  <1>4. "failed" \in Statuses \ {"validating", "evicted"}
    BY DEF Statuses, Ended
  <1>5. w \in Rec /\ Good(w, faults)
    BY DEF IInv, TypeInv, RecInv
  <1>6. r \in Rec /\ Good(r, faults) /\ r.status = "failed" /\ r.next = w.next
    BY <1>1, <1>4, <1>5, GoodStatus
  <1>7. Good(r, faults') /\ r.status # "none" /\ (doc[cur] # Evicted => r.next = doc[cur].next)
    BY <1>2, <1>3, <1>6, Ahead, GoodKeeps
  <1>8. /\ doc' \in [Ids -> Rec]
        /\ doc'[cur] = IF doc[cur] = Evicted THEN Evicted ELSE r
        /\ \A c \in Ids : c # cur => doc'[c] = doc[c]
        /\ \A b \in Ids : Good(doc'[b], faults')
        /\ MuInv'
    BY <1>2, <1>3, <1>6, <1>7, Saves
  <1>9. doc'[cur].status \in {"failed", "evicted"}
    BY <1>6, <1>8, FixedRecs
  <1>10. TypeInv'
    BY <1>2, <1>3, <1>8, FixedRecs DEF IInv, TypeInv
  <1>11. RecInv'
    BY <1>2, <1>3, <1>8, FixedGood, GoodKeeps DEF IInv, RecInv
  <1>12. StageInv'
    BY <1>2 DEF StageInv
  <1>13. WorkInv'
    BY <1>2, <1>3, <1>8, <1>9 DEF IInv, WorkInv
  <1>14. KeptInv'
    <2>1. "evicted" \notin Ended
      BY DEF Ended
    <2> QED
      BY <1>2, <1>3, <1>8, <1>9, <2>1 DEF IInv, KeptInv
  <1> QED
    BY <1>8, <1>10, <1>11, <1>12, <1>13, <1>14 DEF IInv


LEMMA BeginStep ==
  ASSUME IInv, Begin
  PROVE  IInv'
  <1> USE DEF Running
  <1>1. /\ pc = "read" /\ pc' = "trim"
        /\ UNCHANGED <<work, cur, k, end, mu, copy, toWake, stopping, stops, crashes, faults>>
    BY DEF Begin, Worker, handlerVars, countVars
  <1>2. /\ TypeInv /\ RecInv /\ MuInv /\ cur \in Ids /\ w \in Rec /\ Good(w, faults)
        /\ work[cur] \in [Kinds -> Files]
    BY DEF IInv, TypeInv, RecInv
  <1>3. CASE w.status # "validating"
    <2>1. UNCHANGED <<w, doc>>
      BY <1>3 DEF Begin
    <2>2. TypeInv'
      BY <1>1, <1>2, <2>1 DEF TypeInv
    <2>3. RecInv' /\ MuInv'
      BY <1>1, <1>2, <2>1 DEF RecInv, MuInv
    <2>4. StageInv'
      BY <1>1, <1>3, <2>1 DEF IInv, StageInv
    <2>5. WorkInv'
      BY <1>1, <2>1 DEF IInv, WorkInv
    <2>6. KeptInv'
      BY <1>1, <2>1 DEF IInv, KeptInv
    <2> QED
      BY <2>2, <2>3, <2>4, <2>5, <2>6 DEF IInv
  <1>4. CASE w.status = "validating"
    <2>1. w = NewBatch
      BY <1>2, <1>4 DEF Good
    <2>2. w' = [w EXCEPT !.status = "in_progress", !.next = 0] /\ Save(w')
      BY <1>4 DEF Begin
    <2>3. PICK r : r = [w EXCEPT !.status = "in_progress", !.next = 0]
      OBVIOUS
    <2>4. /\ r \in Rec /\ r.status = "in_progress" /\ r.next = 0 /\ r.ok = 0 /\ r.bad = 0
          /\ \A x \in Kinds : r.bytes[x] = 0 /\ r.file[x] = NoFile
      <3> DEFINE q == [w EXCEPT !.status = "in_progress"]
      <3>1. "in_progress" \in Statuses
        BY DEF Statuses, Open
      <3>2. /\ q \in Rec /\ q.status = "in_progress" /\ q.next = w.next /\ q.bytes = w.bytes
            /\ q.ok = w.ok /\ q.bad = w.bad /\ q.file = w.file
        BY <1>2, <3>1, WithStatus
      <3>3. r = [q EXCEPT !.next = 0]
        BY <2>3
      <3> HIDE DEF q
      <3>4. /\ r \in Rec /\ r.status = "in_progress" /\ r.next = 0 /\ r.bytes = w.bytes
            /\ r.ok = w.ok /\ r.bad = w.bad /\ r.file = w.file
        BY <3>2, <3>3, Names DEF Rec
      <3> QED
        BY <2>1, <3>4, FixedRecs
    <2>5. Good(r, faults)
      BY <2>4, Names DEF Good
    <2>6. doc[cur] # Evicted => r.next = doc[cur].next
      BY <1>1, <2>1, <2>4, Ahead, FixedRecs
    <2>7. /\ doc' \in [Ids -> Rec]
          /\ doc'[cur] = IF doc[cur] = Evicted THEN Evicted ELSE r
          /\ \A c \in Ids : c # cur => doc'[c] = doc[c]
          /\ \A b \in Ids : Good(doc'[b], faults')
          /\ MuInv'
      <3>1. Updated(cur, r) /\ r.status # "none" /\ Good(r, faults')
        BY <1>1, <2>2, <2>3, <2>4, <2>5 DEF Save
      <3> QED
        BY <1>1, <2>4, <2>6, <3>1, Saves
    <2>8. w' = r
      BY <2>2, <2>3
    <2>9. Begins(work[cur], r) /\ NoFiles(r)
      BY <1>2, <2>4, NothingBegins DEF NoFiles
    <2>10. TypeInv'
      BY <1>1, <1>2, <2>4, <2>7, <2>8 DEF TypeInv
    <2>11. RecInv'
      BY <1>1, <1>2, <2>5, <2>7, <2>8 DEF RecInv
    <2>12. StageInv'
      BY <1>1, <2>4, <2>7, <2>8, FixedRecs DEF StageInv, Open
    <2>13. WorkInv'
      BY <1>1, <2>7, <2>8, <2>9, FixedRecs DEF IInv, WorkInv
    <2>14. KeptInv'
      <3>1. "evicted" \notin Ended /\ "in_progress" \notin Ended
        BY DEF Ended
      <3>2. \A b \in Ids : \/ doc'[b] = doc[b] \/ doc'[b].status = "evicted"
                           \/ doc'[b].status = "in_progress" /\ NoFiles(doc'[b])
        BY <2>4, <2>7, <2>9, FixedRecs
      <3> QED
        BY <1>1, <2>4, <2>8, <2>9, <3>1, <3>2 DEF IInv, KeptInv
    <2> QED
      BY <2>7, <2>10, <2>11, <2>12, <2>13, <2>14 DEF IInv
  <1> QED
    BY <1>3, <1>4

LEMMA TrimStep ==
  ASSUME IInv, Trim
  PROVE  IInv'
  <1> USE DEF Running
  <1>1. /\ pc = "trim" /\ pc' = "loop"
        /\ work' = [work EXCEPT ![cur] = [x \in Kinds |-> trim_work(work[cur][x], w.bytes[x])]]
        /\ UNCHANGED <<doc, w, cur, k, end, mu, copy, toWake, stopping, stops, crashes, faults>>
    BY DEF Trim, Worker, handlerVars, countVars
  <1>2. /\ TypeInv /\ RecInv /\ MuInv /\ cur \in Ids /\ w \in Rec
        /\ work[cur] \in [Kinds -> Files]
    BY DEF IInv, TypeInv, RecInv
  <1>3. \A x \in Kinds : w.bytes[x] \in Nat /\ work[cur][x] \in Files
    BY <1>2, Names DEF Rec
  <1> DEFINE g == [x \in Kinds |-> trim_work(work[cur][x], w.bytes[x])]
  <1>4. /\ g \in [Kinds -> Files]
        /\ \A x \in Kinds : w.bytes[x] <= Len(work[cur][x]) =>
             Len(g[x]) = w.bytes[x] /\ \A i \in 1..w.bytes[x] : g[x][i] = work[cur][x][i]
    <2>1. ASSUME NEW x \in Kinds
          PROVE  /\ g[x] \in Files
                 /\ w.bytes[x] <= Len(work[cur][x]) =>
                      Len(g[x]) = w.bytes[x] /\ \A i \in 1..w.bytes[x] : g[x][i] = work[cur][x][i]
      <3>1. PICK h : h = g[x]
        OBVIOUS
      <3>2. h = trim_work(work[cur][x], w.bytes[x])
        BY <3>1
      <3> QED
        BY <1>3, <3>1, <3>2, Trimmed
    <2> QED
      BY <2>1
  <1>5. /\ work' \in [Ids -> [Kinds -> Files]] /\ work'[cur] = g
        /\ \A b \in Ids : b # cur => work'[b] = work[b]
    <2>1. work' = [work EXCEPT ![cur] = g]
      BY <1>1
    <2> HIDE DEF g
    <2> QED
      BY <1>2, <1>4, <2>1 DEF TypeInv
  <1> HIDE DEF g
  <1>6. Begins(work[cur], w) => Begins(g, w) /\ NoMore(g, w)
    <2> SUFFICES ASSUME Begins(work[cur], w) PROVE Begins(g, w) /\ NoMore(g, w)
      OBVIOUS
    <2>1. \A x \in Kinds : w.bytes[x] <= Len(work[cur][x])
      BY DEF Begins
    <2>2. \A x \in Kinds : Len(g[x]) = w.bytes[x] /\ \A i \in 1..w.bytes[x] : g[x][i] = work[cur][x][i]
      BY <1>4, <2>1
    <2>3. \A x \in Kinds : w.bytes[x] <= Len(g[x])
      BY <1>3, <2>2
    <2>4. Begins(g, w)
      BY <2>2, <2>3, BeginsKeeps
    <2> QED
      BY <2>2, <2>4 DEF NoMore
  <1>7. TypeInv'
    BY <1>1, <1>2, <1>5 DEF TypeInv
  <1>8. RecInv' /\ MuInv'
    BY <1>1, <1>2 DEF RecInv, MuInv
  <1>9. StageInv'
    BY <1>1 DEF IInv, StageInv
  <1>10. WorkInv'
    <2> SUFFICES ASSUME faults = 0
                 PROVE  /\ \A b \in Ids : doc[b].status = "in_progress" => Begins(work'[b], doc[b])
                        /\ w.status = "in_progress" => Begins(g, w) /\ NoMore(g, w)
      BY <1>1, <1>5 DEF WorkInv
    <2>1. w.status = "in_progress" => Begins(g, w) /\ NoMore(g, w)
      BY <1>1, <1>6 DEF IInv, WorkInv
    <2>2. doc[cur].status = "in_progress" => doc[cur] = w
      BY <1>1 DEF IInv, StageInv
    <2> QED
      BY <1>5, <2>1, <2>2 DEF IInv, WorkInv
  <1>11. KeptInv'
    BY <1>1 DEF IInv, KeptInv
  <1> QED
    BY <1>7, <1>8, <1>9, <1>10, <1>11 DEF IInv


(* The loop left for finalize, or for a line. *)
LEMMA LoopSteps ==
  ASSUME IInv, LoopLine \/ LoopEnd
  PROVE  IInv'
  <1> USE DEF Running
  <1>1. /\ pc = "loop" /\ pc' \in {"final", "text"}
        /\ UNCHANGED <<doc, work, cur, k, mu, copy, toWake, stopping, stops, crashes, faults>>
    BY DEF LoopLine, LoopEnd, Worker, handlerVars, countVars
  <1>2. /\ TypeInv /\ RecInv /\ MuInv /\ cur \in Ids /\ w \in Rec /\ Good(w, faults)
        /\ work[cur] \in [Kinds -> Files]
    BY DEF IInv, TypeInv, RecInv
  <1>3. end' \in Ended \ {"failed"}
    BY <1>2 DEF LoopLine, LoopEnd, TypeInv, Ended
  <1>4. /\ pc' = "text" => w' = w /\ w.status = "in_progress" /\ w.next < NLines
        /\ \/ w' = w
           \/ w' = [w EXCEPT !.status = "cancelling"] /\ doc[cur].status = "cancelling"
              /\ pc' = "final"
    BY DEF LoopLine, LoopEnd, Worker, More
  <1>5. w' \in Rec /\ Good(w', faults) /\ w'.next = w.next /\ (w' = w \/ w'.status = "cancelling")
    <2>1. CASE w' = w
      BY <1>2, <2>1
    <2>2. CASE w' # w
      <3>1. PICK r : r = [w EXCEPT !.status = "cancelling"]
        OBVIOUS
      <3>2. "cancelling" \in Statuses \ {"validating", "evicted"}
        BY DEF Statuses, Open
      <3>3. r \in Rec /\ Good(r, faults) /\ r.status = "cancelling" /\ r.next = w.next
        BY <1>2, <3>1, <3>2, GoodStatus
      <3> QED
        BY <1>4, <2>2, <3>1, <3>3
    <2> QED
      BY <2>1, <2>2
  <1>6. TypeInv'
    BY <1>1, <1>2, <1>3, <1>5 DEF TypeInv
  <1>7. RecInv' /\ MuInv'
    BY <1>1, <1>2, <1>5 DEF RecInv, MuInv
  <1>8. StageInv'
    BY <1>1, <1>4, <1>5 DEF IInv, StageInv, Open
  <1>9. WorkInv'
    BY <1>1, <1>4 DEF IInv, WorkInv
  <1>10. KeptInv'
    <2>1. ASSUME crashes = 0, faults = 0, cur \notin Cancellable
          PROVE  /\ w' = w /\ w.status = "in_progress" /\ NoFiles(w)
                 /\ \A x \in Kinds : Made(work[cur][x], w.bytes[x])
      <3>1. w' = w
        BY <1>2, <1>4, <2>1 DEF IInv, KeptInv
      <3>2. w.status = "in_progress" /\ NoFiles(w)
        BY <1>1, <2>1 DEF IInv, KeptInv, StageInv
      <3>3. Begins(work[cur], w) /\ NoMore(work[cur], w)
        BY <1>1, <2>1, <3>2 DEF IInv, WorkInv
      <3> QED
        BY <1>2, <2>1, <3>1, <3>2, <3>3, MadeOf
    <2>2. (crashes = 0 /\ faults = 0) =>
            \A b \in Ids \ Cancellable :
              /\ doc[b].status \notin {"cancelling", "finalizing"}
              /\ doc[b].status \in {"validating", "in_progress"} => NoFiles(doc[b])
              /\ doc[b].status \in Ended \ {"failed"} =>
                   \A x \in Kinds : Made(doc[b].file[x], doc[b].bytes[x])
      BY <1>1 DEF IInv, KeptInv
    <2> QED
      BY <1>1, <2>1, <2>2 DEF KeptInv
  <1> QED
    BY <1>6, <1>7, <1>8, <1>9, <1>10 DEF IInv

(* Writing at the end of a work file takes nothing from what is counted. *)
LEMMA AppendBegins ==
  ASSUME NEW f \in [Kinds -> Files], NEW g, NEW r, Begins(f, r),
         \A x \in Kinds : Len(g[x]) >= Len(f[x]) /\ Len(g[x]) \in Nat,
         \A x \in Kinds : \A i \in 1..Len(f[x]) : g[x][i] = f[x][i],
         \A x \in Kinds : r.bytes[x] \in Nat
  PROVE  Begins(g, r)
  <1>1. \A x \in Kinds : Len(f[x]) \in Nat
    BY LenProperties DEF Files
  <1>2. \A x \in Kinds : r.bytes[x] <= Len(f[x])
    BY DEF Begins
  <1>3. \A x \in Kinds : r.bytes[x] <= Len(g[x])
    BY <1>1, <1>2
  <1>4. \A x \in Kinds : \A i \in 1..r.bytes[x] : g[x][i] = f[x][i]
    BY <1>1, <1>2
  <1> QED
    BY <1>3, <1>4, BeginsKeeps

LEMMA AppendTextStep ==
  ASSUME IInv, AppendText
  PROVE  IInv'
  <1> USE DEF Running
  <1>1. /\ pc = "text" /\ pc' = "nl"
        /\ UNCHANGED <<doc, w, cur, end, mu, copy, toWake, stopping, stops, crashes, faults>>
    BY DEF AppendText, Worker, handlerVars, countVars
  <1>2. PICK z \in Kinds : k' = z /\ work' = Appended(z, <<Line>>)
    BY DEF AppendText
  <1>3. /\ TypeInv /\ RecInv /\ MuInv /\ cur \in Ids /\ w \in Rec
        /\ work[cur] \in [Kinds -> Files] /\ w.status = "in_progress" /\ w.next < NLines
    BY <1>1 DEF IInv, TypeInv, RecInv, StageInv
  <1>4. PICK u : u = <<Line>>
    OBVIOUS
  <1>5. u \in Files /\ Len(u) = 1 /\ u[1] = Line
    <2>1. Line \in -NLines..NLines
      BY <1>3, Names DEF Line, Rec
    <2> QED
      BY <1>4, <2>1 DEF Files
  <1>6. /\ work' \in [Ids -> [Kinds -> Files]]
        /\ \A b \in Ids : b # cur => work'[b] = work[b]
        /\ \A y \in Kinds : y # z => work'[cur][y] = work[cur][y]
        /\ Len(work'[cur][z]) = Len(work[cur][z]) + Len(u)
        /\ \A i \in 1..Len(work[cur][z]) : work'[cur][z][i] = work[cur][z][i]
        /\ \A i \in 1..Len(u) : work'[cur][z][Len(work[cur][z]) + i] = u[i]
        /\ Len(work[cur][z]) \in Nat /\ Len(u) \in Nat
    <2>1. work \in [Ids -> [Kinds -> Files]] /\ work' = Appended(z, u)
      BY <1>2, <1>3, <1>4 DEF TypeInv
    <2> QED
      BY <1>3, <1>5, <2>1, Appends
  <1>7. \A x \in Kinds : Len(work[cur][x]) \in Nat
    BY <1>3, LenProperties DEF Files
  <1>8. /\ \A x \in Kinds : Len(work'[cur][x]) >= Len(work[cur][x]) /\ Len(work'[cur][x]) \in Nat
        /\ \A x \in Kinds : \A i \in 1..Len(work[cur][x]) : work'[cur][x][i] = work[cur][x][i]
    <2> SUFFICES ASSUME NEW x \in Kinds
                 PROVE  /\ Len(work'[cur][x]) >= Len(work[cur][x]) /\ Len(work'[cur][x]) \in Nat
                        /\ \A i \in 1..Len(work[cur][x]) : work'[cur][x][i] = work[cur][x][i]
      OBVIOUS
    <2>1. CASE x = z
      BY <1>5, <1>6, <2>1
    <2>2. CASE x # z
      <3>1. work'[cur][x] = work[cur][x] /\ Len(work[cur][x]) \in Nat
        BY <1>6, <1>7, <2>2
      <3> QED
        BY <3>1
    <2> QED
      BY <2>1, <2>2
  <1>9. TypeInv'
    BY <1>1, <1>2, <1>3, <1>6 DEF TypeInv
  <1>10. RecInv' /\ MuInv'
    BY <1>1, <1>3 DEF RecInv, MuInv
  <1>11. StageInv'
    BY <1>1 DEF IInv, StageInv
  <1>12. WorkInv'
    <2> SUFFICES ASSUME faults = 0
                 PROVE  /\ \A b \in Ids : doc[b].status = "in_progress" => Begins(work'[b], doc[b])
                        /\ Begins(work'[cur], w)
                        /\ \A x \in Kinds :
                             IF x = z THEN /\ Len(work'[cur][x]) = w.bytes[x] + 1
                                           /\ work'[cur][x][w.bytes[x] + 1] = Line
                                      ELSE Len(work'[cur][x]) = w.bytes[x]
      BY <1>1, <1>2 DEF WorkInv, Line
    <2>1. Begins(work[cur], w) /\ NoMore(work[cur], w)
      BY <1>1, <1>3 DEF IInv, WorkInv
    <2>2. Begins(work'[cur], w)
      <3>1. \A x \in Kinds : w.bytes[x] \in Nat
        BY <1>3, Names DEF Rec
      <3>2. PICK g : g = work'[cur]
        OBVIOUS
      <3>3. PICK f : f = work[cur]
        OBVIOUS
      <3>4. /\ f \in [Kinds -> Files] /\ Begins(f, w)
            /\ \A x \in Kinds : Len(g[x]) >= Len(f[x]) /\ Len(g[x]) \in Nat
            /\ \A x \in Kinds : \A i \in 1..Len(f[x]) : g[x][i] = f[x][i]
        BY <1>3, <1>8, <2>1, <3>2, <3>3
      <3>5. Begins(g, w)
        BY <3>1, <3>4, AppendBegins
      <3> QED
        BY <3>2, <3>5
    <2>3. doc[cur].status = "in_progress" => doc[cur] = w
      BY <1>1 DEF IInv, StageInv
    <2>4. \A b \in Ids : doc[b].status = "in_progress" => Begins(work'[b], doc[b])
      BY <1>6, <2>2, <2>3 DEF IInv, WorkInv
    <2>5. \A x \in Kinds : IF x = z THEN /\ Len(work'[cur][x]) = w.bytes[x] + 1
                                         /\ work'[cur][x][w.bytes[x] + 1] = Line
                                    ELSE Len(work'[cur][x]) = w.bytes[x]
      BY <1>5, <1>6, <2>1 DEF NoMore
    <2> QED
      BY <2>2, <2>4, <2>5
  <1>13. KeptInv'
    BY <1>1 DEF IInv, KeptInv
  <1> QED
    BY <1>9, <1>10, <1>11, <1>12, <1>13 DEF IInv


(* A line counted as failed because its answer could not be written. *)
NotAnswered(r) == [r EXCEPT !.bad = r.bad + 1, !.next = r.next + 1]

LEMMA CountedBad ==
  ASSUME NEW r \in Rec, NEW n, Good(r, n), r.status = "in_progress", r.next < NLines,
         NEW m \in Nat \ {0}, NEW q, q = NotAnswered(r)
  PROVE  q \in Rec /\ Good(q, m) /\ q.status = "in_progress" /\ q.next = r.next + 1
  <1>1. /\ r.ok \in 0..NLines /\ r.bad \in 0..NLines /\ r.next \in 0..NLines /\ NLines \in Nat
        /\ r.bytes["err"] \in Nat /\ r.bytes["out"] \in Nat
    BY Names DEF Rec
  <1>2. r.bad + 1 \in 0..NLines /\ r.next + 1 \in 0..NLines
    BY <1>1 DEF Good
  <1> DEFINE a == [r EXCEPT !.bad = r.bad + 1]
  <1>3. /\ a \in Rec /\ a.bad = r.bad + 1 /\ a.ok = r.ok /\ a.next = r.next
        /\ a.bytes = r.bytes /\ a.status = r.status
    BY <1>2 DEF Rec
  <1>4. q = [a EXCEPT !.next = r.next + 1]
    BY DEF NotAnswered
  <1> HIDE DEF a
  <1>5. /\ q \in Rec /\ q.bad = r.bad + 1 /\ q.ok = r.ok /\ q.next = r.next + 1
        /\ q.bytes = r.bytes /\ q.status = "in_progress"
    BY <1>2, <1>3, <1>4 DEF Rec
  <1>6. /\ r.ok + (r.bad + 1) = r.next + 1 /\ r.bytes["out"] = 2 * r.ok
        /\ r.bytes["err"] <= 2 * (r.bad + 1)
    BY <1>1 DEF Good
  <1>7. Good(q, m)
    BY <1>5, <1>6 DEF Good
  <1> QED
    BY <1>5, <1>7

(* A line counted with its answer, in the file x. *)
Answered(r, x) ==
  [r EXCEPT !.bytes[x] = r.bytes[x] + 2,
            !.ok = IF x = "out" THEN r.ok + 1 ELSE r.ok,
            !.bad = IF x = "err" THEN r.bad + 1 ELSE r.bad,
            !.next = r.next + 1]

LEMMA Counted ==
  ASSUME NEW r \in Rec, NEW n, Good(r, n), r.status = "in_progress", r.next < NLines,
         NEW x \in Kinds, NEW q, q = Answered(r, x)
  PROVE  /\ q \in Rec /\ Good(q, n) /\ q.status = "in_progress" /\ q.next = r.next + 1
         /\ q.bytes[x] = r.bytes[x] + 2 /\ \A y \in Kinds : y # x => q.bytes[y] = r.bytes[y]
         /\ q.file = r.file
  <1> DEFINE B == [r.bytes EXCEPT ![x] = r.bytes[x] + 2]
             c == IF x = "out" THEN r.ok + 1 ELSE r.ok
             d == IF x = "err" THEN r.bad + 1 ELSE r.bad
             e == r.next + 1
             q1 == [r EXCEPT !.bytes = B]
             q2 == [q1 EXCEPT !.ok = c]
             q3 == [q2 EXCEPT !.bad = d]
  <1>1. /\ r.ok \in 0..NLines /\ r.bad \in 0..NLines /\ r.next \in 0..NLines /\ NLines \in Nat
        /\ r.bytes \in [Kinds -> 0..(2 * NLines)] /\ r.ok + r.bad = r.next
        /\ r.bytes["out"] = 2 * r.ok /\ r.bytes["err"] <= 2 * r.bad
        /\ n = 0 => r.bytes["err"] = 2 * r.bad
    BY Names DEF Rec, Good
  <1>2. r.bytes["err"] \in Nat /\ r.bytes["out"] \in Nat
    BY <1>1, Names
  <1>0. x = "out" \/ x = "err"
    BY DEF Kinds
  <1>3. c \in 0..NLines /\ d \in 0..NLines /\ e \in 0..NLines /\ c + d = e
    <2>1. r.next + 1 \in 0..NLines /\ r.ok + 1 \in 0..NLines /\ r.bad + 1 \in 0..NLines
      BY <1>1
    <2>2. CASE x = "out"
      <3>1. c = r.ok + 1 /\ d = r.bad
        BY <2>2
      <3> QED
        BY <1>1, <2>1, <3>1
    <2>3. CASE x = "err"
      <3>1. c = r.ok /\ d = r.bad + 1
        BY <2>3
      <3> QED
        BY <1>1, <2>1, <3>1
    <2> QED
      BY <1>0, <2>2, <2>3
  <1>4. /\ B \in [Kinds -> 0..(2 * NLines)] /\ B[x] = r.bytes[x] + 2
        /\ \A y \in Kinds : y # x => B[y] = r.bytes[y]
    <2>1. r.bytes[x] + 2 \in 0..(2 * NLines)
      <3>1. r.bytes["out"] + 2 \in 0..(2 * NLines) /\ r.bytes["err"] + 2 \in 0..(2 * NLines)
        BY <1>1, <1>2
      <3> QED
        BY <1>0, <3>1
    <2> QED
      BY <1>1, <2>1
  <1>5. q = [q3 EXCEPT !.next = e]
    BY DEF Rec, Answered
  <1> HIDE DEF B, c, d, e
  <1>6. /\ q1 \in Rec /\ q1.status = r.status /\ q1.bytes = B /\ q1.file = r.file
    BY <1>4 DEF Rec
  <1> HIDE DEF q1
  <1>7. /\ q2 \in Rec /\ q2.status = r.status /\ q2.bytes = B /\ q2.file = r.file /\ q2.ok = c
    BY <1>3, <1>6 DEF Rec
  <1> HIDE DEF q2
  <1>8. /\ q3 \in Rec /\ q3.status = r.status /\ q3.bytes = B /\ q3.file = r.file /\ q3.ok = c
        /\ q3.bad = d
    BY <1>3, <1>7 DEF Rec
  <1> HIDE DEF q3
  <1>9. /\ q \in Rec /\ q.status = r.status /\ q.bytes = B /\ q.file = r.file /\ q.ok = c
        /\ q.bad = d /\ q.next = e
    BY <1>3, <1>5, <1>8 DEF Rec
  <1>10. B["out"] = 2 * c /\ B["err"] <= 2 * d /\ (n = 0 => B["err"] = 2 * d)
    BY <1>1, <1>2, <1>4, Names DEF c, d
  <1>11. Good(q, n)
    BY <1>3, <1>9, <1>10 DEF Good
  <1> QED
    BY <1>4, <1>9, <1>11 DEF e

LEMMA NotWrittenStep ==
  ASSUME IInv, NotWritten
  PROVE  IInv'
  <1> USE DEF Running
  <1>1. /\ pc \in {"text", "nl"} /\ pc' = "save"
        /\ w' = [w EXCEPT !.bad = w.bad + 1, !.next = w.next + 1]
        /\ UNCHANGED <<doc, cur, k, end, mu, copy, toWake, stopping, stops, crashes>>
    BY DEF NotWritten, Worker, handlerVars
  <1>2. /\ TypeInv /\ RecInv /\ MuInv /\ cur \in Ids /\ k \in Kinds /\ w \in Rec
        /\ w.status = "in_progress" /\ w.next < NLines /\ Good(w, faults)
    BY <1>1 DEF IInv, TypeInv, RecInv, StageInv
  <1>3. faults' \in 0..MaxFaults /\ faults' \in Nat \ {0}
    BY <1>2, BatchesAssumption DEF NotWritten, Fault, TypeInv
  <1>4. work' \in [Ids -> [Kinds -> Files]]
    <2>1. -Line \in -NLines..NLines /\ Line \in -NLines..NLines /\ 0 \in -NLines..NLines
      BY <1>2, Names DEF Line, Rec
    <2>2. <<>> \in Files /\ <<-Line>> \in Files /\ <<Line>> \in Files /\ <<0>> \in Files
      BY <2>1 DEF Files
    <2>3. \E x \in Kinds, u \in Files : work' = Appended(x, u)
      BY <1>2, <2>2 DEF NotWritten
    <2> QED
      BY <1>2, <2>3, Appends DEF TypeInv
  <1>5. w' \in Rec /\ Good(w', faults') /\ w'.status = "in_progress" /\ w'.next = w.next + 1
    <2>1. PICK q : q = NotAnswered(w)
      OBVIOUS
    <2>2. PICK m : m = faults'
      OBVIOUS
    <2>3. q \in Rec /\ Good(q, m) /\ q.status = "in_progress" /\ q.next = w.next + 1
      BY <1>2, <1>3, <2>1, <2>2, CountedBad
    <2> QED
      BY <1>1, <2>1, <2>2, <2>3 DEF NotAnswered
  <1>6. TypeInv'
    BY <1>1, <1>2, <1>3, <1>4, <1>5 DEF TypeInv
  <1>7. RecInv' /\ MuInv'
    BY <1>1, <1>2, <1>3, <1>5, GoodKeeps DEF RecInv, MuInv
  <1>8. StageInv'
    <2>1. doc[cur] # Evicted => w'.next = doc[cur].next + 1
      BY <1>1, <1>5, Ahead
    <2>2. doc[cur].status # "none"
      BY <1>1 DEF IInv, StageInv
    <2> QED
      BY <1>1, <1>5, <2>1, <2>2 DEF StageInv, Open
  <1>9. WorkInv' /\ KeptInv'
    BY <1>3 DEF WorkInv, KeptInv
  <1> QED
    BY <1>6, <1>7, <1>8, <1>9 DEF IInv


(* A line more in the file z, with its line end. *)
LEMMA LineBegins ==
  ASSUME NEW f \in [Kinds -> Files], NEW g \in [Kinds -> Files], NEW r \in Rec, NEW q \in Rec,
         NEW z \in Kinds, Good(r, 0), Begins(f, r),
         q.next = r.next + 1, q.bytes[z] = r.bytes[z] + 2,
         \A y \in Kinds : y # z => q.bytes[y] = r.bytes[y],
         \A y \in Kinds : y # z => g[y] = f[y] /\ Len(f[y]) = r.bytes[y],
         Len(g[z]) = r.bytes[z] + 2, \A i \in 1..r.bytes[z] : g[z][i] = f[z][i],
         g[z][r.bytes[z] + 1] = r.next + 1, g[z][r.bytes[z] + 2] = 0
  PROVE  Begins(g, q) /\ NoMore(g, q)
  <1>1. /\ r.next \in Nat /\ r.ok \in Nat /\ r.bad \in Nat
        /\ \A x \in Kinds : r.bytes[x] \in Nat /\ q.bytes[x] \in Nat
    BY Names DEF Rec
  <1>2. (r.bytes[z] + 1) % 2 = 1 /\ (r.bytes[z] + 2) % 2 = 0
    <2>1. \E n \in Nat : r.bytes[z] = 2 * n
      BY <1>1 DEF Good, Kinds
    <2> QED
      BY <2>1
  <1>3. \A x \in Kinds : \A i \in 1..r.bytes[x] : g[x][i] = f[x][i]
    OBVIOUS
  <1>4. \A x \in Kinds : \A i \in 1..r.bytes[x] :
          /\ IF i % 2 = 1 THEN g[x][i] \in 1..r.next ELSE g[x][i] = 0
          /\ g[x][i] # r.next + 1
    <2> SUFFICES ASSUME NEW x \in Kinds, NEW i \in 1..r.bytes[x]
                 PROVE  /\ IF i % 2 = 1 THEN g[x][i] \in 1..r.next ELSE g[x][i] = 0
                        /\ g[x][i] # r.next + 1
      OBVIOUS
    <2>1. IF i % 2 = 1 THEN f[x][i] \in 1..r.next ELSE f[x][i] = 0
      BY DEF Begins
    <2>2. g[x][i] = f[x][i]
      BY <1>3
    <2> QED
      BY <1>1, <2>1, <2>2
  <1>5. \A x \in Kinds : \A i \in 1..q.bytes[x] :
          \/ i \in 1..r.bytes[x]
          \/ x = z /\ i = r.bytes[z] + 1
          \/ x = z /\ i = r.bytes[z] + 2
    <2> SUFFICES ASSUME NEW x \in Kinds, NEW i \in 1..q.bytes[x]
                 PROVE  \/ i \in 1..r.bytes[x]
                        \/ x = z /\ i = r.bytes[z] + 1
                        \/ x = z /\ i = r.bytes[z] + 2
      OBVIOUS
    <2>1. PICK n \in Nat : n = r.bytes[x]
      BY <1>1
    <2>2. CASE x # z
      <3>1. q.bytes[x] = r.bytes[x]
        BY <2>2
      <3> QED
        BY <3>1
    <2>3. CASE x = z
      <3>1. i \in 1..(n + 2)
        BY <2>1, <2>3
      <3>2. i \in 1..n \/ i = n + 1 \/ i = n + 2
        BY <3>1
      <3> QED
        BY <2>1, <2>3, <3>2
    <2> QED
      BY <2>2, <2>3
  <1>6. \A x \in Kinds : Len(g[x]) = q.bytes[x]
    OBVIOUS
  <1>7. \A x \in Kinds : \A i \in 1..q.bytes[x] :
          IF i % 2 = 1 THEN g[x][i] \in 1..q.next ELSE g[x][i] = 0
    <2> SUFFICES ASSUME NEW x \in Kinds, NEW i \in 1..q.bytes[x]
                 PROVE  IF i % 2 = 1 THEN g[x][i] \in 1..q.next ELSE g[x][i] = 0
      OBVIOUS
    <2>1. CASE i \in 1..r.bytes[x]
      <3>1. IF i % 2 = 1 THEN g[x][i] \in 1..r.next ELSE g[x][i] = 0
        BY <1>4, <2>1
      <3>2. 1..r.next \subseteq 1..q.next
        BY <1>1
      <3> QED
        BY <3>1, <3>2
    <2>2. CASE x = z /\ i = r.bytes[z] + 1
      <3>1. i % 2 = 1 /\ g[x][i] = r.next + 1
        BY <1>2, <2>2
      <3>2. r.next + 1 \in 1..q.next
        BY <1>1
      <3> QED
        BY <3>1, <3>2
    <2>3. CASE x = z /\ i = r.bytes[z] + 2
      BY <1>2, <2>3
    <2> QED
      BY <1>5, <2>1, <2>2, <2>3
  <1>8. \A x, y \in Kinds : \A i \in 1..q.bytes[x], j \in 1..q.bytes[y] :
          g[x][i] = g[y][j] /\ g[x][i] # 0 => x = y /\ i = j
    <2> SUFFICES ASSUME NEW x \in Kinds, NEW y \in Kinds, NEW i \in 1..q.bytes[x],
                        NEW j \in 1..q.bytes[y], g[x][i] = g[y][j], g[x][i] # 0
                 PROVE  x = y /\ i = j
      OBVIOUS
    <2>1. i \in 1..r.bytes[x] \/ (x = z /\ i = r.bytes[z] + 1)
      BY <1>5
    <2>2. j \in 1..r.bytes[y] \/ (y = z /\ j = r.bytes[z] + 1)
      BY <1>5
    <2>3. CASE i \in 1..r.bytes[x] /\ j \in 1..r.bytes[y]
      <3>1. f[x][i] = f[y][j] /\ f[x][i] # 0
        BY <1>3, <2>3
      <3> QED
        BY <2>3, <3>1 DEF Begins
    <2> QED
      BY <1>4, <2>1, <2>2, <2>3
  <1>9. \A l \in 1..q.next : \E x \in Kinds : \E i \in 1..q.bytes[x] : g[x][i] = l
    <2> SUFFICES ASSUME NEW l \in 1..q.next
                 PROVE  \E x \in Kinds : \E i \in 1..q.bytes[x] : g[x][i] = l
      OBVIOUS
    <2>1. CASE l = r.next + 1
      <3>1. PICK n : n = r.bytes[z] + 1
        OBVIOUS
      <3>2. n \in 1..q.bytes[z] /\ g[z][n] = r.next + 1
        BY <1>1, <3>1
      <3> QED
        BY <2>1, <3>2
    <2>2. CASE l \in 1..r.next
      <3>1. PICK x \in Kinds : \E i \in 1..r.bytes[x] : f[x][i] = l
        BY <2>2 DEF Begins
      <3>2. PICK i \in 1..r.bytes[x] : f[x][i] = l
        BY <3>1
      <3>3. i \in 1..q.bytes[x]
        <4>1. CASE x = z
          <5>1. PICK n \in Nat : n = r.bytes[x]
            BY <1>1
          <5>2. q.bytes[x] = n + 2 /\ i \in 1..n
            BY <4>1, <5>1
          <5>3. i \in 1..(n + 2)
            BY <5>2
          <5> QED
            BY <5>2, <5>3
        <4>2. CASE x # z
          BY <4>2
        <4> QED
          BY <4>1, <4>2
      <3> QED
        BY <1>3, <3>2, <3>3
    <2> QED
      BY <1>1, <2>1, <2>2
  <1>10. \A x \in Kinds : q.bytes[x] <= Len(g[x])
    <2> SUFFICES ASSUME NEW x \in Kinds PROVE q.bytes[x] <= Len(g[x])
      OBVIOUS
    <2>1. PICK n \in Nat : n = q.bytes[x]
      BY <1>1
    <2>2. Len(g[x]) = n /\ n <= n
      BY <1>6, <2>1
    <2> QED
      BY <2>1, <2>2
  <1> QED
    BY <1>6, <1>7, <1>8, <1>9, <1>10 DEF Begins, NoMore

LEMMA AppendEndStep ==
  ASSUME IInv, AppendEnd
  PROVE  IInv'
  <1> USE DEF Running
  <1>1. /\ pc = "nl" /\ pc' = "save"
        /\ UNCHANGED <<doc, cur, k, end, mu, copy, toWake, stopping, stops, crashes, faults>>
    BY DEF AppendEnd, Worker, handlerVars, countVars
  <1>2. PICK z : z = k
    OBVIOUS
  <1>3. /\ TypeInv /\ RecInv /\ MuInv /\ cur \in Ids /\ w \in Rec /\ Good(w, faults) /\ z \in Kinds
        /\ work[cur] \in [Kinds -> Files] /\ w.status = "in_progress" /\ w.next < NLines
    BY <1>1, <1>2 DEF IInv, TypeInv, RecInv, StageInv
  <1>4. PICK q : q = Answered(w, z)
    OBVIOUS
  <1>5. w' = q
    BY <1>2, <1>4 DEF AppendEnd, Answered
  <1>6. /\ q \in Rec /\ Good(q, faults) /\ q.status = "in_progress" /\ q.next = w.next + 1
        /\ q.bytes[z] = w.bytes[z] + 2 /\ \A y \in Kinds : y # z => q.bytes[y] = w.bytes[y]
        /\ q.file = w.file
    BY <1>3, <1>4, Counted
  <1>7. PICK u : u = <<0>>
    OBVIOUS
  <1>8. u \in Files /\ Len(u) = 1 /\ u[1] = 0
    <2>1. 0 \in -NLines..NLines
      BY Names
    <2> QED
      BY <1>7, <2>1 DEF Files
  <1>9. /\ work' \in [Ids -> [Kinds -> Files]]
        /\ \A b \in Ids : b # cur => work'[b] = work[b]
        /\ \A y \in Kinds : y # z => work'[cur][y] = work[cur][y]
        /\ Len(work'[cur][z]) = Len(work[cur][z]) + Len(u)
        /\ \A i \in 1..Len(work[cur][z]) : work'[cur][z][i] = work[cur][z][i]
        /\ \A i \in 1..Len(u) : work'[cur][z][Len(work[cur][z]) + i] = u[i]
        /\ Len(work[cur][z]) \in Nat /\ Len(u) \in Nat
    <2>1. work \in [Ids -> [Kinds -> Files]] /\ work' = Appended(z, u)
      BY <1>2, <1>3, <1>7 DEF TypeInv, AppendEnd
    <2> QED
      BY <1>3, <1>8, <2>1, Appends
  <1>10. \A x \in Kinds : Len(work[cur][x]) \in Nat /\ w.bytes[x] \in Nat
    BY <1>3, LenProperties, Names DEF Files, Rec
  <1>11. PICK g : g = work'[cur]
    OBVIOUS
  <1>12. g \in [Kinds -> Files]
    BY <1>3, <1>9, <1>11
  <1>13. ASSUME faults = 0 PROVE Begins(g, q) /\ NoMore(g, q) /\ Begins(g, w)
    <2>1. Begins(work[cur], w)
      BY <1>1, <1>3, <1>13 DEF IInv, WorkInv
    <2>2. /\ Len(work[cur][z]) = w.bytes[z] + 1 /\ work[cur][z][w.bytes[z] + 1] = w.next + 1
          /\ \A y \in Kinds : y # z => Len(work[cur][y]) = w.bytes[y]
      BY <1>1, <1>2, <1>3, <1>13 DEF IInv, WorkInv, Line
    <2>3. Len(g[z]) = w.bytes[z] + 2
      BY <1>3, <1>8, <1>9, <1>10, <1>11, <2>2
    <2>4. \A i \in 1..w.bytes[z] : g[z][i] = work[cur][z][i]
      BY <1>3, <1>9, <1>10, <1>11, <2>2
    <2>5. g[z][w.bytes[z] + 1] = w.next + 1
      <3>1. w.bytes[z] + 1 \in 1..Len(work[cur][z])
        BY <1>3, <1>10, <2>2
      <3> QED
        BY <1>9, <1>11, <2>2, <3>1
    <2>6. g[z][w.bytes[z] + 2] = 0
      <3>1. 1 \in 1..Len(u) /\ Len(work[cur][z]) + 1 = w.bytes[z] + 2
        BY <1>3, <1>8, <1>10, <2>2
      <3> QED
        BY <1>8, <1>9, <1>11, <3>1
    <2>7. \A y \in Kinds : y # z => g[y] = work[cur][y] /\ Len(work[cur][y]) = w.bytes[y]
      BY <1>9, <1>11, <2>2
    <2>8. Begins(g, q) /\ NoMore(g, q)
      BY <1>3, <1>6, <1>12, <1>13, <2>1, <2>3, <2>4, <2>5, <2>6, <2>7, LineBegins
    <2>9. /\ \A x \in Kinds : w.bytes[x] <= Len(g[x])
          /\ \A x \in Kinds : \A i \in 1..w.bytes[x] : g[x][i] = work[cur][x][i]
      BY <1>10, <2>3, <2>4, <2>7
    <2> QED
      BY <2>1, <2>8, <2>9, BeginsKeeps
  <1>14. TypeInv'
    BY <1>1, <1>3, <1>5, <1>6, <1>9 DEF TypeInv
  <1>15. RecInv' /\ MuInv'
    BY <1>1, <1>3, <1>5, <1>6 DEF RecInv, MuInv
  <1>16. StageInv'
    <2>1. doc[cur] # Evicted => q.next = doc[cur].next + 1
      BY <1>1, <1>6, Ahead
    <2>2. doc[cur].status # "none"
      BY <1>1 DEF IInv, StageInv
    <2> QED
      BY <1>1, <1>5, <1>6, <2>1, <2>2 DEF StageInv, Open
  <1>17. WorkInv'
    <2>1. doc[cur].status = "in_progress" => doc[cur] = w
      BY <1>1 DEF IInv, StageInv
    <2>2. faults = 0 => \A b \in Ids : doc[b].status = "in_progress" => Begins(work'[b], doc[b])
      BY <1>9, <1>11, <1>13, <2>1 DEF IInv, WorkInv
    <2> QED
      BY <1>1, <1>5, <1>11, <1>13, <2>2 DEF WorkInv
  <1>18. KeptInv'
    <2>1. NoFiles(w) => NoFiles(q)
      BY <1>6 DEF NoFiles
    <2> QED
      BY <1>1, <1>5, <1>6, <2>1 DEF IInv, KeptInv
  <1> QED
    BY <1>14, <1>15, <1>16, <1>17, <1>18 DEF IInv


LEMMA SaveLineStep ==
  ASSUME IInv, SaveLine
  PROVE  IInv'
  <1> USE DEF Running
  <1>1. /\ pc = "save" /\ pc' = "loop" /\ mu = 0
        /\ UNCHANGED <<work, cur, k, end, mu, copy, toWake, stopping, stops, crashes, faults>>
    BY DEF SaveLine, Worker, handlerVars, countVars
  <1>2. /\ TypeInv /\ RecInv /\ cur \in Ids /\ w \in Rec /\ Good(w, faults)
        /\ w.status = "in_progress"
    BY <1>1 DEF IInv, TypeInv, RecInv, StageInv
  <1>3. PICK r : r = IF doc[cur].status = "cancelling"
                     THEN [w EXCEPT !.status = "cancelling"] ELSE w
    OBVIOUS
  <1>4. w' = r /\ Updated(cur, r)
    BY <1>3 DEF SaveLine, Save
  <1>5. /\ r \in Rec /\ Good(r, faults) /\ r.next = w.next
        /\ \/ r = w /\ doc[cur].status # "cancelling"
           \/ r.status = "cancelling" /\ doc[cur].status = "cancelling"
    <2>1. CASE doc[cur].status # "cancelling"
      BY <1>2, <1>3, <2>1
    <2>2. CASE doc[cur].status = "cancelling"
      <3>1. "cancelling" \in Statuses \ {"validating", "evicted"}
        BY DEF Statuses, Open
      <3>2. r = [w EXCEPT !.status = "cancelling"]
        BY <1>3, <2>2
      <3>3. r \in Rec /\ Good(r, faults) /\ r.status = "cancelling" /\ r.next = w.next
        BY <1>2, <3>1, <3>2, GoodStatus
      <3> QED
        BY <2>2, <3>3
    <2> QED
      BY <2>1, <2>2
  <1>6. r.status \in {"in_progress", "cancelling"}
    BY <1>2, <1>5
  <1>7. /\ doc' \in [Ids -> Rec]
        /\ doc'[cur] = IF doc[cur] = Evicted THEN Evicted ELSE r
        /\ \A c \in Ids : c # cur => doc'[c] = doc[c]
        /\ \A b \in Ids : Good(doc'[b], faults')
        /\ MuInv'
    <2>1. Good(r, faults') /\ r.status # "none"
      BY <1>1, <1>5, <1>6
    <2> QED
      BY <1>1, <1>4, <1>5, <2>1, Saves
  <1>8. TypeInv'
    BY <1>1, <1>2, <1>4, <1>5, <1>7 DEF TypeInv
  <1>9. RecInv'
    BY <1>1, <1>2, <1>4, <1>5, <1>7 DEF RecInv
  <1>10. StageInv'
    <2>1. r.next \in Nat /\ r.next + 0 = r.next
      BY <1>5, Names DEF Rec
    <2> QED
      BY <1>1, <1>4, <1>6, <1>7, <2>1, FixedRecs DEF StageInv, Open
  <1>11. WorkInv'
    <2> SUFFICES ASSUME faults = 0
                 PROVE  /\ \A b \in Ids : doc'[b].status = "in_progress" => Begins(work[b], doc'[b])
                        /\ r.status = "in_progress" => Begins(work[cur], r) /\ NoMore(work[cur], r)
      BY <1>1, <1>4 DEF WorkInv
    <2>1. r.status = "in_progress" => Begins(work[cur], r) /\ NoMore(work[cur], r)
      BY <1>1, <1>2, <1>5 DEF IInv, WorkInv
    <2> QED
      BY <1>7, <2>1, FixedRecs DEF IInv, WorkInv
  <1>12. KeptInv'
    <2> SUFFICES ASSUME crashes = 0, faults = 0 PROVE KeptInv'
      BY <1>1 DEF KeptInv
    <2>1. cur \notin Cancellable => r = w /\ w.status = "in_progress" /\ NoFiles(w)
      BY <1>1, <1>2, <1>5 DEF IInv, KeptInv
    <2>2. \A b \in Ids \ Cancellable :
            \/ doc'[b] = doc[b] \/ doc'[b].status = "evicted"
            \/ doc'[b].status = "in_progress" /\ NoFiles(doc'[b])
      BY <1>7, <2>1, FixedRecs
    <2>3. "evicted" \notin Ended /\ "in_progress" \notin Ended
      BY DEF Ended
    <2> QED
      BY <1>1, <1>4, <2>1, <2>2, <2>3 DEF IInv, KeptInv
  <1> QED
    BY <1>7, <1>8, <1>9, <1>10, <1>11, <1>12 DEF IInv

(* finalize. *)
LEMMA FinalizingStep ==
  ASSUME IInv, Finalizing
  PROVE  IInv'
  <1> USE DEF Running
  <1>1. /\ pc = "final" /\ pc' = "add" /\ k' = "out"
        /\ UNCHANGED <<work, cur, end, mu, copy, toWake, stopping, stops, crashes, faults>>
    BY DEF Finalizing, Worker, handlerVars, countVars
  <1>2. TypeInv /\ RecInv /\ cur \in Ids /\ w \in Rec /\ Good(w, faults)
    BY DEF IInv, TypeInv, RecInv
  <1>3. PICK r : r = [w EXCEPT !.status = "finalizing"]
    OBVIOUS
  <1>4. w' = r /\ Updated(cur, r)
    BY <1>3 DEF Finalizing, Save
  <1>5. /\ r \in Rec /\ Good(r, faults) /\ r.status = "finalizing" /\ r.next = w.next
        /\ r.bytes = w.bytes /\ r.file = w.file
    <2>1. "finalizing" \in Statuses \ {"validating", "evicted"}
      BY DEF Statuses, Open
    <2> QED
      BY <1>2, <1>3, <2>1, GoodStatus, WithStatus
  <1>6. doc[cur] # Evicted => r.next = doc[cur].next
    BY <1>1, <1>5, Ahead
  <1>7. /\ doc' \in [Ids -> Rec]
        /\ doc'[cur] = IF doc[cur] = Evicted THEN Evicted ELSE r
        /\ \A c \in Ids : c # cur => doc'[c] = doc[c]
        /\ \A b \in Ids : Good(doc'[b], faults')
        /\ MuInv'
    <2>1. Good(r, faults') /\ r.status # "none"
      BY <1>1, <1>5
    <2> QED
      BY <1>1, <1>4, <1>5, <1>6, <2>1, Saves
  <1>8. TypeInv'
    BY <1>1, <1>2, <1>4, <1>5, <1>7, Names DEF TypeInv
  <1>9. RecInv'
    BY <1>1, <1>2, <1>4, <1>5, <1>7 DEF RecInv
  <1>10. StageInv'
    <2>1. r.next \in Nat /\ r.next + 0 = r.next
      BY <1>5, Names DEF Rec
    <2> QED
      BY <1>1, <1>4, <1>5, <1>7, <2>1, FixedRecs DEF StageInv, Open
  <1>11. WorkInv'
    BY <1>1, <1>4, <1>5, <1>7, FixedRecs DEF IInv, WorkInv
  <1>12. KeptInv'
    <2> SUFFICES ASSUME crashes = 0, faults = 0 PROVE KeptInv'
      BY <1>1 DEF KeptInv
    <2>1. cur \notin Cancellable =>
            \A x \in Kinds : Made(work[cur][x], r.bytes[x]) /\ r.file[x] = NoFile
      BY <1>1, <1>5 DEF IInv, KeptInv, NoFiles
    <2>2. \A b \in Ids \ Cancellable :
            \/ doc'[b] = doc[b] \/ doc'[b].status = "evicted"
            \/ doc'[b].status = "finalizing" /\ b = cur
      BY <1>5, <1>7, FixedRecs
    <2>3. "evicted" \notin Ended /\ "finalizing" \notin Ended
      BY DEF Ended
    <2> QED
      BY <1>1, <1>4, <2>1, <2>2, <2>3 DEF IInv, KeptInv
  <1> QED
    BY <1>7, <1>8, <1>9, <1>10, <1>11, <1>12 DEF IInv

LEMMA SaveEndStep ==
  ASSUME IInv, SaveEnd
  PROVE  IInv'
  <1> USE DEF Running
  <1>1. /\ pc = "end" /\ pc' = "idle" /\ w' = NoDoc
        /\ UNCHANGED <<work, cur, k, end, mu, copy, toWake, stopping, stops, crashes, faults>>
    BY DEF SaveEnd, Worker, handlerVars, countVars
  <1>2. TypeInv /\ RecInv /\ cur \in Ids /\ w \in Rec /\ Good(w, faults)
    BY DEF IInv, TypeInv, RecInv
  <1>3. PICK r : r = [w EXCEPT !.status = end]
    OBVIOUS
  <1>4. Updated(cur, r)
    BY <1>3 DEF SaveEnd, Save
  <1>5. end \in Ended \ {"failed"}
    BY <1>2 DEF TypeInv
  <1>6. /\ r \in Rec /\ Good(r, faults) /\ r.status = end /\ r.next = w.next
        /\ r.bytes = w.bytes /\ r.file = w.file
    <2>1. end \in Statuses \ {"validating", "evicted"}
      BY <1>5 DEF Statuses, Ended
    <2> QED
      BY <1>2, <1>3, <2>1, GoodStatus, WithStatus
  <1>7. doc[cur] # Evicted => r.next = doc[cur].next
    BY <1>1, <1>6, Ahead
  <1>8. /\ doc' \in [Ids -> Rec]
        /\ doc'[cur] = IF doc[cur] = Evicted THEN Evicted ELSE r
        /\ \A c \in Ids : c # cur => doc'[c] = doc[c]
        /\ \A b \in Ids : Good(doc'[b], faults')
        /\ MuInv'
    <2>1. Good(r, faults') /\ r.status # "none"
      BY <1>1, <1>5, <1>6 DEF Ended
    <2> QED
      BY <1>1, <1>4, <1>6, <1>7, <2>1, Saves
  <1>9. TypeInv'
    BY <1>1, <1>2, <1>8, FixedRecs DEF TypeInv
  <1>10. RecInv'
    BY <1>1, <1>2, <1>8, FixedGood DEF RecInv
  <1>11. StageInv'
    BY <1>1 DEF StageInv
  <1>12. r.status \notin Open
    BY <1>5, <1>6 DEF Ended, Open
  <1>13. WorkInv'
    BY <1>1, <1>8, <1>12, FixedRecs DEF IInv, WorkInv, Open
  <1>14. KeptInv'
    <2> SUFFICES ASSUME crashes = 0, faults = 0 PROVE KeptInv'
      BY <1>1 DEF KeptInv
    <2>1. cur \notin Cancellable => \A x \in Kinds : Made(r.file[x], r.bytes[x])
      BY <1>1, <1>6 DEF IInv, KeptInv
    <2>2. \A b \in Ids \ Cancellable :
            \/ doc'[b] = doc[b] /\ b # cur
            \/ doc'[b].status = "evicted"
            \/ /\ doc'[b].status \notin Open
               /\ \A x \in Kinds : Made(doc'[b].file[x], doc'[b].bytes[x])
      BY <1>8, <1>12, <2>1, FixedRecs
    <2>3. "evicted" \notin Ended
      BY DEF Ended
    <2> QED
      BY <1>1, <2>2, <2>3 DEF IInv, KeptInv, Open
  <1> QED
    BY <1>8, <1>9, <1>10, <1>11, <1>13, <1>14 DEF IInv


(* A work file made a File. *)
Filed(r, x, f) == [r EXCEPT !.file[x] = f]

LEMMA WithFile ==
  ASSUME NEW r \in Rec, NEW n, Good(r, n), r.status = "finalizing", NEW x \in Kinds,
         NEW f \in Files, NEW q, q = Filed(r, x, f)
  PROVE  /\ q \in Rec /\ Good(q, n) /\ q.status = "finalizing" /\ q.next = r.next
         /\ q.bytes = r.bytes /\ q.file[x] = f
         /\ \A y \in Kinds : y # x => q.file[y] = r.file[y]
  <1> DEFINE F == [r.file EXCEPT ![x] = f]
  <1>1. /\ F \in [Kinds -> Files] /\ F[x] = f
        /\ \A y \in Kinds : y # x => F[y] = r.file[y]
    BY DEF Rec
  <1>2. q = [r EXCEPT !.file = F]
    BY DEF Filed
  <1> HIDE DEF F
  <1>3. /\ q \in Rec /\ q.status = "finalizing" /\ q.next = r.next /\ q.bytes = r.bytes
        /\ q.ok = r.ok /\ q.bad = r.bad /\ q.file = F
    BY <1>1, <1>2 DEF Rec
  <1>4. Good(q, n)
    BY <1>3 DEF Good
  <1> QED
    BY <1>1, <1>3, <1>4

LEMMA AddFileStep ==
  ASSUME IInv, AddFile
  PROVE  IInv'
  <1> USE DEF Running
  <1>1. /\ pc = "add" /\ pc' = "unlink"
        /\ UNCHANGED <<doc, work, cur, k, end, mu, copy, toWake, stopping, stops, crashes>>
    BY DEF AddFile, Worker, handlerVars
  <1>2. PICK z : z = k
    OBVIOUS
  <1>3. PICK f : f = work[cur][z]
    OBVIOUS
  <1>4. /\ TypeInv /\ RecInv /\ MuInv /\ cur \in Ids /\ w \in Rec /\ Good(w, faults)
        /\ z \in Kinds /\ f \in Files /\ w.status = "finalizing"
        /\ w.bytes \in [Kinds -> Nat] /\ faults \in 0..MaxFaults
    <2>1. TypeInv /\ RecInv /\ MuInv /\ w.status = "finalizing"
      BY <1>1 DEF IInv, StageInv
    <2>2. /\ cur \in Ids /\ w \in Rec /\ z \in Kinds /\ faults \in 0..MaxFaults
          /\ work[cur] \in [Kinds -> Files] /\ Good(w, faults)
      BY <1>2, <2>1 DEF TypeInv, RecInv
    <2>3. f \in Files
      BY <1>3, <2>2
    <2>4. w.bytes \in [Kinds -> Nat]
      BY <2>2, Names DEF Rec
    <2> QED
      BY <2>1, <2>2, <2>3, <2>4
  <1>5. PICK q : q = Filed(w, z, f)
    OBVIOUS
  <1>6. /\ q \in Rec /\ Good(q, faults) /\ q.status = "finalizing" /\ q.next = w.next
        /\ q.bytes = w.bytes /\ q.file[z] = f
        /\ \A y \in Kinds : y # z => q.file[y] = w.file[y]
    BY <1>4, <1>5, WithFile
  <1>7. \/ w' = q /\ faults' = faults
        \/ w' = w /\ faults' = faults + 1 /\ faults < MaxFaults
        \/ w' = w /\ faults' = faults /\ ~(w.bytes[z] > 0 /\ Len(f) = w.bytes[z])
    BY <1>2, <1>3, <1>5 DEF AddFile, Fault, Filed
  <1>8. faults' \in 0..MaxFaults /\ (faults' = 0 => faults = 0 /\ faults' = faults)
    BY <1>4, <1>7, BatchesAssumption
  <1>9. /\ w' \in Rec /\ Good(w', faults') /\ w'.status = "finalizing" /\ w'.next = w.next
        /\ w'.bytes = w.bytes
    BY <1>4, <1>6, <1>7, <1>8, GoodKeeps
  <1>10. TypeInv'
    BY <1>1, <1>4, <1>8, <1>9 DEF TypeInv
  <1>11. RecInv' /\ MuInv'
    BY <1>1, <1>4, <1>8, <1>9, GoodKeeps DEF RecInv, MuInv
  <1>12. StageInv'
    BY <1>1, <1>9 DEF IInv, StageInv, Open
  <1>13. WorkInv'
    BY <1>1, <1>8 DEF IInv, WorkInv
  <1>14. KeptInv'
    <2> SUFFICES ASSUME crashes = 0, faults' = 0 PROVE KeptInv'
      BY <1>1 DEF KeptInv
    <2>1. cur \notin Cancellable => \A x \in Kinds :
            IF z = "err" \/ x = "out" THEN Made(w'.file[x], w'.bytes[x])
            ELSE Made(work[cur][x], w'.bytes[x]) /\ w'.file[x] = NoFile
      <3> SUFFICES ASSUME cur \notin Cancellable, NEW x \in Kinds
                   PROVE  IF z = "err" \/ x = "out" THEN Made(w'.file[x], w'.bytes[x])
                          ELSE Made(work[cur][x], w'.bytes[x]) /\ w'.file[x] = NoFile
        OBVIOUS
      <3>1. IF z = "err" /\ x = "out" THEN Made(w.file[x], w.bytes[x])
            ELSE Made(work[cur][x], w.bytes[x]) /\ w.file[x] = NoFile
        BY <1>1, <1>2, <1>8 DEF IInv, KeptInv
      <3>2. w'.bytes = w.bytes
        BY <1>9
      <3>3. CASE x # z
        <4>1. w'.file[x] = w.file[x]
          BY <1>6, <1>7, <3>3
        <4> QED
          BY <1>4, <3>1, <3>2, <3>3, <4>1, Names
      <3>4. CASE x = z
        <4>1. Made(f, w.bytes[z]) /\ w.file[z] = NoFile
          BY <1>3, <3>1, <3>4, Names
        <4>2. CASE w.bytes[z] > 0
          <5>1. w' = q
            <6>1. Len(f) = w.bytes[z]
              BY <4>1 DEF Made
            <6>2. faults' = faults /\ faults' # faults + 1
              BY <1>4, <1>8
            <6> QED
              BY <1>7, <4>2, <6>1, <6>2
          <5>2. Made(w'.file[x], w'.bytes[x])
            BY <1>6, <3>2, <3>4, <4>1, <5>1
          <5> QED
            BY <1>4, <3>4, <5>2, Names
        <4>3. CASE ~(w.bytes[z] > 0)
          <5>1. w.bytes[z] = 0
            BY <1>4, <4>3
          <5>2. w'.file[z] = NoFile \/ (w'.file[z] = f)
            BY <1>6, <1>7, <4>1
          <5>3. Made(w'.file[x], w'.bytes[x])
            BY <3>2, <3>4, <4>1, <5>1, <5>2, NoFileMade
          <5> QED
            BY <1>4, <3>4, <5>3, Names
        <4> QED
          BY <4>2, <4>3
      <3> QED
        BY <3>3, <3>4
    <2> QED
      BY <1>1, <1>2, <1>8, <2>1 DEF IInv, KeptInv
  <1> QED
    BY <1>10, <1>11, <1>12, <1>13, <1>14 DEF IInv

LEMMA UnlinkStep ==
  ASSUME IInv, Unlink
  PROVE  IInv'
  <1> USE DEF Running
  <1>1. /\ pc = "unlink" /\ pc' \in {"add", "end"} /\ k' = "err"
        /\ pc' = "add" <=> k = "out"
        /\ UNCHANGED <<doc, w, cur, end, mu, copy, toWake, stopping, stops, crashes, faults>>
    BY DEF Unlink, Worker, handlerVars, countVars
  <1>2. TypeInv /\ RecInv /\ MuInv /\ cur \in Ids /\ k \in Kinds
    BY DEF IInv, TypeInv
  <1>3. /\ work' \in [Ids -> [Kinds -> Files]]
        /\ \A b \in Ids : b # cur => work'[b] = work[b]
        /\ \A x \in Kinds : x # k => work'[cur][x] = work[cur][x]
    <2>1. work' = [work EXCEPT ![cur] = [work[cur] EXCEPT ![k] = NoFile]]
      BY DEF Unlink
    <2> DEFINE g == [work[cur] EXCEPT ![k] = NoFile]
    <2>2. work[cur] \in [Kinds -> Files]
      BY <1>2 DEF TypeInv
    <2>3. g \in [Kinds -> Files] /\ \A x \in Kinds : x # k => g[x] = work[cur][x]
      BY <2>2, NoFileMade
    <2> HIDE DEF g
    <2>4. work' = [work EXCEPT ![cur] = g]
      BY <2>1 DEF g
    <2> QED
      BY <1>2, <2>3, <2>4 DEF TypeInv
  <1>4. TypeInv'
    BY <1>1, <1>2, <1>3, Names DEF TypeInv
  <1>5. RecInv' /\ MuInv'
    BY <1>1, <1>2 DEF RecInv, MuInv
  <1>6. StageInv'
    BY <1>1 DEF IInv, StageInv
  <1>7. WorkInv'
    <2>1. doc[cur].status # "in_progress"
      BY <1>1 DEF IInv, StageInv
    <2> QED
      BY <1>1, <1>3, <2>1 DEF IInv, WorkInv
  <1>8. KeptInv'
    <2> SUFFICES ASSUME crashes = 0, faults = 0 PROVE KeptInv'
      BY <1>1 DEF KeptInv
    <2>1. ASSUME cur \notin Cancellable
          PROVE  \A x \in Kinds :
                   IF k = "err" \/ x = "out" THEN Made(w.file[x], w.bytes[x])
                   ELSE Made(work[cur][x], w.bytes[x]) /\ w.file[x] = NoFile
      BY <1>1, <2>1 DEF IInv, KeptInv
    <2>2. CASE pc' = "add"
      <3>1. k = "out"
        BY <1>1, <2>2
      <3>2. cur \notin Cancellable => \A x \in Kinds :
              IF x = "out" THEN Made(w.file[x], w.bytes[x])
              ELSE Made(work'[cur][x], w.bytes[x]) /\ w.file[x] = NoFile
        BY <1>3, <2>1, <3>1, Names
      <3> QED
        BY <1>1, <2>2, <3>2 DEF IInv, KeptInv
    <2>3. CASE pc' = "end"
      <3>1. k = "err"
        BY <1>1, <1>2, <2>3, Names
      <3>2. cur \notin Cancellable => \A x \in Kinds : Made(w.file[x], w.bytes[x])
        BY <2>1, <3>1
      <3> QED
        BY <1>1, <2>3, <3>2 DEF IInv, KeptInv
    <2> QED
      BY <1>1, <2>2, <2>3
  <1> QED
    BY <1>4, <1>5, <1>6, <1>7, <1>8 DEF IInv


-----------------------------------------------------------------------------
(* Every step. *)
LEMMA Started == Init => IInv
  <1> SUFFICES ASSUME Init PROVE IInv
    OBVIOUS
  <1> USE DEF Running
  <1>1. /\ \A b \in Ids : doc[b] = NoDoc /\ w = NoDoc /\ copy = NoDoc
        /\ doc = [b \in Ids |-> NoDoc] /\ work = [b \in Ids |-> [x \in Kinds |-> NoFile]]
        /\ pc = "idle" /\ cur = 1 /\ k = "out" /\ end = "completed" /\ mu = 0
        /\ toWake = {} /\ stopping = FALSE /\ stops = 0 /\ crashes = 0 /\ faults = 0
    BY DEF Init
  <1>2. w = NoDoc /\ copy = NoDoc
    BY DEF Init
  <1>3. doc \in [Ids -> Rec] /\ w \in Rec /\ copy \in Rec
    BY <1>1, <1>2, FixedRecs
  <1>4. work \in [Ids -> [Kinds -> Files]]
    BY <1>1, NoFileMade
  <1>5. TypeInv
    <2>1. 1 \in Ids /\ "out" \in Kinds /\ "completed" \in Ended \ {"failed"}
      BY BatchesAssumption DEF Ids, Kinds, Ended
    <2>2. 0 \in 0..MaxStops /\ 0 \in 0..MaxCrashes /\ 0 \in 0..MaxFaults
      BY BatchesAssumption
    <2> QED
      BY <1>1, <1>3, <1>4, <2>1, <2>2 DEF TypeInv
  <1>6. RecInv
    BY <1>1, <1>2, FixedGood DEF RecInv
  <1>7. MuInv /\ StageInv
    BY <1>1 DEF MuInv, StageInv
  <1>8. WorkInv /\ KeptInv
    BY <1>1, FixedRecs DEF WorkInv, KeptInv, Ended
  <1> QED
    BY <1>5, <1>6, <1>7, <1>8 DEF IInv

LEMMA Stutter ==
  ASSUME IInv, UNCHANGED vars
  PROVE  IInv'
  <1>1. /\ UNCHANGED <<doc, work, pc, cur, w, k, end>>
        /\ UNCHANGED <<mu, copy, toWake, stopping, stops, crashes, faults>>
    BY DEF vars, workerVars, handlerVars, countVars
  <1>2. Stays /\ doc' = doc
    BY <1>1 DEF Stays
  <1>3. TypeInv /\ MuInv /\ RecInv
    BY DEF IInv
  <1>4. /\ MuInv' /\ copy' \in Rec /\ Good(copy', faults) /\ mu' \in Ids \cup {0}
        /\ toWake' \subseteq Ids /\ stopping' \in BOOLEAN /\ stops' \in 0..MaxStops
    BY <1>1, <1>3 DEF MuInv, TypeInv, RecInv
  <1> QED
    BY <1>2, <1>4, Aside

LEMMA Step == IInv /\ [Next]_vars => IInv'
  <1> SUFFICES ASSUME IInv, [Next]_vars PROVE IInv'
    OBVIOUS
  <1>1. CASE UNCHANGED vars
    BY <1>1, Stutter
  <1>2. CASE Next
    <2>1. CASE worker_main
      <3>1. CASE next_batch \/ Sleep \/ Exit \/ LoadGone \/ LoopStop
        BY <3>1, RestSteps
      <3>2. CASE Load
        BY <3>2, LoadStep
      <3>3. CASE BeginFailed
        BY <3>3, BeginFailedStep
      <3>4. CASE Begin
        BY <3>4, BeginStep
      <3>5. CASE Trim
        BY <3>5, TrimStep
      <3>6. CASE LoopLine \/ LoopEnd
        BY <3>6, LoopSteps
      <3>7. CASE AppendText
        BY <3>7, AppendTextStep
      <3>8. CASE NotWritten
        BY <3>8, NotWrittenStep
      <3>9. CASE AppendEnd
        BY <3>9, AppendEndStep
      <3>10. CASE SaveLine
        BY <3>10, SaveLineStep
      <3>11. CASE Finalizing
        BY <3>11, FinalizingStep
      <3>12. CASE AddFile
        BY <3>12, AddFileStep
      <3>13. CASE Unlink
        BY <3>13, UnlinkStep
      <3>14. CASE SaveEnd
        BY <3>14, SaveEndStep
      <3> QED
        BY <2>1, <3>1, <3>2, <3>3, <3>4, <3>5, <3>6, <3>7, <3>8, <3>9, <3>10, <3>11,
           <3>12, <3>13, <3>14 DEF worker_main, run_batch
    <2>2. CASE CreateWake \/ Stop \/ CancelLoad
      BY <2>2, AsideSteps
    <2>3. CASE Create \/ CancelSave \/ Evict
      BY <2>3, OtherSteps
    <2>4. CASE Start \/ Crash
      BY <2>4, RestSteps
    <2> QED
      BY <1>2, <2>1, <2>2, <2>3, <2>4 DEF Next
  <1> QED
    BY <1>1, <1>2

LEMMA Invariance == Spec => []IInv
  BY Started, Step, PTL DEF Spec

-----------------------------------------------------------------------------
(* What follows. *)

(* Files that begin with the lines counted and hold nothing else hold them
   all, each in one of the two. *)
LEMMA ExactLines ==
  ASSUME NEW f \in [Kinds -> Files], NEW r \in Rec, Begins(f, r), NoMore(f, r)
  PROVE  /\ LinesOf(f["out"]) \cap LinesOf(f["err"]) = {}
         /\ LinesOf(f["out"]) \cup LinesOf(f["err"]) = 1..r.next
  <1>1. "out" \in Kinds /\ "err" \in Kinds /\ "out" # "err" /\ r.next \in Nat
    BY Names DEF Rec
  <1>2. \A x \in Kinds : LinesOf(f[x]) = {f[x][i] : i \in 1..r.bytes[x]} \ {0}
    BY DEF LinesOf, NoMore
  <1>3. ASSUME NEW l \in LinesOf(f["out"]), l \in LinesOf(f["err"]) PROVE FALSE
    <2>1. PICK i \in 1..r.bytes["out"] : f["out"][i] = l
      BY <1>1, <1>2
    <2>2. PICK j \in 1..r.bytes["err"] : f["err"][j] = l
      BY <1>1, <1>2, <1>3
    <2>3. l # 0
      BY <1>1, <1>2
    <2> QED
      BY <1>1, <2>1, <2>2, <2>3 DEF Begins
  <1>4. ASSUME NEW x \in Kinds, NEW l \in LinesOf(f[x]) PROVE l \in 1..r.next
    <2>1. PICK i \in 1..r.bytes[x] : f[x][i] = l /\ l # 0
      BY <1>2
    <2>2. IF i % 2 = 1 THEN f[x][i] \in 1..r.next ELSE f[x][i] = 0
      BY DEF Begins
    <2> QED
      BY <2>1, <2>2
  <1>5. ASSUME NEW l \in 1..r.next PROVE l \in LinesOf(f["out"]) \cup LinesOf(f["err"])
    <2>1. PICK x \in Kinds : \E i \in 1..r.bytes[x] : f[x][i] = l
      BY DEF Begins
    <2>2. l # 0
      BY <1>1
    <2>3. l \in LinesOf(f[x])
      BY <1>2, <2>1, <2>2
    <2> QED
      BY <2>3, Names
  <1> QED
    BY <1>1, <1>3, <1>4, <1>5

(* A whole file of 2n units holds n lines. *)
LEMMA MadeLines ==
  ASSUME NEW f \in Files, NEW n \in Nat, Made(f, 2 * n)
  PROVE  Cardinality(LinesOf(f)) = n
  <1> DEFINE g == [i \in 1..n |-> f[2 * i - 1]]
             T == LinesOf(f)
  <1>1. /\ Len(f) = 2 * n
        /\ \A i \in 1..(2 * n) : IF i % 2 = 1 THEN f[i] > 0 ELSE f[i] = 0
        /\ \A i, j \in 1..(2 * n) : (f[i] = f[j] /\ f[i] # 0) => i = j
    BY DEF Made, Whole
  <1>2. \A i \in 1..(2 * n) : f[i] \in Int
    BY <1>1, Names DEF Files
  <1>3. T = {f[i] : i \in 1..(2 * n)} \ {0}
    BY <1>1 DEF LinesOf
  <1>4. \A i \in 1..n : 2 * i - 1 \in 1..(2 * n) /\ (2 * i - 1) % 2 = 1 /\ g[i] = f[2 * i - 1]
    OBVIOUS
  <1>5. \A i \in 1..n : g[i] # 0
    BY <1>1, <1>2, <1>4
  <1> HIDE DEF T
  <1>6. g \in [1..n -> T]
    <2>1. \A i \in 1..n : g[i] \in T
      BY <1>3, <1>4, <1>5
    <2> QED
      BY <2>1
  <1>7. \A i, j \in 1..n : g[i] = g[j] => i = j
    <2> SUFFICES ASSUME NEW i \in 1..n, NEW j \in 1..n, g[i] = g[j] PROVE i = j
      OBVIOUS
    <2>1. 2 * i - 1 = 2 * j - 1
      BY <1>1, <1>4, <1>5
    <2> QED
      BY <2>1
  <1>8. \A l \in T : \E i \in 1..n : g[i] = l
    <2> SUFFICES ASSUME NEW l \in T PROVE \E i \in 1..n : g[i] = l
      OBVIOUS
    <2>1. PICK m \in 1..(2 * n) : f[m] = l /\ l # 0
      BY <1>3
    <2>2. m % 2 = 1
      BY <1>1, <2>1
    <2>3. PICK i \in 1..n : m = 2 * i - 1
      <3>1. m \div 2 \in Int /\ m = 2 * (m \div 2) + (m % 2)
        OBVIOUS
      <3>2. m = 2 * (m \div 2 + 1) - 1
        BY <2>2, <3>1
      <3>3. m \div 2 + 1 \in 1..n
        BY <3>1, <3>2
      <3> QED
        BY <3>2, <3>3
    <2> QED
      BY <1>4, <2>1, <2>3
  <1> HIDE DEF g
  <1>9. ExistsBijection(1..n, T)
    <2>1. g \in Injection(1..n, T)
      BY <1>6, <1>7 DEF Injection, IsInjective
    <2>2. g \in Surjection(1..n, T)
      BY <1>6, <1>8 DEF Surjection
    <2> QED
      BY <2>1, <2>2 DEF ExistsBijection, Bijection
  <1>10. IsFiniteSet(1..n) /\ Cardinality(1..n) = n
    <2>1. 1 \in Int /\ n \in Int
      OBVIOUS
    <2>2. IsFiniteSet(1..n) /\ Cardinality(1..n) = IF 1 > n THEN 0 ELSE n - 1 + 1
      BY <2>1, FS_Interval
    <2> QED
      BY <2>2
  <1>11. Cardinality(T) = Cardinality(1..n)
    BY <1>9, <1>10, FS_Bijection
  <1> QED
    BY <1>10, <1>11 DEF T

(* One line's save: only SaveLine goes from save to the loop. *)
KeepsCancel ==
  pc = "save" /\ pc' = "loop" /\ doc[cur] # Evicted =>
    /\ doc[cur].status = "cancelling" => doc'[cur].status = "cancelling"
    /\ doc'[cur].next = doc[cur].next + 1

LEMMA SaveKeeps == IInv /\ [Next]_vars => [KeepsCancel]_vars
  <1> SUFFICES ASSUME IInv, Next, pc = "save", pc' = "loop", doc[cur] # Evicted
               PROVE  /\ doc[cur].status = "cancelling" => doc'[cur].status = "cancelling"
                      /\ doc'[cur].next = doc[cur].next + 1
    BY DEF KeepsCancel
  <1>1. SaveLine
    BY DEF Next, worker_main, run_batch, next_batch, Sleep, Exit, LoadGone, Load, BeginFailed,
           Begin, Trim, LoopStop, LoopLine, LoopEnd, AppendText, NotWritten, AppendEnd,
           Finalizing, AddFile, Unlink, SaveEnd, Create, CreateWake, CancelLoad, CancelSave,
           Evict, Stop, Start, Crash, Fresh, Worker, Woken, workerVars
  <1>2. /\ cur \in Ids /\ doc \in [Ids -> Rec] /\ w \in Rec
        /\ w.next = doc[cur].next + 1
    BY Ahead DEF IInv, TypeInv, Running
  <1>3. PICK r : r = IF doc[cur].status = "cancelling"
                     THEN [w EXCEPT !.status = "cancelling"] ELSE w
    OBVIOUS
  <1>4. Updated(cur, r)
    BY <1>1, <1>3 DEF SaveLine, Save
  <1>5. /\ r.next = w.next /\ r \in Rec
        /\ doc[cur].status = "cancelling" => r.status = "cancelling"
    BY <1>2, <1>3 DEF Rec, Statuses, Open
  <1>6. doc'[cur] = r
    BY <1>2, <1>4, <1>5, Updates
  <1> QED
    BY <1>2, <1>5, <1>6

-----------------------------------------------------------------------------
(* Every variable of the Batch API keeps its type, whatever is stopped,
   killed, cancelled, evicted or fails. *)
THEOREM TypeCorrect == Spec => []TypeOK
  <1>1. IInv => TypeOK
    <2> SUFFICES ASSUME IInv PROVE TypeOK
      OBVIOUS
    <2>1. TypeInv
      BY DEF IInv
    <2>2. \A r \in Rec :
            /\ r.status \in Statuses
            /\ r.next \in 0..NLines /\ r.ok \in 0..NLines /\ r.bad \in 0..NLines
            /\ \A x \in Kinds : r.bytes[x] \in 0..(2 * NLines)
      BY DEF Rec
    <2>3. \A r \in {doc[b] : b \in Ids} \cup {w, copy} : r \in Rec
      BY <2>1 DEF TypeInv
    <2>4. \A b \in Ids, x \in Kinds : work[b][x] \in Seq(-NLines..NLines)
      BY <2>1 DEF TypeInv, Files
    <2> QED
      BY <2>1, <2>2, <2>3, <2>4 DEF TypeInv, TypeOK, Running
  <1> QED
    BY <1>1, Invariance, PTL

(* Whenever run_batch takes up a line, its two work files hold the lines
   before it, each once, and nothing else: what a stop or a kill left behind
   the last save was cut off by trim_work, and no line is run twice. *)
THEOREM WorkIsExact == Spec => []WorkExact
  <1>1. IInv => WorkExact
    <2> SUFFICES ASSUME IInv, pc = "loop", w.status = "in_progress", faults = 0
                 PROVE  /\ \A x \in Kinds : Whole(work[cur][x]) /\ Len(work[cur][x]) = w.bytes[x]
                        /\ LinesOf(work[cur]["out"]) \cap LinesOf(work[cur]["err"]) = {}
                        /\ LinesOf(work[cur]["out"]) \cup LinesOf(work[cur]["err"]) = 1..w.next
      BY DEF WorkExact
    <2>1. work[cur] \in [Kinds -> Files] /\ w \in Rec /\ Good(w, 0)
      BY DEF IInv, TypeInv, RecInv
    <2>2. Begins(work[cur], w) /\ NoMore(work[cur], w)
      BY DEF IInv, WorkInv
    <2>3. \A x \in Kinds : Made(work[cur][x], w.bytes[x])
      BY <2>1, <2>2, MadeOf
    <2>4. /\ LinesOf(work[cur]["out"]) \cap LinesOf(work[cur]["err"]) = {}
          /\ LinesOf(work[cur]["out"]) \cup LinesOf(work[cur]["err"]) = 1..w.next
      BY <2>1, <2>2, ExactLines
    <2> QED
      BY <2>3, <2>4 DEF Made
  <1> QED
    BY <1>1, Invariance, PTL

(* A batch that nobody cancels, of a server that was stopped any number of
   times but never killed and met no failure, ends with a File for each kind
   of answer that holds as many lines as the batch counts, each whole. *)
THEOREM AnswersAreKept == Spec => []AnswersKept
  <1>1. IInv => AnswersKept
    <2> SUFFICES ASSUME IInv, crashes = 0, faults = 0, NEW b \in Ids \ Cancellable,
                        doc[b].status \in Ended \ {"failed"}
                 PROVE  /\ \A x \in Kinds : Whole(doc[b].file[x])
                        /\ Cardinality(LinesOf(doc[b].file["out"])) = doc[b].ok
                        /\ Cardinality(LinesOf(doc[b].file["err"])) = doc[b].bad
      BY DEF AnswersKept
    <2>1. \A x \in Kinds : Made(doc[b].file[x], doc[b].bytes[x])
      BY DEF IInv, KeptInv
    <2>2. doc[b] \in Rec /\ Good(doc[b], 0)
      BY DEF IInv, TypeInv, RecInv
    <2>3. /\ doc[b].ok \in Nat /\ doc[b].bad \in Nat
          /\ doc[b].file["out"] \in Files /\ doc[b].file["err"] \in Files
      BY <2>2, Names DEF Rec
    <2>4. doc[b].bytes["out"] = 2 * doc[b].ok /\ doc[b].bytes["err"] = 2 * doc[b].bad
      BY <2>2 DEF Good
    <2>5. Made(doc[b].file["out"], 2 * doc[b].ok) /\ Made(doc[b].file["err"], 2 * doc[b].bad)
      BY <2>1, <2>4, Names
    <2>6. /\ Cardinality(LinesOf(doc[b].file["out"])) = doc[b].ok
          /\ Cardinality(LinesOf(doc[b].file["err"])) = doc[b].bad
      BY <2>3, <2>5, MadeLines
    <2> QED
      BY <2>1, <2>6 DEF Made
  <1> QED
    BY <1>1, Invariance, PTL

(* The save after a line, which run_batch makes under mu, keeps a cancel that
   was saved before it, and counts exactly that line. *)
THEOREM LinesKeepCancels == Spec => LineKeepsCancel
  <1>1. LineKeepsCancel <=> [][KeepsCancel]_vars
    BY PTL DEF LineKeepsCancel, KeepsCancel
  <1>2. Spec => []IInv
    BY Invariance
  <1>3. Spec => [][Next]_vars
    BY PTL DEF Spec
  <1> QED
    BY <1>1, <1>2, <1>3, SaveKeeps, PTL

=============================================================================
