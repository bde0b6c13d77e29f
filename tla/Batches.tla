------------------------------ MODULE Batches ------------------------------
(***************************************************************************)
(* The Batch API (src/server/batches.c): batches of lines run by one       *)
(* worker thread, one line at a time.  A batch is a document of the store, *)
(* saved after every line with how far it got and how long its two work    *)
(* files are, so that a server stopped halfway goes on from there; at its  *)
(* end the work files become Files.                                        *)
(*                                                                         *)
(* The store and the files outlive the server: Stop and Crash lose only    *)
(* the worker's copy of the batch and what the handlers were doing.  A     *)
(* work file is a sequence of units: the text of line i is i, a line end 0,*)
(* and a text written in part -i.  A File is its content.                  *)
(***************************************************************************)
EXTENDS Integers, Sequences, FiniteSets

CONSTANTS
  NBatches,    \* batches created at most (a bound of the model)
  NLines,      \* lines of every input file
  Cancellable, \* the batches a client may cancel
  MaxStops,    \* normal stops and starts again (a bound of the model)
  MaxCrashes,  \* times the server is killed (a bound of the model)
  FaultKinds,  \* what may fail: "read", "append", "add"
  MaxFaults,   \* how often (a bound of the model)
  MaxEvicted   \* batches the store lets go to make room (a bound)

ASSUME BatchesAssumption ==
  /\ NBatches \in Nat \ {0} /\ NLines \in Nat
  /\ Cancellable \subseteq 1..NBatches
  /\ FaultKinds \subseteq {"read", "append", "add"}
  /\ MaxStops \in Nat /\ MaxCrashes \in Nat /\ MaxFaults \in Nat
  /\ MaxEvicted \in Nat

VARIABLES
  doc,      \* the store: the documents, in the order they were created
  work,     \* the work files of each batch; an empty one is not there
  pc,       \* the worker
  cur,      \* the id it runs
  w,        \* its copy of the batch: struct batch of run_batch
  k,        \* the file it is on: of the line's answer, or of finalize's loop
  end,      \* how the batch is to end
  mu,       \* the batch whose cancel holds mu between two steps, or 0
  copy,     \* the copy of the batch a cancel loaded
  toWake,   \* creates that have saved their batch and not yet told the worker
  stopping, \* srv_batches_stop was called
  stops, crashes, faults  \* how many so far

workerVars == <<pc, cur, w, k, end>>
handlerVars == <<mu, copy, toWake>>
countVars == <<stops, crashes, faults>>
vars == <<doc, work, workerVars, handlerVars, stopping, countVars>>

Ids == 1..NBatches
Kinds == {"out", "err"}
Ended == {"failed", "completed", "expired", "cancelled"}
Open == {"validating", "in_progress", "cancelling", "finalizing"}

NoFile == <<>>
NewBatch == [status |-> "validating", next |-> 0, bytes |-> [x \in Kinds |-> 0],
             ok |-> 0, bad |-> 0, file |-> [x \in Kinds |-> NoFile]]
NoDoc == [NewBatch EXCEPT !.status = "none"]
Evicted == [NewBatch EXCEPT !.status = "evicted"]

-----------------------------------------------------------------------------
(* The worker: worker_main, run_batch, run_line, finalize.                 *)

Worker(from, to) == pc = from /\ pc' = to
Updated(b, r) == doc' = [doc EXCEPT ![b] = IF @ = Evicted THEN @ ELSE r]
Save(r) == Updated(cur, r)     \* srv_store_update: nothing to one let go
Fault(kind) == /\ kind \in FaultKinds /\ faults < MaxFaults
               /\ faults' = faults + 1

(* next_batch: the oldest with work left, taken under mu. *)
Waiting == {b \in Ids : doc[b].status \in Open}

next_batch ==
  /\ Worker("idle", "load") /\ mu = 0 /\ ~stopping /\ Waiting # {}
  /\ cur' = CHOOSE b \in Waiting : \A c \in Waiting : b <= c
  /\ UNCHANGED <<doc, work, w, k, end, handlerVars, stopping, countVars>>

Sleep ==
  /\ Worker("idle", "asleep") /\ mu = 0 /\ ~stopping /\ Waiting = {}
  /\ UNCHANGED <<doc, work, cur, w, k, end, handlerVars, stopping, countVars>>

Exit ==
  /\ Worker("idle", "exit") /\ mu = 0 /\ stopping
  /\ UNCHANGED <<doc, work, cur, w, k, end, handlerVars, stopping, countVars>>

(* run_batch: the batch as the store has it now, if it has it still; then  *)
(* its input is read.                                                      *)
LoadGone ==
  /\ Worker("load", "idle") /\ doc[cur] = Evicted
  /\ UNCHANGED <<doc, work, cur, w, k, end, handlerVars, stopping, countVars>>

Load ==
  /\ Worker("load", "read") /\ doc[cur] # Evicted
  /\ w' = doc[cur]
  /\ end' = "completed"
  /\ UNCHANGED <<doc, work, cur, k, handlerVars, stopping, countVars>>

(* The input cannot be read any more, or a batch not yet begun is not      *)
(* valid: failed.                                                          *)
BeginFailed ==
  /\ Worker("read", "idle")
  /\ w.status \in {"validating", "in_progress"}
  /\ \/ w.status = "validating" /\ UNCHANGED faults
     \/ Fault("read")
  /\ Save([w EXCEPT !.status = "failed"])
  /\ w' = NoDoc
  /\ UNCHANGED <<work, cur, k, end, handlerVars, stopping, stops, crashes>>

(* A new batch is in progress from here on, saved without mu; another goes *)
(* on from where it was.                                                   *)
Begin ==
  /\ Worker("read", "trim")
  /\ IF w.status = "validating"
     THEN /\ NLines > 0
          /\ w' = [w EXCEPT !.status = "in_progress", !.next = 0]
          /\ Save(w')
     ELSE UNCHANGED <<w, doc>>
  /\ UNCHANGED <<work, cur, k, end, handlerVars, stopping, countVars>>

\* Mutant: the work files left as the stop left them.
trim_work_Not(f, n) == f

(* A work file cut back to what the last save counted, or removed. *)
trim_work(f, n) ==
  IF n < Len(f) THEN SubSeq(f, 1, n) ELSE f

Trim ==
  /\ Worker("trim", "loop")
  /\ work' = [work EXCEPT ![cur] = [x \in Kinds |-> trim_work(@[x], w.bytes[x])]]
  /\ UNCHANGED <<doc, cur, w, k, end, handlerVars, stopping, countVars>>

\* Mutant: one line past the last.
More_OneMore == w.status = "in_progress" /\ w.next <= NLines

(* The head of the loop, under mu: the stop and a cancel are looked for;   *)
(* the 24 hours may be over.                                               *)
More == w.status = "in_progress" /\ w.next < NLines

LoopStop ==
  /\ Worker("loop", "idle") /\ mu = 0 /\ More /\ stopping
  /\ w' = NoDoc
  /\ UNCHANGED <<doc, work, cur, k, end, handlerVars, stopping, countVars>>

LoopLine ==
  /\ mu = 0 /\ More /\ ~stopping
  /\ \/ /\ doc[cur].status = "cancelling"
        /\ w' = [w EXCEPT !.status = "cancelling"]
        /\ end' = "cancelled"
        /\ Worker("loop", "final")
     \/ /\ doc[cur].status # "cancelling"
        /\ end' = "expired"
        /\ Worker("loop", "final")
        /\ UNCHANGED w
     \/ /\ doc[cur].status # "cancelling"
        /\ Worker("loop", "text")
        /\ UNCHANGED <<w, end>>
  /\ UNCHANGED <<doc, work, cur, k, handlerVars, stopping, countVars>>

LoopEnd ==
  /\ Worker("loop", "final") /\ ~More
  /\ end' = IF w.status = "cancelling" THEN "cancelled" ELSE end
  /\ UNCHANGED <<doc, work, cur, w, k, handlerVars, stopping, countVars>>

(* run_line: the request answered, and its answer appended to the output   *)
(* or to the error file: its text, then its line end.  A write that fails  *)
(* may leave part of the text: the line is counted failed.                 *)
Line == w.next + 1
Appended(x, units) == [work EXCEPT ![cur][x] = @ \o units]

AppendText ==
  /\ Worker("text", "nl")
  /\ \E x \in Kinds : k' = x /\ work' = Appended(x, <<Line>>)
  /\ UNCHANGED <<doc, cur, w, end, handlerVars, stopping, countVars>>

NotWritten ==
  /\ \/ /\ Worker("text", "save")
        /\ \E x \in Kinds, part \in {<<>>, <<-Line>>, <<Line>>} :
             work' = Appended(x, part)
     \/ /\ Worker("nl", "save")
        /\ \E part \in {<<>>, <<0>>} : work' = Appended(k, part)
  /\ Fault("append")
  /\ w' = [w EXCEPT !.bad = @ + 1, !.next = @ + 1]
  /\ UNCHANGED <<doc, cur, k, end, handlerVars, stopping, stops, crashes>>

AppendEnd ==
  /\ Worker("nl", "save")
  /\ work' = Appended(k, <<0>>)
  /\ w' = [w EXCEPT !.bytes[k] = @ + 2,
                    !.ok = IF k = "out" THEN @ + 1 ELSE @,
                    !.bad = IF k = "err" THEN @ + 1 ELSE @,
                    !.next = @ + 1]
  /\ UNCHANGED <<doc, cur, k, end, handlerVars, stopping, countVars>>

\* Mutant: the line's progress saved without mu and without a look.
SaveLine_Blind ==
  /\ Worker("save", "loop")
  /\ Save(w)
  /\ UNCHANGED <<work, cur, w, k, end, handlerVars, stopping, countVars>>

(* The line's progress saved under mu, and with it a cancel seen. *)
SaveLine ==
  /\ Worker("save", "loop") /\ mu = 0
  /\ w' = IF doc[cur].status = "cancelling"
          THEN [w EXCEPT !.status = "cancelling"] ELSE w
  /\ Save(w')
  /\ UNCHANGED <<work, cur, k, end, handlerVars, stopping, countVars>>

(* finalize, without mu: said, then each work file made a File and         *)
(* removed, then saved as ended.                                           *)
Finalizing ==
  /\ Worker("final", "add")
  /\ w' = [w EXCEPT !.status = "finalizing"]
  /\ Save(w')
  /\ k' = "out"
  /\ UNCHANGED <<work, cur, end, handlerVars, stopping, countVars>>

(* srv_files_add_parts takes a file that is as long as counted. *)
AddFile ==
  /\ Worker("add", "unlink")
  /\ IF w.bytes[k] > 0 /\ Len(work[cur][k]) = w.bytes[k]
     THEN \/ /\ w' = [w EXCEPT !.file[k] = work[cur][k]]
             /\ UNCHANGED faults
          \/ Fault("add") /\ UNCHANGED w
     ELSE UNCHANGED <<w, faults>>
  /\ UNCHANGED <<doc, work, cur, k, end, handlerVars, stopping, stops, crashes>>

\* Mutant: the error file never made.
Unlink_OutOnly ==
  /\ work' = [work EXCEPT ![cur][k] = NoFile]
  /\ Worker("unlink", "end") /\ UNCHANGED k
  /\ UNCHANGED <<doc, cur, w, end, handlerVars, stopping, countVars>>

Unlink ==
  /\ work' = [work EXCEPT ![cur][k] = NoFile]
  /\ \/ k = "out" /\ k' = "err" /\ Worker("unlink", "add")
     \/ k = "err" /\ UNCHANGED k /\ Worker("unlink", "end")
  /\ UNCHANGED <<doc, cur, w, end, handlerVars, stopping, countVars>>

SaveEnd ==
  /\ Worker("end", "idle")
  /\ Save([w EXCEPT !.status = end])
  /\ w' = NoDoc
  /\ UNCHANGED <<work, cur, k, end, handlerVars, stopping, countVars>>

run_batch == \/ LoadGone \/ Load \/ BeginFailed \/ Begin \/ Trim \/ LoopStop
             \/ LoopLine \/ LoopEnd \/ AppendText \/ NotWritten \/ AppendEnd \/ SaveLine
             \/ Finalizing \/ AddFile \/ Unlink \/ SaveEnd

worker_main == next_batch \/ Sleep \/ Exit \/ run_batch

-----------------------------------------------------------------------------
(* The handlers, the stop and the start.                                   *)

Woken == IF pc = "asleep" THEN "idle" ELSE pc
Serving == ~stopping

(* srv_batches_create: the document kept, then the worker told under mu.   *)
Create ==
  /\ Serving
  /\ \E b \in Ids : /\ doc[b] = NoDoc
                    /\ \A c \in 1..(b - 1) : doc[c] # NoDoc
                    /\ doc' = [doc EXCEPT ![b] = NewBatch]
                    /\ toWake' = toWake \cup {b}
  /\ UNCHANGED <<work, workerVars, mu, copy, stopping, countVars>>

\* Mutant: the worker not told.
CreateWake_Not ==
  /\ mu = 0 /\ \E b \in toWake : toWake' = toWake \ {b}
  /\ UNCHANGED <<doc, work, workerVars, mu, copy, stopping, countVars>>

CreateWake ==
  /\ mu = 0 /\ \E b \in toWake : toWake' = toWake \ {b}
  /\ pc' = Woken
  /\ UNCHANGED <<doc, work, cur, w, k, end, mu, copy, stopping, countVars>>

(* srv_batches_cancel: under mu the batch is loaded again and, if it is    *)
(* not past it, saved as cancelling.                                       *)
CancelLoad ==
  /\ Serving /\ mu = 0
  /\ \E b \in Cancellable :
       /\ doc[b].status \in {"validating", "in_progress"}
       /\ mu' = b /\ copy' = doc[b]
  /\ UNCHANGED <<doc, work, workerVars, toWake, stopping, countVars>>

CancelSave ==
  /\ mu \in Ids
  /\ Updated(mu, [copy EXCEPT !.status = "cancelling"])
  /\ mu' = 0 /\ copy' = NoDoc
  /\ pc' = Woken
  /\ UNCHANGED <<work, cur, w, k, end, toWake, stopping, countVars>>

(* The store makes room for some other document: the oldest go, whatever   *)
(* they are doing (trim and trim_bytes of store.c).                        *)
Evict ==
  /\ pc # "exit"
  /\ Cardinality({b \in Ids : doc[b] = Evicted}) < MaxEvicted
  /\ \E b \in Ids : /\ doc[b] \notin {NoDoc, Evicted}
                    /\ \A c \in 1..(b - 1) : doc[c] = Evicted
                    /\ doc' = [doc EXCEPT ![b] = Evicted]
  /\ UNCHANGED <<work, workerVars, handlerVars, stopping, countVars>>

(* srv_batches_stop, called when no handler runs any more. *)
Stop ==
  /\ Serving /\ stops < MaxStops /\ mu = 0 /\ toWake = {}
  /\ stopping' = TRUE /\ stops' = stops + 1
  /\ pc' = Woken
  /\ UNCHANGED <<doc, work, cur, w, k, end, handlerVars, crashes, faults>>

(* srv_batches_start, with nothing of the run before but the disk. *)
Fresh ==
  /\ pc' = "idle" /\ cur' = 1 /\ w' = NoDoc /\ k' = "out" /\ end' = "completed"
  /\ mu' = 0 /\ copy' = NoDoc /\ toWake' = {} /\ stopping' = FALSE

Start == pc = "exit" /\ Fresh /\ UNCHANGED <<doc, work, countVars>>

(* The server is killed, and started again. *)
Crash ==
  /\ crashes < MaxCrashes /\ crashes' = crashes + 1
  /\ Fresh
  /\ UNCHANGED <<doc, work, stops, faults>>

-----------------------------------------------------------------------------
Init ==
  /\ doc = [b \in Ids |-> NoDoc]
  /\ work = [b \in Ids |-> [x \in Kinds |-> NoFile]]
  /\ pc = "idle" /\ cur = 1 /\ w = NoDoc /\ k = "out" /\ end = "completed"
  /\ mu = 0 /\ copy = NoDoc /\ toWake = {} /\ stopping = FALSE
  /\ stops = 0 /\ crashes = 0 /\ faults = 0

Next == \/ worker_main \/ Create \/ CreateWake \/ CancelLoad \/ CancelSave
        \/ Evict \/ Stop \/ Start \/ Crash

Spec == Init /\ [][Next]_vars

(* The threads run, and a server stopped is started again. *)
FairSpec == /\ Spec
            /\ WF_vars(worker_main) /\ WF_vars(CreateWake)
            /\ WF_vars(CancelSave) /\ WF_vars(Start)

-----------------------------------------------------------------------------
Statuses == Ended \cup Open \cup {"none", "evicted"}

(* Every variable keeps its type. *)
TypeOK ==
  /\ \A r \in {doc[b] : b \in Ids} \cup {w, copy} :
       /\ r.status \in Statuses
       /\ r.next \in 0..NLines /\ r.ok \in 0..NLines /\ r.bad \in 0..NLines
       /\ \A x \in Kinds : r.bytes[x] \in 0..(2 * NLines)
  /\ \A b \in Ids, x \in Kinds : work[b][x] \in Seq(-NLines..NLines)
  /\ pc \in {"idle", "asleep", "exit", "load", "read", "trim", "loop", "text",
             "nl", "save", "final", "add", "unlink", "end"}
  /\ cur \in Ids /\ k \in Kinds /\ end \in Ended \ {"failed"}
  /\ mu \in Ids \cup {0} /\ toWake \subseteq Ids /\ stopping \in BOOLEAN
  /\ stops \in 0..MaxStops /\ crashes \in 0..MaxCrashes
  /\ faults \in 0..MaxFaults

(* The file is whole lines, each once. *)
Whole(f) ==
  /\ Len(f) % 2 = 0
  /\ \A i \in 1..Len(f) : IF i % 2 = 1 THEN f[i] > 0 ELSE f[i] = 0
  /\ \A i, j \in 1..Len(f) : (f[i] = f[j] /\ f[i] # 0) => i = j

LinesOf(f) == {f[i] : i \in 1..Len(f)} \ {0}

(* Whenever the worker takes up a line, after whatever stops and crashes,  *)
(* the two work files hold the lines before it, each once, and nothing     *)
(* else: a line half written is gone and none is run twice.  A write that  *)
(* failed leaves its part behind (run_line does not cut it), so this is    *)
(* said of servers whose writes have succeeded.                            *)
WorkExact ==
  (pc = "loop" /\ w.status = "in_progress" /\ faults = 0) =>
    LET f == work[cur]
    IN  /\ \A x \in Kinds : Whole(f[x]) /\ Len(f[x]) = w.bytes[x]
        /\ LinesOf(f["out"]) \cap LinesOf(f["err"]) = {}
        /\ LinesOf(f["out"]) \cup LinesOf(f["err"]) = 1..w.next

(* A batch that ended has its answers: as many lines in its output file as *)
(* it says were answered, and the other lines run in its error file, each  *)
(* whole and once.  Said of batches no client cancels, of a server that    *)
(* was only ever stopped (any number of times, anywhere), with no failure: *)
(* a kill between srv_files_add_parts and the last save does lose them.    *)
AnswersKept ==
  (crashes = 0 /\ faults = 0) =>
    \A b \in Ids \ Cancellable : doc[b].status \in Ended \ {"failed"} =>
      /\ \A x \in Kinds : Whole(doc[b].file[x])
      /\ Cardinality(LinesOf(doc[b].file["out"])) = doc[b].ok
      /\ Cardinality(LinesOf(doc[b].file["err"])) = doc[b].bad

(* The progress of a line never overwrites a cancel that was saved, nor    *)
(* does the cancel take back a line's progress.                            *)
LineKeepsCancel ==
  [][ pc = "save" /\ pc' = "loop" /\ doc[cur] # Evicted =>
        /\ doc[cur].status = "cancelling" => doc'[cur].status = "cancelling"
        /\ doc'[cur].next = doc[cur].next + 1 ]_vars

(* A cancel that was saved is never forgotten: the batch goes from         *)
(* cancelling to its end, unless it turns out not to be valid.             *)
CancelSticks ==
  [][ \A b \in Ids : doc[b].status = "cancelling" =>
        doc'[b].status \in {"cancelling", "finalizing", "cancelled", "failed",
                            "evicted"} ]_vars

(* Every batch comes to an end, through stops, crashes and failures, unless *)
(* the store lets it go; and one let go does not come back, nor does the    *)
(* worker that was running it keep the others waiting.                      *)
BatchEnds ==
  /\ \A b \in Ids : doc[b].status \in Open ~> doc[b].status \in Ended \cup {"evicted"}
  /\ [][ \A b \in Ids : doc[b] = Evicted => doc'[b] = Evicted ]_vars

=============================================================================
