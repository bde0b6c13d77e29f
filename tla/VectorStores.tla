---------------------------- MODULE VectorStores ----------------------------
(***************************************************************************)
(* The files of one vector store and the thread that indexes them          *)
(* (server/vectors.c, with the handlers of vectors_api.c and               *)
(* vectors_batches.c).                                                     *)
(*                                                                         *)
(* Everything is on the disk: files/<id>.json (its status), <id>.chunks    *)
(* and <id>.vec.  The JSON of a file is read and written under one lock,   *)
(* each time on its own: what a handler or the indexer read may be old     *)
(* when it writes.  The chunks and the vectors are written under no lock.  *)
(* An action is one such section, or one unlocked access to the disk.      *)
(*                                                                         *)
(* Left out: the text of the files, the cutting, the search and its        *)
(* scores, the lists and their pages, the metadata and expiry of a store,  *)
(* and the other stores (the indexer looks for the oldest file of all).    *)
(***************************************************************************)
EXTENDS Naturals, FiniteSets

CONSTANTS
  Files,      \* ids of uploaded files
  NoFile,     \* none of them
  NotText,    \* those that are too large or not text
  Clients,    \* threads of the HTTP server
  FirstModel, \* whether the first process has an embedding model
  Pieces,     \* groups of EMBED_BATCH chunks of a file
  MaxAttach,  \* bound: files attached, counting each time
  MaxEvents   \* bound: other requests, errors, stops and crashes in all

ASSUME VectorStoresAssumption ==
  /\ NoFile \notin Files /\ NotText \subseteq Files /\ IsFiniteSet(Files)
  /\ FirstModel \in BOOLEAN /\ Pieces \in Nat \ {0}
  /\ MaxAttach \in Nat /\ MaxEvents \in Nat

VARIABLES
  store,      \* whether meta.json is there
  json,       \* files/<id>.json, or None
  chunks,     \* the attachment <id>.chunks was cut for, 0: no such file
  vec,        \* the attachment <id>.vec was made for, 0: no such file
  batch,      \* the batch of all the files: "none", "made", "cancelled"
  held,       \* uploaded files still in the files' store
  model,      \* whether the server has an embedding model
  kicked, stopping,
  w,          \* the indexing thread: pc and the locals of index_file
  cl,         \* the clients: pc and the locals of the handler
  atts,       \* attachments so far; also the clock of created_at
  old,        \* files whose JSON an update put back older than it was
  asked,      \* files asked to be attached so far
  events      \* events so far

vars == <<store, json, chunks, vec, batch, held, model, kicked, stopping,
          w, cl, atts, old, asked, events>>
disk == <<store, json, chunks, vec, batch, held>>

None == [status |-> "absent", att |-> 0, by |-> 0, cause |-> FALSE]

WorkerPCs == {"top", "scan", "read", "sizes", "chunks", "embed", "call",
              "vec", "done", "set", "wait", "out"}
ClientPCs == {"idle", "write", "wake", "save", "put", "ask", "cancel",
              "mark"}

\* A file attached: its status, which attachment it is and, as history, the
\* attachment the indexer had read when it set the status and whether
\* something had gone wrong.
Json == [status : {"absent", "in_progress", "completed", "failed",
                   "cancelled"},
         att : 0..MaxAttach, by : 0..MaxAttach,
         cause : BOOLEAN]

Up == w.pc # "out" /\ ~stopping
Waiting(f) == json[f].status = "in_progress"
Event == events < MaxEvents /\ events' = events + 1

IdleClient == [pc |-> "idle", todo |-> {}, f |-> NoFile, batch |-> FALSE,
               copy |-> None]
TopOf == [pc |-> "top", todo |-> {}, f |-> NoFile, att |-> 0, left |-> 0,
          ok |-> TRUE, none |-> FALSE, cause |-> FALSE]

(* srv_vectors_start on a store that is there and holds no file. *)
Init ==
  /\ store = TRUE /\ json = [f \in Files |-> None]
  /\ chunks = [f \in Files |-> 0] /\ vec = [f \in Files |-> 0]
  /\ batch = "none" /\ held = Files /\ model = FirstModel
  /\ kicked = FALSE /\ stopping = FALSE
  /\ w = TopOf /\ cl = [c \in Clients |-> IdleClient]
  /\ atts = 0 /\ old = {} /\ asked = 0 /\ events = 0

(***************************************************************************)
(* The indexing thread: worker_main, next_file and index_file.             *)
(***************************************************************************)
Goto(pc) == w' = IF pc = "top" THEN TopOf ELSE [w EXCEPT !.pc = pc]
KeepDisk == UNCHANGED <<disk, model, stopping, cl, atts, old, asked>>

(* The top of the loop: the stop and the kicks so far are taken together. *)
WTop ==
  /\ w.pc = "top"
  /\ kicked' = FALSE
  /\ w' = IF stopping THEN [TopOf EXCEPT !.pc = "out"]
          ELSE [TopOf EXCEPT !.pc = "scan", !.todo = Files]
  /\ KeepDisk /\ UNCHANGED events

(* next_file reads one JSON after the other, without the lock. *)
WScan ==
  /\ w.pc = "scan"
  /\ \E f \in w.todo :
       w' = IF Waiting(f) /\ (w.f = NoFile \/ json[f].att < w.att)
            THEN [w EXCEPT !.todo = @ \ {f}, !.f = f, !.att = json[f].att]
            ELSE [w EXCEPT !.todo = @ \ {f}]
  /\ KeepDisk /\ UNCHANGED <<kicked, events>>

\* Mutant: the kicks are forgotten when the thread goes to sleep.
WScanned_ForgetsKick ==
  /\ w.pc = "scan" /\ w.todo = {}
  /\ Goto(IF w.f = NoFile THEN "wait" ELSE "read")
  /\ kicked' = IF w.f = NoFile THEN FALSE ELSE kicked
  /\ KeepDisk /\ UNCHANGED events

(* The oldest file waiting, or none. *)
WScanned ==
  /\ w.pc = "scan" /\ w.todo = {}
  /\ Goto(IF w.f = NoFile THEN "wait" ELSE "read")
  /\ KeepDisk /\ UNCHANGED <<kicked, events>>

(* Nothing waiting: asleep until kicked or told to stop. *)
WWait ==
  /\ w.pc = "wait" /\ (stopping \/ kicked)
  /\ Goto("top")
  /\ KeepDisk /\ UNCHANGED <<kicked, events>>

(* srv_vectors_set_status: the JSON there now, with another status. *)
SetStatus(f, status, by, cause) ==
  json' = [json EXCEPT ![f] =
             IF json[f] = None THEN None
             ELSE [json[f] EXCEPT !.status = status, !.by = by, !.cause = cause]]

(* The file is looked for and read: not there any more, not text, or an
   error of the disk. *)
WRead ==
  /\ w.pc = "read"
  /\ \/ /\ w.f \in held \ NotText
        /\ Goto("sizes") /\ UNCHANGED events
     \/ /\ w.f \notin held \/ w.f \in NotText
        /\ w' = [w EXCEPT !.pc = "set", !.ok = FALSE, !.cause = TRUE]
        /\ UNCHANGED events
     \/ /\ Event
        /\ w' = [w EXCEPT !.pc = "set", !.ok = FALSE, !.cause = TRUE]
  /\ KeepDisk /\ UNCHANGED kicked

(* The chunking strategy, read from the JSON; the text is cut. *)
WSizes ==
  /\ w.pc = "sizes"
  /\ w' = [w EXCEPT !.pc = "chunks", !.att = json[w.f].att, !.left = Pieces]
  /\ KeepDisk /\ UNCHANGED <<kicked, events>>

(* A file written aside and renamed: it may fail, and it does in a store
   that was deleted. *)
Written(file, next) ==
  \/ /\ store /\ UNCHANGED events
     /\ file' = [file EXCEPT ![w.f] = w.att]
     /\ Goto(next)
  \/ /\ IF store THEN Event ELSE UNCHANGED events
     /\ w' = [w EXCEPT !.pc = "done", !.ok = FALSE, !.cause = TRUE]
     /\ UNCHANGED file

WChunks ==
  /\ w.pc = "chunks"
  /\ Written(chunks, "embed")
  /\ UNCHANGED <<store, json, vec, batch, held, model, stopping, cl, atts,
                 old, asked, kicked>>

\* Mutant: the loop over the chunks runs once too often.
WStatus_OneMore ==
  /\ w.pc = "embed"
  /\ IF ~Waiting(w.f) \/ stopping
     THEN w' = [w EXCEPT !.pc = "done", !.ok = FALSE]
     ELSE Goto("call")
  /\ KeepDisk /\ UNCHANGED <<kicked, events>>

(* Before each group of chunks: taken away meanwhile, or the server
   stops. *)
WStatus ==
  /\ w.pc = "embed"
  /\ IF w.left = 0 THEN Goto("vec")
     ELSE IF ~Waiting(w.f) \/ stopping
     THEN w' = [w EXCEPT !.pc = "done", !.ok = FALSE]
     ELSE Goto("call")
  /\ KeepDisk /\ UNCHANGED <<kicked, events>>

(* The embeddings of a group, from the server's own handler. *)
WCall ==
  /\ w.pc = "call"
  /\ \/ /\ model /\ w' = [w EXCEPT !.pc = "embed", !.left = @ - 1]
        /\ UNCHANGED events
     \/ /\ ~model /\ w' = [w EXCEPT !.pc = "vec", !.none = TRUE]
        /\ UNCHANGED events
     \/ /\ Event
        /\ w' = [w EXCEPT !.pc = "done", !.ok = FALSE, !.cause = TRUE]
  /\ KeepDisk /\ UNCHANGED kicked

(* The vectors written, or those of an earlier indexing removed. *)
WVec ==
  /\ w.pc = "vec"
  /\ \/ ~w.none /\ Written(vec, "done")
     \/ /\ w.none /\ Goto("done") /\ UNCHANGED events
        /\ vec' = [vec EXCEPT ![w.f] = 0]
  /\ UNCHANGED <<store, json, chunks, batch, held, model, stopping, cl, atts,
                 old, asked, kicked>>

\* Mutant: a file cut short by the stop is not left in progress.
WDone_StopFails ==
  /\ w.pc = "done"
  /\ Goto(IF ~Waiting(w.f) THEN "top" ELSE "set")
  /\ KeepDisk /\ UNCHANGED <<kicked, events>>

(* Cut short by the stop: left in progress.  Cancelled or detached
   meanwhile: nothing is set. *)
WDone ==
  /\ w.pc = "done"
  /\ Goto(IF (stopping /\ ~w.ok) \/ ~Waiting(w.f) THEN "top" ELSE "set")
  /\ KeepDisk /\ UNCHANGED <<kicked, events>>

(* completed or failed, whatever the JSON says by now; the write may fail. *)
WSet ==
  /\ w.pc = "set"
  /\ \/ /\ SetStatus(w.f, IF w.ok THEN "completed" ELSE "failed", w.att,
                     w.cause)
        /\ UNCHANGED events
     \/ Event /\ UNCHANGED json
  /\ Goto("top")
  /\ UNCHANGED <<store, chunks, vec, batch, held, model, stopping, cl, atts,
                 old, asked, kicked>>

Worker == \/ WTop \/ WScan \/ WScanned \/ WWait \/ WRead \/ WSizes
          \/ WChunks \/ WStatus \/ WCall \/ WVec \/ WDone \/ WSet

(***************************************************************************)
(* The handlers.  A client serves one request after the other.             *)
(***************************************************************************)
KeepRest == UNCHANGED <<model, stopping, w, asked>>
At(c, pc) == cl[c].pc = pc
Step(c, r) == cl' = [cl EXCEPT ![c] = r]

(* srv_vs_file_create, and srv_vs_batch_create of all the files: the store
   and every file there before any is attached. *)
AttachBegin(c) ==
  /\ At(c, "idle") /\ Up /\ store
  /\ \/ \E f \in held :
          /\ Step(c, [IdleClient EXCEPT !.pc = "write", !.todo = {f}])
          /\ asked' = asked + 1
     \/ /\ held = Files /\ batch = "none"
        /\ Step(c, [IdleClient EXCEPT !.pc = "write", !.todo = Files,
                                      !.batch = TRUE])
        /\ asked' = asked + Cardinality(Files)
  /\ asked' <= MaxAttach
  /\ UNCHANGED <<disk, model, stopping, w, kicked, atts, old, events>>

(* attach: the JSON written, in progress, over the one there if any.  A file
   deleted meanwhile ends the request with nothing written. *)
AttachWrite(c) ==
  /\ At(c, "write")
  /\ \E f \in cl[c].todo :
       \/ /\ f \in held /\ store
          /\ atts' = atts + 1
          /\ json' = [json EXCEPT ![f] =
                        [None EXCEPT !.status = "in_progress",
                                     !.att = atts + 1]]
          /\ old' = old \ {f}
          /\ Step(c, [cl[c] EXCEPT !.pc = "wake", !.todo = @ \ {f}])
          /\ UNCHANGED events
       \/ /\ f \in held
          /\ IF store THEN Event ELSE UNCHANGED events
          /\ Step(c, [cl[c] EXCEPT !.pc = "wake", !.todo = {},
                                   !.batch = FALSE])
          /\ UNCHANGED <<atts, json, old>>
       \/ /\ f \notin held
          /\ Step(c, IdleClient)
          /\ UNCHANGED <<atts, json, old, events>>
  /\ KeepRest
  /\ UNCHANGED <<store, chunks, vec, batch, held, kicked>>

(* srv_vectors_wake; then the next file of the batch, or its end. *)
AttachWake(c) ==
  /\ At(c, "wake")
  /\ kicked' = TRUE
  /\ Step(c, IF cl[c].todo # {} THEN [cl[c] EXCEPT !.pc = "write"]
             ELSE IF cl[c].batch THEN [cl[c] EXCEPT !.pc = "save"]
             ELSE IdleClient)
  /\ KeepRest /\ UNCHANGED <<disk, atts, old, events>>

(* The batch is kept once its files are attached. *)
BatchSave(c) ==
  /\ At(c, "save")
  /\ batch' = IF store THEN "made" ELSE batch
  /\ Step(c, IdleClient)
  /\ KeepRest
  /\ UNCHANGED <<store, json, chunks, vec, held, kicked, atts, old, events>>

(* srv_vs_batch_cancel: file after file, its status is asked ... *)
CancelBegin(c) ==
  /\ At(c, "idle") /\ Up /\ store /\ batch # "none" /\ Event
  /\ Step(c, [IdleClient EXCEPT !.pc = "ask", !.todo = Files])
  /\ KeepRest /\ UNCHANGED <<disk, kicked, atts, old>>

CancelAsk(c) ==
  /\ At(c, "ask")
  /\ \/ \E f \in cl[c].todo :
          Step(c, IF Waiting(f)
                  THEN [cl[c] EXCEPT !.todo = @ \ {f}, !.f = f,
                                     !.pc = "cancel"]
                  ELSE [cl[c] EXCEPT !.todo = @ \ {f}])
     \/ cl[c].todo = {} /\ Step(c, [cl[c] EXCEPT !.pc = "mark"])
  /\ KeepRest /\ UNCHANGED <<disk, kicked, atts, old, events>>

(* ... and set to cancelled in a section of its own ... *)
CancelSet(c) ==
  /\ At(c, "cancel")
  /\ SetStatus(cl[c].f, "cancelled", json[cl[c].f].by, json[cl[c].f].cause)
  /\ Step(c, [cl[c] EXCEPT !.pc = "ask", !.f = NoFile])
  /\ KeepRest
  /\ UNCHANGED <<store, chunks, vec, batch, held, kicked, atts, old, events>>

(* ... and the batch is saved as cancelled. *)
CancelMark(c) ==
  /\ At(c, "mark")
  /\ batch' = IF store THEN "cancelled" ELSE batch
  /\ Step(c, IdleClient)
  /\ KeepRest
  /\ UNCHANGED <<store, json, chunks, vec, held, kicked, atts, old, events>>

(* srv_vs_file_update: the JSON is read ... *)
UpdateRead(c) ==
  /\ At(c, "idle") /\ Up /\ store /\ Event
  /\ \E f \in Files :
       /\ json[f] # None
       /\ Step(c, [IdleClient EXCEPT !.pc = "put", !.f = f,
                                     !.copy = json[f]])
  /\ KeepRest /\ UNCHANGED <<disk, kicked, atts, old>>

(* ... and written with other attributes: over whatever is there now. *)
UpdateWrite(c) ==
  /\ At(c, "put")
  /\ LET f == cl[c].f
     IN  /\ json' = [json EXCEPT ![f] = IF store THEN cl[c].copy ELSE @]
         /\ old' = IF store /\ json[f] # cl[c].copy THEN old \cup {f} ELSE old
  /\ Step(c, IdleClient)
  /\ KeepRest
  /\ UNCHANGED <<store, chunks, vec, batch, held, kicked, atts, events>>

(* srv_vs_file_delete: the three files of one file, under the lock. *)
Detach(c) ==
  /\ At(c, "idle") /\ Up /\ store /\ Event
  /\ \E f \in Files :
       /\ json[f] # None
       /\ json' = [json EXCEPT ![f] = None]
       /\ chunks' = [chunks EXCEPT ![f] = 0]
       /\ vec' = [vec EXCEPT ![f] = 0]
  /\ KeepRest
  /\ UNCHANGED <<store, batch, held, cl, kicked, atts, old>>

(* srv_vs_delete: the whole directory, under the lock. *)
DeleteStore(c) ==
  /\ At(c, "idle") /\ Up /\ store /\ Event
  /\ store' = FALSE /\ batch' = "none"
  /\ json' = [f \in Files |-> None]
  /\ chunks' = [f \in Files |-> 0] /\ vec' = [f \in Files |-> 0]
  /\ KeepRest
  /\ UNCHANGED <<held, cl, kicked, atts, old>>

(* DELETE /v1/files/<id>: the files' store is another component. *)
DeleteUpload(c) ==
  /\ At(c, "idle") /\ Up /\ Event
  /\ \E f \in held : held' = held \ {f}
  /\ KeepRest
  /\ UNCHANGED <<store, json, chunks, vec, batch, cl, kicked, atts, old>>

\* The rest of a request that has begun.
Goes(c) == \/ AttachWrite(c) \/ AttachWake(c) \/ BatchSave(c)
           \/ CancelAsk(c) \/ CancelSet(c) \/ CancelMark(c) \/ UpdateWrite(c)
Begins(c) == \/ AttachBegin(c) \/ CancelBegin(c) \/ UpdateRead(c)
             \/ Detach(c) \/ DeleteStore(c) \/ DeleteUpload(c)

(***************************************************************************)
(* The life of the server.                                                 *)
(***************************************************************************)
(* srv_vectors_stop, once the HTTP server has ended its requests. *)
Stop ==
  /\ Up /\ Event
  /\ \A c \in Clients : At(c, "idle")
  /\ stopping' = TRUE
  /\ UNCHANGED <<disk, model, kicked, w, cl, atts, old, asked>>

Crash ==
  /\ w.pc # "out" /\ Event
  /\ w' = [TopOf EXCEPT !.pc = "out"]
  /\ cl' = [c \in Clients |-> IdleClient]
  /\ UNCHANGED <<disk, model, kicked, stopping, atts, old, asked>>

(* srv_vectors_start in a new process, perhaps with another model. *)
Start ==
  /\ w.pc = "out"
  /\ w' = TopOf /\ kicked' = FALSE /\ stopping' = FALSE
  /\ model' \in BOOLEAN
  /\ UNCHANGED <<disk, cl, atts, old, asked, events>>

Next == \/ Worker
        \/ \E c \in Clients : Goes(c) \/ Begins(c)
        \/ Stop \/ Crash \/ Start

(* The indexing thread goes on, and so does a request once begun; new
   requests, the stop and the start of the server are not promised. *)
Fairness == WF_vars(Worker) /\ \A c \in Clients : WF_vars(Goes(c))

Spec == Init /\ [][Next]_vars /\ Fairness

(***************************************************************************)
(* Properties.                                                             *)
(***************************************************************************)

(* The types, and the loop of index_file never goes past the chunks. *)
TypeOK ==
  /\ store \in BOOLEAN /\ json \in [Files -> Json]
  /\ chunks \in [Files -> 0..MaxAttach]
  /\ vec \in [Files -> 0..MaxAttach]
  /\ batch \in {"none", "made", "cancelled"} /\ held \subseteq Files
  /\ model \in BOOLEAN /\ kicked \in BOOLEAN /\ stopping \in BOOLEAN
  /\ w \in [pc : WorkerPCs, todo : SUBSET Files, f : Files \cup {NoFile},
            att : 0..MaxAttach, left : 0..Pieces, ok : BOOLEAN,
            none : BOOLEAN, cause : BOOLEAN]
  /\ cl \in [Clients -> [pc : ClientPCs, todo : SUBSET Files,
                         f : Files \cup {NoFile}, batch : BOOLEAN,
                         copy : Json]]
  /\ atts \in 0..MaxAttach /\ old \subseteq Files
  /\ asked \in 0..MaxAttach /\ events \in 0..MaxEvents

(* What the status the indexer set says is so: a file completed has the
   chunks of its own chunking strategy, and vectors of those chunks or none;
   a file failed met an error, and was not just cut short by a stop or a
   cancel.  Two races of the handlers are set apart, for there it is not
   so: a file attached again while it is being indexed (by # att), and one
   whose JSON an update of its attributes put back (old). *)
StatusTrue ==
  \A f \in Files \ old :
    json[f].by = json[f].att =>
      /\ json[f].status = "completed" =>
           chunks[f] = json[f].att /\ vec[f] \in {0, json[f].att}
      /\ json[f].status = "failed" => json[f].cause

(* No file waits for ever while the server runs: attached, it is indexed,
   cancelled or detached, or the server stops; and one left in progress by a
   stop or a crash is taken up at the next start.  A kick that comes while
   the indexer looks for work is not lost.  (A file an update put back to
   in_progress is waiting for the next kick.) *)
WaitingEnds ==
  \A f \in Files :
    (Waiting(f) /\ Up) ~> (~Waiting(f) \/ ~Up \/ f \in old)
=============================================================================
