------------------------- MODULE VectorStoresProofs -------------------------
(***************************************************************************)
(* Proofs about VectorStores, for any files, clients and number of         *)
(* attachments, requests, errors, stops and kills: the types, and that     *)
(* what the indexer says of a file is so.                                  *)
(***************************************************************************)
EXTENDS VectorStores, FiniteSetTheorems, TLAPS

WRec == [pc : WorkerPCs, todo : SUBSET Files, f : Files \cup {NoFile},
         att : 0..MaxAttach, left : 0..Pieces, ok : BOOLEAN,
         none : BOOLEAN, cause : BOOLEAN]
CRec == [pc : ClientPCs, todo : SUBSET Files, f : Files \cup {NoFile},
         batch : BOOLEAN, copy : Json]

(* The files that handlers have still to attach were asked for, and nothing
   carries an attachment that is yet to come. *)
Pend == {p \in Clients \X Files :
           cl[p[1]].pc \in {"write", "wake"} /\ p[2] \in cl[p[1]].todo}

AttInv ==
  /\ IsFiniteSet(Pend) /\ atts + Cardinality(Pend) <= asked
  /\ \A f \in Files : json[f].att <= atts
  /\ \A c \in Clients : cl[c].copy.att <= atts

(* A handler that is about to change a JSON knows of which file. *)
ClientInv == \A c \in Clients : cl[c].pc \in {"cancel", "put"} => cl[c].f \in Files

(* The indexer's file still is the attachment it was cut for. *)
Same == json[w.f] # None /\ json[w.f].att = w.att

(* The indexer.  While it has a file the status of that file is nobody's
   verdict; what it wrote is that of its attachment as long as that one is
   attached; and it has given up without an error only on a stop, or on a file
   no longer waiting or attached anew. *)
WorkerInv ==
  /\ w.att <= atts
  /\ w.pc \in {"top", "wait", "out"} => w.f = NoFile
  /\ w.pc \notin {"top", "wait", "out", "scan"} => w.f \in Files
  /\ w.pc \in {"scan", "read", "sizes", "chunks", "embed", "call", "vec"} => w.ok
  /\ w.pc = "call" => w.left > 0
  /\ w.f \in Files \ old => json[w.f].status \notin {"completed", "failed"}
  /\ w.pc \in {"embed", "call", "vec", "done", "set"} /\ w.ok /\ w.f \notin old /\ Same
       => chunks[w.f] = w.att
  /\ w.pc \in {"done", "set"} /\ w.ok => vec[w.f] \in {0, w.att}
  /\ w.pc \in {"done", "set"} /\ ~w.ok /\ ~w.cause =>
       \/ w.f \in old \/ ~Same
       \/ w.pc = "done" /\ (stopping \/ ~Waiting(w.f))

IInv == TypeOK /\ AttInv /\ ClientInv /\ WorkerInv /\ StatusTrue

-----------------------------------------------------------------------------
(* The records. *)
LEMMA Fixed ==
  /\ TopOf \in WRec /\ TopOf.pc = "top" /\ TopOf.f = NoFile /\ TopOf.att = 0 /\ TopOf.ok
  /\ None \in Json /\ None.status = "absent" /\ None.att = 0
  /\ IdleClient \in CRec /\ IdleClient.pc = "idle" /\ IdleClient.copy = None
  /\ 0 \in 0..MaxAttach /\ MaxAttach \in Nat /\ MaxEvents \in Nat /\ Pieces \in Nat
  /\ NoFile \notin Files /\ IsFiniteSet(Files)
  <1>1. /\ 0 \in 0..MaxAttach /\ 0 \in 0..Pieces /\ {} \in SUBSET Files
        /\ MaxAttach \in Nat /\ MaxEvents \in Nat /\ Pieces \in Nat
        /\ NoFile \notin Files /\ IsFiniteSet(Files)
    BY VectorStoresAssumption
  <1>2. TopOf \in WRec /\ TopOf.pc = "top" /\ TopOf.f = NoFile /\ TopOf.att = 0 /\ TopOf.ok
    BY <1>1 DEF TopOf, WRec, WorkerPCs
  <1>3. None \in Json /\ None.status = "absent" /\ None.att = 0
    BY <1>1 DEF None, Json
  <1>4. IdleClient \in CRec /\ IdleClient.pc = "idle" /\ IdleClient.copy = None
    BY <1>1, <1>3 DEF IdleClient, CRec, ClientPCs
  <1> QED
    BY <1>1, <1>2, <1>3, <1>4

LEMMA Types ==
  ASSUME IInv
  PROVE  /\ w \in WRec /\ cl \in [Clients -> CRec] /\ json \in [Files -> Json]
         /\ atts \in Nat /\ w.att \in Nat /\ w.left \in Nat
         /\ \A f \in Files : json[f].att \in Nat
         /\ \A c \in Clients : cl[c].copy.att \in Nat
         /\ NoFile \notin Files
         /\ w.ok \in BOOLEAN /\ w.cause \in BOOLEAN /\ stopping \in BOOLEAN
  <1>1. w \in WRec /\ cl \in [Clients -> CRec] /\ json \in [Files -> Json] /\ atts \in 0..MaxAttach
        /\ stopping \in BOOLEAN
    BY DEF IInv, TypeOK, WRec, CRec
  <1>2. w.att \in 0..MaxAttach /\ w.left \in 0..Pieces /\ w.ok \in BOOLEAN /\ w.cause \in BOOLEAN
    BY <1>1 DEF WRec
  <1>3. \A f \in Files : json[f].att \in 0..MaxAttach
    BY <1>1 DEF Json
  <1>4. \A c \in Clients : cl[c].copy.att \in 0..MaxAttach
    BY <1>1 DEF CRec, Json
  <1> QED
    BY <1>1, <1>2, <1>3, <1>4, Fixed

LEMMA TakeEvent ==
  ASSUME IInv, events' = events \/ Event
  PROVE  events' \in 0..MaxEvents
  <1>1. events \in 0..MaxEvents /\ MaxEvents \in Nat
    BY Fixed DEF IInv, TypeOK
  <1> QED
    BY <1>1 DEF Event

(* The indexer at another place. *)
LEMMA AtPc ==
  ASSUME NEW r \in WRec, NEW p \in WorkerPCs, NEW q, q = [r EXCEPT !.pc = p]
  PROVE  /\ q \in WRec /\ q.pc = p /\ q.f = r.f /\ q.att = r.att /\ q.left = r.left
         /\ q.ok = r.ok /\ q.cause = r.cause /\ q.none = r.none
  BY DEF WRec

(* The indexer gives up on an error. *)
GaveUp(r, p) == [r EXCEPT !.pc = p, !.ok = FALSE, !.cause = TRUE]

LEMMA Gives ==
  ASSUME NEW r \in WRec, NEW p \in WorkerPCs, NEW q, q = GaveUp(r, p)
  PROVE  /\ q \in WRec /\ q.pc = p /\ q.f = r.f /\ q.att = r.att /\ q.left = r.left
         /\ ~q.ok /\ q.cause
  BY DEF WRec, GaveUp

-----------------------------------------------------------------------------
(* The indexer's steps that leave the disk alone. *)
LEMMA Turns ==
  ASSUME IInv, UNCHANGED <<disk, model, stopping, cl, atts, old, asked>>,
         w' \in WRec, events' \in 0..MaxEvents, kicked' \in BOOLEAN, WorkerInv'
  PROVE  IInv'
  <1>1. UNCHANGED <<store, json, chunks, vec, batch, held, model, stopping, cl, atts, old, asked>>
    BY DEF disk
  <1>2. TypeOK'
    BY <1>1 DEF IInv, TypeOK, WRec
  <1>3. AttInv'
    BY <1>1 DEF IInv, AttInv, Pend
  <1>4. ClientInv'
    BY <1>1 DEF IInv, ClientInv
  <1>5. StatusTrue'
    BY <1>1 DEF IInv, StatusTrue
  <1> QED
    BY <1>2, <1>3, <1>4, <1>5 DEF IInv

(* A new round. *)
LEMMA TopInv ==
  ASSUME w'.f = NoFile, w'.att = 0, w'.ok, w'.pc \in {"top", "out", "scan", "wait"}, atts' \in Nat
  PROVE  WorkerInv'
  <1>1. 0 <= atts' /\ NoFile \notin Files
    BY Fixed
  <1> QED
    BY <1>1 DEF WorkerInv

LEMMA TopStep ==
  ASSUME IInv, WTop
  PROVE  IInv'
  <1>1. /\ UNCHANGED <<disk, model, stopping, cl, atts, old, asked>>
        /\ events' \in 0..MaxEvents /\ kicked' \in BOOLEAN /\ atts' \in Nat
    BY TakeEvent, Types DEF WTop, KeepDisk
  <1>2. /\ w' \in WRec /\ w'.f = NoFile /\ w'.att = 0 /\ w'.ok /\ w'.pc \in {"out", "scan"}
    <2>1. CASE stopping
      <3>1. w' = [TopOf EXCEPT !.pc = "out"]
        BY <2>1 DEF WTop
      <3> QED
        BY <3>1, Fixed DEF WRec, WorkerPCs
    <2>2. CASE ~stopping
      <3>1. w' = [TopOf EXCEPT !.pc = "scan", !.todo = Files]
        BY <2>2 DEF WTop
      <3> QED
        BY <3>1, Fixed DEF WRec, WorkerPCs
    <2> QED
      BY <2>1, <2>2
  <1>3. WorkerInv'
    BY <1>1, <1>2, TopInv
  <1> QED
    BY <1>1, <1>2, <1>3, Turns

LEMMA ScanStep ==
  ASSUME IInv, WScan
  PROVE  IInv'
  <1>1. /\ UNCHANGED <<disk, model, stopping, cl, atts, old, asked>> /\ w.pc = "scan"
        /\ events' \in 0..MaxEvents /\ kicked' \in BOOLEAN
    BY TakeEvent DEF WScan, KeepDisk, IInv, TypeOK
  <1>2. UNCHANGED <<json, old, atts>>
    BY <1>1 DEF disk
  <1>3. PICK f \in w.todo :
          w' = IF Waiting(f) /\ (w.f = NoFile \/ json[f].att < w.att)
               THEN [w EXCEPT !.todo = w.todo \ {f}, !.f = f, !.att = json[f].att]
               ELSE [w EXCEPT !.todo = w.todo \ {f}]
    BY DEF WScan
  <1>4. w \in WRec /\ f \in Files /\ json[f] \in Json /\ json[f].att \in 0..MaxAttach /\ w.ok = TRUE
    <2>1. w \in WRec /\ json \in [Files -> Json]
      BY Types
    <2>2. f \in Files
      BY <2>1 DEF WRec
    <2>3. w.ok = TRUE
      BY <1>1, <2>1 DEF IInv, WorkerInv, WRec
    <2> QED
      BY <2>1, <2>2, <2>3 DEF Json
  <1>5. CASE w' = [w EXCEPT !.todo = w.todo \ {f}]
    <2>1. w' \in WRec /\ w'.f = w.f /\ w'.att = w.att /\ w'.pc = "scan" /\ w'.ok = TRUE
      BY <1>1, <1>4, <1>5 DEF WRec
    <2>2. WorkerInv'
      BY <1>1, <1>2, <2>1 DEF IInv, WorkerInv
    <2> QED
      BY <1>1, <2>1, <2>2, Turns
  <1>6. CASE Waiting(f) /\ w' = [w EXCEPT !.todo = w.todo \ {f}, !.f = f, !.att = json[f].att]
    <2>1. w' \in WRec /\ w'.f = f /\ w'.att = json[f].att /\ w'.pc = "scan" /\ w'.ok = TRUE
      BY <1>1, <1>4, <1>6 DEF WRec
    <2>2. WorkerInv'
      BY <1>1, <1>2, <1>4, <1>6, <2>1 DEF IInv, AttInv, WorkerInv, Waiting
    <2> QED
      BY <1>1, <2>1, <2>2, Turns
  <1> QED
    BY <1>3, <1>5, <1>6

LEMMA ScannedStep ==
  ASSUME IInv, WScanned \/ WWait
  PROVE  IInv'
  <1>1. /\ UNCHANGED <<disk, model, stopping, cl, atts, old, asked>>
        /\ events' \in 0..MaxEvents /\ kicked' \in BOOLEAN
    BY TakeEvent DEF WScanned, WWait, KeepDisk, IInv, TypeOK
  <1>2. UNCHANGED <<json, old, atts>> /\ atts' \in Nat
    BY <1>1, Types DEF disk
  <1>3. CASE WWait
    <2>1. w' = TopOf
      BY <1>3 DEF WWait, Goto
    <2>2. WorkerInv'
      BY <1>2, <2>1, Fixed, TopInv
    <2> QED
      BY <1>1, <2>1, <2>2, Fixed, Turns
  <1>4. CASE WScanned
    <2>1. PICK p : p = IF w.f = NoFile THEN "wait" ELSE "read"
      OBVIOUS
    <2>2. w.pc = "scan" /\ w' = [w EXCEPT !.pc = p] /\ p \in WorkerPCs /\ w \in WRec
      BY <1>4, <2>1, Types DEF WScanned, Goto, WorkerPCs
    <2>3. /\ w' \in WRec /\ w'.pc = p /\ w'.f = w.f /\ w'.att = w.att /\ w'.ok = w.ok
      <3>1. PICK q : q = [w EXCEPT !.pc = p]
        OBVIOUS
      <3> QED
        BY <2>2, <3>1, AtPc
    <2>4. w.f \in Files \cup {NoFile}
      BY <2>2 DEF WRec
    <2>5. WorkerInv'
      BY <1>2, <2>1, <2>2, <2>3, <2>4 DEF IInv, WorkerInv
    <2> QED
      BY <1>1, <2>3, <2>5, Turns
  <1> QED
    BY <1>3, <1>4


LEMMA ReadStep ==
  ASSUME IInv, WRead
  PROVE  IInv'
  <1>1. /\ UNCHANGED <<disk, model, stopping, cl, atts, old, asked>> /\ w.pc = "read"
        /\ events' \in 0..MaxEvents /\ kicked' \in BOOLEAN
    BY TakeEvent DEF WRead, KeepDisk, IInv, TypeOK
  <1>2. UNCHANGED <<json, old, atts>> /\ w \in WRec
    BY <1>1, Types DEF disk
  <1>3. CASE w' = [w EXCEPT !.pc = "sizes"]
    <2>1. PICK q : q = [w EXCEPT !.pc = "sizes"]
      OBVIOUS
    <2>2. w' = q /\ "sizes" \in WorkerPCs
      BY <1>3, <2>1 DEF WorkerPCs
    <2>3. /\ w' \in WRec /\ w'.pc = "sizes" /\ w'.f = w.f /\ w'.att = w.att /\ w'.ok = w.ok
      BY <1>2, <2>1, <2>2, AtPc
    <2>4. WorkerInv'
      BY <1>1, <1>2, <2>3 DEF IInv, WorkerInv
    <2> QED
      BY <1>1, <2>3, <2>4, Turns
  <1>4. CASE w' = GaveUp(w, "set")
    <2>1. PICK q : q = GaveUp(w, "set")
      OBVIOUS
    <2>2. w' = q /\ "set" \in WorkerPCs
      BY <1>4, <2>1 DEF WorkerPCs
    <2>3. /\ w' \in WRec /\ w'.pc = "set" /\ w'.f = w.f /\ w'.att = w.att /\ ~w'.ok /\ w'.cause
      BY <1>2, <2>1, <2>2, Gives
    <2>4. WorkerInv'
      BY <1>1, <1>2, <2>3 DEF IInv, WorkerInv
    <2> QED
      BY <1>1, <2>3, <2>4, Turns
  <1>5. w' = [w EXCEPT !.pc = "sizes"] \/ w' = GaveUp(w, "set")
    BY DEF WRead, Goto, GaveUp
  <1> QED
    BY <1>3, <1>4, <1>5

LEMMA SizesStep ==
  ASSUME IInv, WSizes
  PROVE  IInv'
  <1>1. /\ UNCHANGED <<disk, model, stopping, cl, atts, old, asked>> /\ w.pc = "sizes"
        /\ events' \in 0..MaxEvents /\ kicked' \in BOOLEAN
    BY TakeEvent DEF WSizes, KeepDisk, IInv, TypeOK
  <1>2. UNCHANGED <<json, old, atts>> /\ w \in WRec /\ w.f \in Files
    BY <1>1, Types DEF disk, IInv, WorkerInv
  <1>3. PICK a : a = json[w.f].att
    OBVIOUS
  <1>4. a \in 0..MaxAttach /\ a <= atts
    BY <1>2, <1>3, Types DEF Json, IInv, AttInv
  <1>5. w' = [w EXCEPT !.pc = "chunks", !.att = a, !.left = Pieces]
    BY <1>3 DEF WSizes
  <1>6. w' \in WRec /\ w'.pc = "chunks" /\ w'.f = w.f /\ w'.att = a /\ w'.ok = w.ok
    <2>1. "chunks" \in WorkerPCs /\ Pieces \in 0..Pieces
      BY Fixed DEF WorkerPCs
    <2> QED
      BY <1>2, <1>4, <1>5, <2>1 DEF WRec
  <1>7. WorkerInv'
    BY <1>1, <1>2, <1>4, <1>6 DEF IInv, WorkerInv
  <1> QED
    BY <1>1, <1>6, <1>7, Turns

LEMMA StatusStep ==
  ASSUME IInv, WStatus
  PROVE  IInv'
  <1>1. /\ UNCHANGED <<disk, model, stopping, cl, atts, old, asked>> /\ w.pc = "embed"
        /\ events' \in 0..MaxEvents /\ kicked' \in BOOLEAN
    BY TakeEvent DEF WStatus, KeepDisk, IInv, TypeOK
  <1>2. UNCHANGED <<json, chunks, vec, old, atts>> /\ w \in WRec /\ w.f \in Files
    BY <1>1, Types DEF disk, IInv, WorkerInv
  <1>3. ASSUME NEW p \in {"vec", "call"}, w' = [w EXCEPT !.pc = p], p = "call" => w.left # 0
        PROVE  IInv'
    <2>1. PICK q : q = [w EXCEPT !.pc = p]
      OBVIOUS
    <2>2. w' = q /\ p \in WorkerPCs
      BY <1>3, <2>1 DEF WorkerPCs
    <2>3. /\ w' \in WRec /\ w'.pc = p /\ w'.f = w.f /\ w'.att = w.att /\ w'.ok = w.ok
          /\ w'.left = w.left
      BY <1>2, <2>1, <2>2, AtPc
    <2>4. p = "call" => w.left > 0
      BY <1>3, Types
    <2>5. WorkerInv'
      BY <1>1, <1>2, <1>3, <2>3, <2>4 DEF IInv, WorkerInv, Same
    <2> QED
      BY <1>1, <2>3, <2>5, Turns
  <1>4. ASSUME ~Waiting(w.f) \/ stopping, w' = [w EXCEPT !.pc = "done", !.ok = FALSE]
        PROVE  IInv'
    <2>1. w' \in WRec /\ w'.pc = "done" /\ w'.f = w.f /\ w'.att = w.att /\ w'.ok = FALSE
      BY <1>2, <1>4 DEF WRec, WorkerPCs
    <2>2. WorkerInv'
      BY <1>1, <1>2, <1>4, <2>1 DEF IInv, WorkerInv, Waiting
    <2> QED
      BY <1>1, <2>1, <2>2, Turns
  <1>5. CASE w.left = 0
    <2>1. w' = [w EXCEPT !.pc = "vec"]
      BY <1>5 DEF WStatus, Goto
    <2> QED
      BY <1>3, <2>1
  <1>6. CASE w.left # 0
    BY <1>3, <1>4, <1>6 DEF WStatus, Goto
  <1> QED
    BY <1>5, <1>6

LEMMA CallStep ==
  ASSUME IInv, WCall
  PROVE  IInv'
  <1>1. /\ UNCHANGED <<disk, model, stopping, cl, atts, old, asked>> /\ w.pc = "call"
        /\ events' \in 0..MaxEvents /\ kicked' \in BOOLEAN
    BY TakeEvent DEF WCall, KeepDisk, IInv, TypeOK
  <1>2. UNCHANGED <<json, chunks, vec, old, atts>> /\ w \in WRec /\ w.f \in Files
    BY <1>1, Types DEF disk, IInv, WorkerInv
  <1>3. CASE w' = [w EXCEPT !.pc = "embed", !.left = w.left - 1]
    <2>1. w.left - 1 \in 0..Pieces
      <3>1. w.left > 0 /\ w.left \in 0..Pieces /\ Pieces \in Nat
        BY <1>1, <1>2, Fixed DEF IInv, WorkerInv, WRec
      <3> QED
        BY <3>1
    <2>2. w' \in WRec /\ w'.pc = "embed" /\ w'.f = w.f /\ w'.att = w.att /\ w'.ok = w.ok
      BY <1>2, <1>3, <2>1 DEF WRec, WorkerPCs
    <2>3. WorkerInv'
      BY <1>1, <1>2, <2>2 DEF IInv, WorkerInv, Same
    <2> QED
      BY <1>1, <2>2, <2>3, Turns
  <1>4. CASE w' = [w EXCEPT !.pc = "vec", !.none = TRUE]
    <2>1. w' \in WRec /\ w'.pc = "vec" /\ w'.f = w.f /\ w'.att = w.att /\ w'.ok = w.ok
      BY <1>2, <1>4 DEF WRec, WorkerPCs
    <2>2. WorkerInv'
      BY <1>1, <1>2, <2>1 DEF IInv, WorkerInv, Same
    <2> QED
      BY <1>1, <2>1, <2>2, Turns
  <1>5. CASE w' = GaveUp(w, "done")
    <2>1. PICK q : q = GaveUp(w, "done")
      OBVIOUS
    <2>2. w' = q /\ "done" \in WorkerPCs
      BY <1>5, <2>1 DEF WorkerPCs
    <2>3. /\ w' \in WRec /\ w'.pc = "done" /\ w'.f = w.f /\ w'.att = w.att /\ ~w'.ok /\ w'.cause
      BY <1>2, <2>1, <2>2, Gives
    <2>4. WorkerInv'
      BY <1>1, <1>2, <2>3 DEF IInv, WorkerInv
    <2> QED
      BY <1>1, <2>3, <2>4, Turns
  <1> QED
    BY <1>3, <1>4, <1>5 DEF WCall, GaveUp

LEMMA DoneStep ==
  ASSUME IInv, WDone
  PROVE  IInv'
  <1>1. /\ UNCHANGED <<disk, model, stopping, cl, atts, old, asked>> /\ w.pc = "done"
        /\ events' \in 0..MaxEvents /\ kicked' \in BOOLEAN
    BY TakeEvent DEF WDone, KeepDisk, IInv, TypeOK
  <1>2. UNCHANGED <<json, chunks, vec, old, atts>> /\ w \in WRec /\ w.f \in Files /\ atts' \in Nat
    BY <1>1, Types DEF disk, IInv, WorkerInv
  <1>3. CASE w' = TopOf
    <2>1. WorkerInv'
      BY <1>2, <1>3, Fixed, TopInv
    <2> QED
      BY <1>1, <1>3, <2>1, Fixed, Turns
  <1>4. CASE ~(stopping /\ ~w.ok) /\ Waiting(w.f) /\ w' = [w EXCEPT !.pc = "set"]
    <2>1. PICK q : q = [w EXCEPT !.pc = "set"]
      OBVIOUS
    <2>2. w' = q /\ "set" \in WorkerPCs
      BY <1>4, <2>1 DEF WorkerPCs
    <2>3. /\ w' \in WRec /\ w'.pc = "set" /\ w'.f = w.f /\ w'.att = w.att /\ w'.ok = w.ok
          /\ w'.cause = w.cause
      BY <1>2, <2>1, <2>2, AtPc
    <2>4. WorkerInv'
      BY <1>1, <1>2, <1>4, <2>3, Types DEF IInv, WorkerInv, Same
    <2> QED
      BY <1>1, <2>3, <2>4, Turns
  <1> QED
    BY <1>3, <1>4 DEF WDone, Goto


(* The chunks, written or not. *)
LEMMA ChunksStep ==
  ASSUME IInv, WChunks
  PROVE  IInv'
  <1>1. /\ UNCHANGED <<store, json, vec, batch, held, model, stopping, cl, atts, old, asked, kicked>>
        /\ w.pc = "chunks" /\ Written(chunks, "embed") /\ events' \in 0..MaxEvents
    BY TakeEvent DEF WChunks, Written
  <1>2. w \in WRec /\ w.f \in Files
    BY <1>1, Types DEF IInv, WorkerInv
  <1>3. CASE w' = GaveUp(w, "done") /\ chunks' = chunks
    <2>1. PICK q : q = GaveUp(w, "done")
      OBVIOUS
    <2>2. w' = q /\ "done" \in WorkerPCs
      BY <1>3, <2>1 DEF WorkerPCs
    <2>3. /\ w' \in WRec /\ w'.pc = "done" /\ w'.f = w.f /\ w'.att = w.att /\ ~w'.ok /\ w'.cause
      BY <1>2, <2>1, <2>2, Gives
    <2>4. WorkerInv'
      BY <1>1, <1>2, <2>3 DEF IInv, WorkerInv
    <2>5. UNCHANGED <<disk, model, stopping, cl, atts, old, asked>> /\ kicked' \in BOOLEAN
      BY <1>1, <1>3 DEF disk, IInv, TypeOK
    <2> QED
      BY <1>1, <2>3, <2>4, <2>5, Turns
  <1>4. CASE w' = [w EXCEPT !.pc = "embed"] /\ chunks' = [chunks EXCEPT ![w.f] = w.att]
    <2>1. PICK q : q = [w EXCEPT !.pc = "embed"]
      OBVIOUS
    <2>2. w' = q /\ "embed" \in WorkerPCs
      BY <1>4, <2>1 DEF WorkerPCs
    <2>3. w' \in WRec /\ w'.pc = "embed" /\ w'.f = w.f /\ w'.att = w.att /\ w'.ok = w.ok
      BY <1>2, <2>1, <2>2, AtPc
    <2>4. /\ chunks' \in [Files -> 0..MaxAttach] /\ chunks'[w.f] = w.att
          /\ \A f \in Files : f # w.f => chunks'[f] = chunks[f]
      BY <1>2, <1>4 DEF IInv, TypeOK, WRec
    <2>5. TypeOK'
      BY <1>1, <2>3, <2>4 DEF IInv, TypeOK, WRec
    <2>6. AttInv' /\ ClientInv'
      BY <1>1 DEF IInv, AttInv, ClientInv, Pend
    <2>7. WorkerInv'
      BY <1>1, <1>2, <2>3, <2>4 DEF IInv, WorkerInv
    <2>8. StatusTrue'
      BY <1>1, <1>2, <2>4 DEF IInv, WorkerInv, StatusTrue
    <2> QED
      BY <2>5, <2>6, <2>7, <2>8 DEF IInv
  <1> QED
    BY <1>1, <1>3, <1>4 DEF Written, Goto, GaveUp

(* The vectors, written, removed or not. *)
LEMMA VecStep ==
  ASSUME IInv, WVec
  PROVE  IInv'
  <1>1. /\ UNCHANGED <<store, json, chunks, batch, held, model, stopping, cl, atts, old, asked, kicked>>
        /\ w.pc = "vec" /\ events' \in 0..MaxEvents
    BY TakeEvent DEF WVec, Written
  <1>2. w \in WRec /\ w.f \in Files
    BY <1>1, Types DEF IInv, WorkerInv
  <1>3. CASE w' = GaveUp(w, "done") /\ vec' = vec
    <2>1. PICK q : q = GaveUp(w, "done")
      OBVIOUS
    <2>2. w' = q /\ "done" \in WorkerPCs
      BY <1>3, <2>1 DEF WorkerPCs
    <2>3. /\ w' \in WRec /\ w'.pc = "done" /\ w'.f = w.f /\ w'.att = w.att /\ ~w'.ok /\ w'.cause
      BY <1>2, <2>1, <2>2, Gives
    <2>4. WorkerInv'
      BY <1>1, <1>2, <2>3 DEF IInv, WorkerInv
    <2>5. UNCHANGED <<disk, model, stopping, cl, atts, old, asked>> /\ kicked' \in BOOLEAN
      BY <1>1, <1>3 DEF disk, IInv, TypeOK
    <2> QED
      BY <1>1, <2>3, <2>4, <2>5, Turns
  <1>4. ASSUME NEW a \in {0, w.att}, w' = [w EXCEPT !.pc = "done"], vec' = [vec EXCEPT ![w.f] = a]
        PROVE  IInv'
    <2>1. PICK q : q = [w EXCEPT !.pc = "done"]
      OBVIOUS
    <2>2. w' = q /\ "done" \in WorkerPCs
      BY <1>4, <2>1 DEF WorkerPCs
    <2>3. w' \in WRec /\ w'.pc = "done" /\ w'.f = w.f /\ w'.att = w.att /\ w'.ok = w.ok
      BY <1>2, <2>1, <2>2, AtPc
    <2>4. a \in 0..MaxAttach
      BY <1>2, <1>4, Fixed DEF WRec
    <2>5. /\ vec' \in [Files -> 0..MaxAttach] /\ vec'[w.f] = a
          /\ \A f \in Files : f # w.f => vec'[f] = vec[f]
      BY <1>2, <1>4, <2>4 DEF IInv, TypeOK
    <2>6. TypeOK'
      BY <1>1, <2>3, <2>5 DEF IInv, TypeOK, WRec
    <2>7. AttInv' /\ ClientInv'
      BY <1>1 DEF IInv, AttInv, ClientInv, Pend
    <2>8. WorkerInv'
      BY <1>1, <1>2, <1>4, <2>3, <2>5 DEF IInv, WorkerInv, Same
    <2>9. StatusTrue'
      BY <1>1, <1>2, <2>5 DEF IInv, WorkerInv, StatusTrue
    <2> QED
      BY <2>6, <2>7, <2>8, <2>9 DEF IInv
  <1>5. \/ w' = GaveUp(w, "done") /\ vec' = vec
        \/ w' = [w EXCEPT !.pc = "done"] /\ vec' = [vec EXCEPT ![w.f] = w.att]
        \/ w' = [w EXCEPT !.pc = "done"] /\ vec' = [vec EXCEPT ![w.f] = 0]
    BY DEF WVec, Written, Goto, GaveUp
  <1> QED
    BY <1>3, <1>4, <1>5

(* A status set in the JSON there now. *)
LEMMA Sets ==
  ASSUME json \in [Files -> Json], NEW f \in Files, NEW s \in {"completed", "failed", "cancelled"},
         NEW by \in 0..MaxAttach, NEW e \in BOOLEAN, SetStatus(f, s, by, e)
  PROVE  /\ json' \in [Files -> Json]
         /\ \A g \in Files : g # f => json'[g] = json[g]
         /\ json[f] = None => json'[f] = None
         /\ json[f] # None => /\ json'[f].status = s /\ json'[f].att = json[f].att
                              /\ json'[f].by = by /\ json'[f].cause = e
  <1> DEFINE q == [json[f] EXCEPT !.status = s, !.by = by, !.cause = e]
             r == IF json[f] = None THEN None ELSE q
  <1>1. json[f] \in Json /\ None \in Json
    BY Fixed
  <1>2. q \in Json /\ q.status = s /\ q.att = json[f].att /\ q.by = by /\ q.cause = e
    BY <1>1 DEF Json
  <1>3. json' = [json EXCEPT ![f] = r]
    BY DEF SetStatus
  <1> HIDE DEF q
  <1>4. r \in Json
    BY <1>1, <1>2
  <1>5. json'[f] = r /\ \A g \in Files : g # f => json'[g] = json[g]
    BY <1>3
  <1>6. json' \in [Files -> Json]
    BY <1>3, <1>4
  <1> QED
    BY <1>2, <1>5, <1>6

LEMMA SetStep ==
  ASSUME IInv, WSet
  PROVE  IInv'
  <1>1. /\ UNCHANGED <<store, chunks, vec, batch, held, model, stopping, cl, atts, old, asked, kicked>>
        /\ w.pc = "set" /\ w' = TopOf /\ events' \in 0..MaxEvents
    BY TakeEvent DEF WSet, Goto
  <1>2. w \in WRec /\ w.f \in Files /\ json \in [Files -> Json] /\ w.att \in 0..MaxAttach
        /\ w.cause \in BOOLEAN /\ w.ok \in BOOLEAN /\ atts \in Nat
    BY <1>1, Types DEF IInv, WorkerInv, WRec
  <1>3. WorkerInv'
    BY <1>1, <1>2, Fixed, TopInv
  <1>4. CASE json' = json
    <2>1. UNCHANGED <<disk, model, stopping, cl, atts, old, asked>> /\ kicked' \in BOOLEAN
      BY <1>1, <1>4 DEF disk, IInv, TypeOK
    <2> QED
      BY <1>1, <1>3, <2>1, Fixed, Turns
  <1>5. CASE SetStatus(w.f, IF w.ok THEN "completed" ELSE "failed", w.att, w.cause)
    <2>1. PICK s \in {"completed", "failed"} : s = IF w.ok THEN "completed" ELSE "failed"
      OBVIOUS
    <2>2. PICK f \in Files : f = w.f
      BY <1>2
    <2>3. PICK e \in BOOLEAN : e = w.cause
      BY <1>2
    <2>4. PICK a \in 0..MaxAttach : a = w.att
      BY <1>2
    <2>5. SetStatus(f, s, a, e)
      BY <1>5, <2>1, <2>2, <2>3, <2>4
    <2>6. /\ json' \in [Files -> Json]
          /\ \A g \in Files : g # f => json'[g] = json[g]
          /\ json[f] = None => json'[f] = None
          /\ json[f] # None => /\ json'[f].status = s /\ json'[f].att = json[f].att
                               /\ json'[f].by = a /\ json'[f].cause = e
      BY <1>2, <2>5, Sets
    <2>7. TypeOK'
      BY <1>1, <2>6, Fixed DEF IInv, TypeOK, WRec
    <2>8. AttInv'
      BY <1>1, <2>6 DEF IInv, AttInv, Pend
    <2>9. ClientInv'
      BY <1>1 DEF IInv, ClientInv
    <2>10. StatusTrue'
      <3>1. ASSUME f \notin old, json[f] # None, json[f].att = a
            PROVE  /\ s = "completed" => chunks[f] = a /\ vec[f] \in {0, a}
                   /\ s = "failed" => e
        BY <1>1, <1>2, <2>1, <2>2, <2>3, <2>4, <3>1 DEF IInv, WorkerInv, Same
      <3>2. \A g \in Files \ old : g # f => json'[g] = json[g]
        BY <2>6
      <3>3. json[f] = None => json'[f].status = "absent"
        BY <2>6, Fixed
      <3> QED
        BY <1>1, <2>1, <2>2, <2>6, <3>1, <3>2, <3>3 DEF IInv, StatusTrue
    <2> QED
      BY <1>3, <2>7, <2>8, <2>9, <2>10 DEF IInv
  <1> QED
    BY <1>4, <1>5 DEF WSet


-----------------------------------------------------------------------------
(* The handlers. *)

(* What they may do to the files of one file. *)
Moved(f) ==
  \/ /\ json'[f] = json[f] /\ chunks'[f] = chunks[f] /\ vec'[f] = vec[f]
     /\ f \in old => f \in old'
  \/ f \in old' /\ vec'[f] = vec[f]
  \/ json'[f] = None /\ vec'[f] = 0
  \/ json'[f].status = "in_progress" /\ json'[f].att = atts + 1 /\ vec'[f] = vec[f]
  \/ /\ json[f] # None /\ json'[f].status = "cancelled" /\ json'[f].att = json[f].att
     /\ chunks'[f] = chunks[f] /\ vec'[f] = vec[f]
     /\ f \in old => f \in old'

(* None of it makes what the indexer knows or has said untrue. *)
LEMMA MovedInv ==
  ASSUME IInv, w' = w, stopping => stopping', atts' \in Nat, atts <= atts',
         \A f \in Files : Moved(f)
  PROVE  WorkerInv' /\ StatusTrue'
  <1>1. WorkerInv /\ StatusTrue /\ w \in WRec /\ atts \in Nat /\ w.att \in Nat /\ NoFile \notin Files
    BY Types DEF IInv
  <1>2. w.att <= atts' /\ w.att # atts + 1
    BY <1>1 DEF WorkerInv
  <1>3. StatusTrue'
    <2> SUFFICES ASSUME NEW f \in Files, f \notin old', json'[f].by = json'[f].att
                 PROVE  /\ json'[f].status = "completed" =>
                             chunks'[f] = json'[f].att /\ vec'[f] \in {0, json'[f].att}
                        /\ json'[f].status = "failed" => json'[f].cause
      BY DEF StatusTrue
    <2>1. Moved(f)
      OBVIOUS
    <2> QED
      BY <1>1, <2>1, Fixed DEF StatusTrue, Moved
  <1>4. ASSUME w.f \notin Files
        PROVE  WorkerInv'
    <2>1. w.pc \in {"top", "wait", "out", "scan"}
      BY <1>1, <1>4 DEF WorkerInv
    <2> QED
      BY <1>1, <1>2, <1>4, <2>1 DEF WorkerInv
  <1>5. ASSUME w.f \in Files
        PROVE  WorkerInv'
    <2>1. PICK f \in Files : f = w.f
      BY <1>5
    <2>2. Moved(f)
      OBVIOUS
    <2>3. f \notin old' => json'[f].status \notin {"completed", "failed"}
      BY <1>1, <2>1, <2>2, Fixed DEF WorkerInv, Moved
    <2>4. ASSUME f \notin old', json'[f] # None, json'[f].att = w.att
          PROVE  f \notin old /\ json[f] # None /\ json[f].att = w.att /\ chunks'[f] = chunks[f]
      BY <1>2, <2>2, <2>4 DEF Moved
    <2>5. vec'[f] = vec[f] \/ vec'[f] = 0
      BY <2>2 DEF Moved
    <2>6. ASSUME f \notin old', json'[f] # None, json'[f].att = w.att,
                 json'[f].status = "in_progress"
          PROVE  json[f].status = "in_progress"
      BY <1>2, <2>2, <2>6 DEF Moved
    <2>7. w.pc \in {"embed", "call", "vec", "done", "set"} /\ w.ok /\ f \notin old'
            /\ json'[f] # None /\ json'[f].att = w.att => chunks'[f] = w.att
      BY <1>1, <2>1, <2>4 DEF WorkerInv, Same
    <2>8. w.pc \in {"done", "set"} /\ w.ok => vec'[f] \in {0, w.att}
      BY <1>1, <2>1, <2>5 DEF WorkerInv
    <2>9. w.pc \in {"done", "set"} /\ ~w.ok /\ ~w.cause =>
            \/ f \in old' \/ ~(json'[f] # None /\ json'[f].att = w.att)
            \/ w.pc = "done" /\ (stopping' \/ json'[f].status # "in_progress")
      BY <1>1, <2>1, <2>4, <2>6 DEF WorkerInv, Same, Waiting
    <2> QED
      BY <1>1, <1>2, <2>1, <2>3, <2>7, <2>8, <2>9 DEF WorkerInv, Same, Waiting
  <1> QED
    BY <1>3, <1>4, <1>5

LEMMA Handled ==
  ASSUME IInv, UNCHANGED <<w, model>>, stopping' \in BOOLEAN, stopping => stopping',
         json' \in [Files -> Json],
         chunks' \in [Files -> 0..MaxAttach], vec' \in [Files -> 0..MaxAttach],
         store' \in BOOLEAN, batch' \in {"none", "made", "cancelled"}, held' \subseteq Files,
         kicked' \in BOOLEAN, old' \subseteq Files,
         cl' \in [Clients -> CRec], ClientInv', AttInv',
         asked' \in 0..MaxAttach, events' \in 0..MaxEvents,
         atts' \in 0..MaxAttach, atts <= atts', \A f \in Files : Moved(f)
  PROVE  IInv'
  <1>1. TypeOK'
    BY DEF IInv, TypeOK, CRec
  <1>2. atts' \in Nat
    BY Fixed
  <1>3. WorkerInv' /\ StatusTrue'
    BY <1>2, MovedInv
  <1> QED
    BY <1>1, <1>3 DEF IInv

(* One handler at another place. *)
LEMMA Steps ==
  ASSUME IInv, NEW c \in Clients, NEW r \in CRec, Step(c, r)
  PROVE  /\ cl' \in [Clients -> CRec] /\ cl'[c] = r
         /\ \A d \in Clients : d # c => cl'[d] = cl[d]
  BY Types DEF Step

(* It has no more to attach than before. *)
LEMMA Fewer ==
  ASSUME IInv, NEW c \in Clients, NEW r \in CRec, Step(c, r),
         \/ r.pc \notin {"write", "wake"}
         \/ r.todo \subseteq cl[c].todo /\ cl[c].pc \in {"write", "wake"}
  PROVE  IsFiniteSet(Pend') /\ Cardinality(Pend') <= Cardinality(Pend)
         /\ Cardinality(Pend) \in Nat /\ Cardinality(Pend') \in Nat
  <1>1. Pend' \subseteq Pend
    BY Steps DEF Pend
  <1>2. IsFiniteSet(Pend)
    BY DEF IInv, AttInv
  <1> QED
    BY <1>1, <1>2, FS_Subset, FS_CardinalityType

(* A handler that changes nothing on disk. *)
LEMMA Talks ==
  ASSUME IInv, NEW c \in Clients, NEW r \in CRec, Step(c, r),
         \/ r.pc \notin {"write", "wake"}
         \/ r.todo \subseteq cl[c].todo /\ cl[c].pc \in {"write", "wake"},
         r.pc \in {"cancel", "put"} => r.f \in Files, r.copy.att <= atts,
         UNCHANGED <<store, json, chunks, vec, held, model, stopping, w, asked, atts, old>>,
         batch' \in {"none", "made", "cancelled"},
         kicked' \in BOOLEAN, events' \in 0..MaxEvents
  PROVE  IInv'
  <1>1. TypeOK /\ ClientInv /\ AttInv /\ atts \in Nat /\ asked \in Nat
    BY Types, Fixed DEF IInv, TypeOK
  <1>2. /\ cl' \in [Clients -> CRec] /\ cl'[c] = r
        /\ \A d \in Clients : d # c => cl'[d] = cl[d]
    BY Steps
  <1>3. AttInv'
    <2>1. /\ IsFiniteSet(Pend') /\ Cardinality(Pend') <= Cardinality(Pend)
          /\ Cardinality(Pend) \in Nat /\ Cardinality(Pend') \in Nat
      BY Fewer
    <2>2. atts + Cardinality(Pend') <= asked
      BY <1>1, <2>1 DEF AttInv
    <2> QED
      BY <1>1, <1>2, <2>1, <2>2 DEF AttInv
  <1>4. ClientInv'
    BY <1>1, <1>2 DEF ClientInv
  <1>5. \A f \in Files : Moved(f)
    BY DEF Moved
  <1>6. atts <= atts' /\ stopping' \in BOOLEAN /\ (stopping => stopping')
    BY <1>1, Types
  <1> QED
    BY <1>1, <1>2, <1>3, <1>4, <1>5, <1>6, Handled DEF TypeOK

(* A request to attach one file, or all of them as a batch. *)
LEMMA BeginStep ==
  ASSUME IInv, NEW c \in Clients, AttachBegin(c)
  PROVE  IInv'
  <1>1. /\ UNCHANGED <<disk, model, stopping, w, kicked, atts, old, events>>
        /\ At(c, "idle") /\ asked' <= MaxAttach
    BY Zenon DEF AttachBegin
  <1>2. UNCHANGED <<store, json, chunks, vec, batch, held, model, stopping, w, kicked, atts, old, events>>
    BY <1>1 DEF disk
  <1>3. /\ TypeOK /\ ClientInv /\ AttInv /\ atts \in Nat /\ asked \in Nat /\ held \subseteq Files
        /\ atts' \in 0..MaxAttach /\ events' \in 0..MaxEvents /\ stopping \in BOOLEAN
    BY <1>2, Types, Fixed DEF IInv, TypeOK
  <1>4. PICK S, r :
          /\ IsFiniteSet(S) /\ S \subseteq Files /\ asked' = asked + Cardinality(S)
          /\ r \in CRec /\ r.pc = "write" /\ r.todo = S /\ r.copy = None /\ Step(c, r)
    <2> DEFINE R(S, r) == /\ IsFiniteSet(S) /\ S \subseteq Files
                          /\ asked' = asked + Cardinality(S) /\ r \in CRec
                          /\ r.pc = "write" /\ r.todo = S /\ r.copy = None /\ Step(c, r)
    <2>1. ASSUME NEW f \in held, asked' = asked + 1,
                 Step(c, [IdleClient EXCEPT !.pc = "write", !.todo = {f}])
          PROVE  \E S, r : R(S, r)
      <3>1. IsFiniteSet({f}) /\ Cardinality({f}) = 1 /\ {f} \subseteq Files
        BY <1>3, FS_Singleton
      <3>2. PICK r : r = [IdleClient EXCEPT !.pc = "write", !.todo = {f}]
        OBVIOUS
      <3>3. r \in CRec /\ r.pc = "write" /\ r.todo = {f} /\ r.copy = None
        BY <3>1, <3>2, Fixed DEF CRec, ClientPCs
      <3>4. R({f}, r)
        BY <2>1, <3>1, <3>2, <3>3
      <3> HIDE DEF R
      <3> QED
        BY <3>4
    <2>2. ASSUME asked' = asked + Cardinality(Files),
                 Step(c, [IdleClient EXCEPT !.pc = "write", !.todo = Files, !.batch = TRUE])
          PROVE  \E S, r : R(S, r)
      <3>1. PICK r : r = [IdleClient EXCEPT !.pc = "write", !.todo = Files, !.batch = TRUE]
        OBVIOUS
      <3>2. r \in CRec /\ r.pc = "write" /\ r.todo = Files /\ r.copy = None
        BY <3>1, Fixed DEF CRec, ClientPCs
      <3>3. R(Files, r)
        BY <2>2, <3>1, <3>2, Fixed
      <3> HIDE DEF R
      <3> QED
        BY <3>3
    <2>3. \E S, r : R(S, r)
      <3> HIDE DEF R
      <3> QED
        BY <2>1, <2>2, Zenon DEF AttachBegin
    <2> QED
      BY <2>3
  <1>6. r \in CRec /\ r.pc = "write" /\ r.todo = S /\ r.copy = None
    BY <1>4
  <1>7. /\ cl' \in [Clients -> CRec] /\ cl'[c] = r
        /\ \A d \in Clients : d # c => cl'[d] = cl[d]
    BY <1>4, Steps
  <1> DEFINE N == {c} \X S
  <1>8. IsFiniteSet(N) /\ Cardinality(N) = Cardinality(S) /\ Cardinality(S) \in Nat
    <2>1. IsFiniteSet({c}) /\ Cardinality({c}) = 1
      BY FS_Singleton
    <2>2. Cardinality(S) \in Nat
      BY <1>4, FS_CardinalityType
    <2>3. IsFiniteSet(N) /\ Cardinality(N) = Cardinality({c}) * Cardinality(S)
      BY <1>4, <2>1, FS_Product
    <2> QED
      BY <2>1, <2>2, <2>3
  <1>9. Pend' = Pend \cup N /\ Pend \cap N = {}
    <2>1. Pend' \subseteq Pend \cup N
      BY <1>6, <1>7 DEF Pend
    <2>2. Pend \subseteq Pend'
      BY <1>1, <1>7 DEF Pend, At
    <2>3. N \subseteq Pend'
      BY <1>4, <1>6, <1>7 DEF Pend
    <2>4. Pend \cap N = {}
      BY <1>1 DEF Pend, At
    <2> QED
      BY <2>1, <2>2, <2>3, <2>4
  <1>10. /\ IsFiniteSet(Pend') /\ Cardinality(Pend') = Cardinality(Pend) + Cardinality(S)
         /\ Cardinality(Pend) \in Nat
    <2>1. IsFiniteSet(Pend)
      BY <1>3 DEF AttInv
    <2>2. Cardinality(Pend) \in Nat
      BY <2>1, FS_CardinalityType
    <2> HIDE DEF N
    <2>3. /\ IsFiniteSet(Pend \cup N)
          /\ Cardinality(Pend \cup N) = Cardinality(Pend) + Cardinality(N) - Cardinality(Pend \cap N)
      BY <1>8, <2>1, FS_Union
    <2>4. Cardinality(Pend \cap N) = 0
      BY <1>9, FS_EmptySet
    <2> QED
      BY <1>8, <1>9, <2>2, <2>3, <2>4
  <1> HIDE DEF N
  <1>11. AttInv'
    <2>1. atts + Cardinality(Pend') <= asked'
      BY <1>3, <1>4, <1>8, <1>10 DEF AttInv
    <2>2. \A d \in Clients : cl'[d].copy.att <= atts
      BY <1>3, <1>6, <1>7, Fixed DEF AttInv
    <2> QED
      BY <1>2, <1>3, <1>10, <2>1, <2>2 DEF AttInv
  <1>12. ClientInv'
    BY <1>3, <1>6, <1>7 DEF ClientInv
  <1>13. asked' \in 0..MaxAttach
    BY <1>1, <1>3, <1>4, <1>8, Fixed
  <1>14. \A f \in Files : Moved(f)
    BY <1>2 DEF Moved
  <1>15. atts <= atts'
    BY <1>2, <1>3
  <1> QED
    BY <1>2, <1>3, <1>7, <1>11, <1>12, <1>13, <1>14, <1>15, Handled DEF TypeOK

(* The JSON of a file attached. *)
NewJson(a) == [None EXCEPT !.status = "in_progress", !.att = a]

(* A file of the request is attached; the write fails and the request ends;
   or the file is gone and so is the request. *)
LEMMA WriteStep ==
  ASSUME IInv, NEW c \in Clients, AttachWrite(c)
  PROVE  IInv'
  <1>1. /\ UNCHANGED <<model, stopping, w, asked>> /\ At(c, "write")
        /\ UNCHANGED <<store, chunks, vec, batch, held, kicked>>
    BY Zenon DEF AttachWrite, KeepRest
  <1>2. cl[c] \in CRec /\ cl[c].pc = "write" /\ cl[c].copy.att <= atts /\ cl[c].todo \subseteq Files
    BY <1>1, Types DEF IInv, AttInv, At, CRec
  <1>3. /\ TypeOK /\ ClientInv /\ AttInv /\ atts \in Nat /\ asked \in Nat /\ asked \in 0..MaxAttach
        /\ stopping \in BOOLEAN /\ kicked \in BOOLEAN /\ batch \in {"none", "made", "cancelled"}
        /\ events \in 0..MaxEvents
    BY Types, Fixed DEF IInv, TypeOK
  <1>4. ASSUME NEW f \in cl[c].todo, atts' = atts + 1, events' = events, old' = old \ {f},
               json' = [json EXCEPT ![f] = NewJson(atts + 1)],
               Step(c, [cl[c] EXCEPT !.pc = "wake", !.todo = cl[c].todo \ {f}])
        PROVE  IInv'
    <2>1. PICK r : r = [cl[c] EXCEPT !.pc = "wake", !.todo = cl[c].todo \ {f}]
      OBVIOUS
    <2>2. r \in CRec /\ r.pc = "wake" /\ r.todo = cl[c].todo \ {f} /\ r.copy = cl[c].copy
      BY <1>2, <2>1 DEF CRec, ClientPCs
    <2>3. /\ cl' \in [Clients -> CRec] /\ cl'[c] = r
          /\ \A d \in Clients : d # c => cl'[d] = cl[d]
      BY <1>4, <2>1, <2>2, Steps
    <2>4. Pend' = Pend \ {<<c, f>>} /\ <<c, f>> \in Pend
      <3>1. <<c, f>> \in Pend
        BY <1>2 DEF Pend
      <3>2. ASSUME NEW p \in Clients \X Files
            PROVE  p \in Pend' <=> p \in Pend /\ p # <<c, f>>
        <4>1. PICK d \in Clients, g \in Files : p = <<d, g>>
          OBVIOUS
        <4>2. CASE d = c
          BY <1>2, <2>2, <2>3, <4>1, <4>2 DEF Pend
        <4>3. CASE d # c
          BY <2>3, <4>1, <4>3 DEF Pend
        <4> QED
          BY <4>2, <4>3
      <3>3. Pend \subseteq Clients \X Files /\ Pend' \subseteq Clients \X Files
        BY DEF Pend
      <3> QED
        BY <3>1, <3>2, <3>3
    <2>5. /\ IsFiniteSet(Pend') /\ Cardinality(Pend') = Cardinality(Pend) - 1
          /\ Cardinality(Pend) \in Nat /\ Cardinality(Pend') \in Nat
      <3>1. IsFiniteSet(Pend)
        BY <1>3 DEF AttInv
      <3> QED
        BY <2>4, <3>1, FS_RemoveElement, FS_CardinalityType
    <2>6. atts' + Cardinality(Pend') <= asked /\ atts' \in 0..MaxAttach /\ atts <= atts'
      BY <1>3, <1>4, <2>5, Fixed DEF AttInv
    <2>7. /\ json' \in [Files -> Json] /\ json'[f].status = "in_progress" /\ json'[f].att = atts + 1
          /\ \A g \in Files : g # f => json'[g] = json[g]
      <3>1. PICK q : q = NewJson(atts + 1)
        OBVIOUS
      <3>2. q \in Json /\ q.status = "in_progress" /\ q.att = atts + 1
        BY <1>4, <2>6, <3>1, Fixed DEF NewJson, Json
      <3> QED
        BY <1>2, <1>4, <3>1, <3>2, Types
    <2>8. AttInv'
      <3>1. \A g \in Files : json'[g].att <= atts'
        BY <1>3, <1>4, <2>7, Types DEF AttInv
      <3>2. \A d \in Clients : cl'[d].copy.att <= atts'
        BY <1>3, <1>4, <2>2, <2>3, Types DEF AttInv
      <3> QED
        BY <1>1, <2>5, <2>6, <3>1, <3>2 DEF AttInv
    <2>9. ClientInv'
      BY <1>3, <2>2, <2>3 DEF ClientInv
    <2>10. \A g \in Files : Moved(g)
      BY <1>1, <1>4, <2>7 DEF Moved
    <2>11. old' \subseteq Files /\ events' \in 0..MaxEvents /\ asked' \in 0..MaxAttach
      BY <1>1, <1>3, <1>4 DEF TypeOK
    <2> QED
      BY <1>1, <1>3, <2>3, <2>6, <2>7, <2>8, <2>9, <2>10, <2>11, Handled DEF TypeOK
  <1>5. ASSUME UNCHANGED <<atts, json, old>>, events' \in 0..MaxEvents,
               Step(c, [cl[c] EXCEPT !.pc = "wake", !.todo = {}, !.batch = FALSE])
        PROVE  IInv'
    <2>1. PICK r : r = [cl[c] EXCEPT !.pc = "wake", !.todo = {}, !.batch = FALSE]
      OBVIOUS
    <2>2. r \in CRec /\ r.pc = "wake" /\ r.todo = {} /\ r.copy = cl[c].copy
      BY <1>2, <2>1 DEF CRec, ClientPCs
    <2>3. /\ r.todo \subseteq cl[c].todo /\ cl[c].pc \in {"write", "wake"}
          /\ r.pc \in {"cancel", "put"} => r.f \in Files
          /\ r.copy.att <= atts /\ Step(c, r)
      BY <1>2, <1>5, <2>1, <2>2
    <2> QED
      BY <1>1, <1>3, <1>5, <2>2, <2>3, Talks
  <1>6. ASSUME UNCHANGED <<atts, json, old, events>>, Step(c, IdleClient)
        PROVE  IInv'
    <2>1. /\ IdleClient \in CRec /\ IdleClient.pc \notin {"write", "wake"}
          /\ IdleClient.pc \in {"cancel", "put"} => IdleClient.f \in Files
          /\ IdleClient.copy.att <= atts
      BY <1>3, Fixed
    <2> QED
      BY <1>1, <1>3, <1>6, <2>1, Talks
  <1>7. PICK f \in cl[c].todo :
          \/ /\ atts' = atts + 1 /\ events' = events /\ old' = old \ {f}
             /\ json' = [json EXCEPT ![f] = NewJson(atts + 1)]
             /\ Step(c, [cl[c] EXCEPT !.pc = "wake", !.todo = cl[c].todo \ {f}])
          \/ /\ UNCHANGED <<atts, json, old>> /\ (events' = events \/ Event)
             /\ Step(c, [cl[c] EXCEPT !.pc = "wake", !.todo = {}, !.batch = FALSE])
          \/ UNCHANGED <<atts, json, old, events>> /\ Step(c, IdleClient)
    BY Zenon DEF AttachWrite, NewJson
  <1>8. events' = events \/ Event => events' \in 0..MaxEvents
    BY TakeEvent
  <1> QED
    BY <1>4, <1>5, <1>6, <1>7, <1>8, Zenon

(* The idle client, what every request ends with. *)
LEMMA IdleFits ==
  ASSUME IInv
  PROVE  /\ IdleClient \in CRec /\ IdleClient.pc \notin {"write", "wake"}
         /\ IdleClient.pc \in {"cancel", "put"} => IdleClient.f \in Files
         /\ IdleClient.copy.att <= atts
  <1>1. atts \in Nat
    BY Types
  <1> QED
    BY <1>1, Fixed

LEMMA WakeStep ==
  ASSUME IInv, NEW c \in Clients, AttachWake(c)
  PROVE  IInv'
  <1>1. /\ UNCHANGED <<store, json, chunks, vec, batch, held, model, stopping, w, asked, atts, old>>
        /\ kicked' \in BOOLEAN /\ events' \in 0..MaxEvents /\ cl[c].pc = "wake"
        /\ batch' \in {"none", "made", "cancelled"}
    BY DEF AttachWake, KeepRest, disk, At, IInv, TypeOK
  <1>2. cl[c] \in CRec /\ cl[c].copy.att <= atts
    BY Types DEF IInv, AttInv
  <1>3. ASSUME NEW p \in {"write", "save"}, Step(c, [cl[c] EXCEPT !.pc = p])
        PROVE  IInv'
    <2>1. PICK r : r = [cl[c] EXCEPT !.pc = p]
      OBVIOUS
    <2>2. r \in CRec /\ r.pc = p /\ r.todo = cl[c].todo /\ r.copy = cl[c].copy
      BY <1>2, <2>1 DEF CRec, ClientPCs
    <2>3. /\ r.todo \subseteq cl[c].todo /\ cl[c].pc \in {"write", "wake"}
          /\ r.pc \in {"cancel", "put"} => r.f \in Files
          /\ r.copy.att <= atts /\ Step(c, r)
      BY <1>1, <1>2, <1>3, <2>1, <2>2
    <2> QED
      BY <1>1, <2>2, <2>3, Talks
  <1>4. ASSUME Step(c, IdleClient)
        PROVE  IInv'
    BY <1>1, <1>4, IdleFits, Talks
  <1>5. \/ Step(c, [cl[c] EXCEPT !.pc = "write"])
        \/ Step(c, [cl[c] EXCEPT !.pc = "save"])
        \/ Step(c, IdleClient)
    BY DEF AttachWake, Step
  <1> QED
    BY <1>3, <1>4, <1>5

(* The batch saved, made or cancelled. *)
LEMMA SaveStep ==
  ASSUME IInv, NEW c \in Clients, BatchSave(c) \/ CancelMark(c)
  PROVE  IInv'
  <1>1. /\ UNCHANGED <<store, json, chunks, vec, held, model, stopping, w, asked, atts, old>>
        /\ kicked' \in BOOLEAN /\ events' \in 0..MaxEvents /\ Step(c, IdleClient)
        /\ batch' \in {"none", "made", "cancelled"}
    BY DEF BatchSave, CancelMark, KeepRest, IInv, TypeOK
  <1> QED
    BY <1>1, IdleFits, Talks

LEMMA CancelBeginStep ==
  ASSUME IInv, NEW c \in Clients, CancelBegin(c)
  PROVE  IInv'
  <1>1. /\ UNCHANGED <<store, json, chunks, vec, batch, held, model, stopping, w, asked, atts, old>>
        /\ kicked' \in BOOLEAN /\ events' \in 0..MaxEvents
        /\ batch' \in {"none", "made", "cancelled"}
    BY TakeEvent DEF CancelBegin, KeepRest, disk, IInv, TypeOK
  <1>2. PICK r : r = [IdleClient EXCEPT !.pc = "ask", !.todo = Files]
    OBVIOUS
  <1>3. r \in CRec /\ r.pc = "ask" /\ r.copy = None
    BY <1>2, Fixed DEF CRec, ClientPCs
  <1>4. /\ r.pc \notin {"write", "wake"} /\ (r.pc \in {"cancel", "put"} => r.f \in Files)
        /\ r.copy.att <= atts
    BY <1>3, IdleFits, Fixed
  <1>5. Step(c, r)
    BY <1>2, Zenon DEF CancelBegin
  <1> QED
    BY <1>1, <1>3, <1>4, <1>5, Talks

LEMMA AskStep ==
  ASSUME IInv, NEW c \in Clients, CancelAsk(c)
  PROVE  IInv'
  <1>1. /\ UNCHANGED <<disk, kicked, atts, old, events>> /\ UNCHANGED <<model, stopping, w, asked>>
        /\ At(c, "ask")
    BY Zenon DEF CancelAsk, KeepRest
  <1>2. /\ UNCHANGED <<store, json, chunks, vec, batch, held, model, stopping, w, asked, atts, old>>
        /\ kicked' \in BOOLEAN /\ events' \in 0..MaxEvents /\ cl[c].pc = "ask"
        /\ batch' \in {"none", "made", "cancelled"}
    BY <1>1 DEF disk, At, IInv, TypeOK
  <1>3. cl[c] \in CRec /\ cl[c].copy.att <= atts /\ cl[c].todo \subseteq Files
    BY Types DEF IInv, AttInv, CRec
  <1>4. ASSUME NEW r \in CRec, Step(c, r), r.pc \in {"ask", "cancel", "mark"},
               r.pc = "cancel" => r.f \in Files, r.copy = cl[c].copy
        PROVE  IInv'
    <2>1. /\ r.pc \notin {"write", "wake"} /\ (r.pc \in {"cancel", "put"} => r.f \in Files)
          /\ r.copy.att <= atts
      BY <1>3, <1>4
    <2> QED
      BY <1>2, <1>4, <2>1, Talks
  <1>5. ASSUME NEW f \in cl[c].todo,
               Step(c, [cl[c] EXCEPT !.todo = cl[c].todo \ {f}, !.f = f, !.pc = "cancel"])
        PROVE  IInv'
    <2>1. PICK r : r = [cl[c] EXCEPT !.todo = cl[c].todo \ {f}, !.f = f, !.pc = "cancel"]
      OBVIOUS
    <2>2. r \in CRec /\ r.pc = "cancel" /\ r.f \in Files /\ r.copy = cl[c].copy
      BY <1>3, <2>1 DEF CRec, ClientPCs
    <2> QED
      BY <1>4, <1>5, <2>1, <2>2
  <1>6. ASSUME NEW f \in cl[c].todo, Step(c, [cl[c] EXCEPT !.todo = cl[c].todo \ {f}])
        PROVE  IInv'
    <2>1. PICK r : r = [cl[c] EXCEPT !.todo = cl[c].todo \ {f}]
      OBVIOUS
    <2>2. r \in CRec /\ r.pc = "ask" /\ r.copy = cl[c].copy
      BY <1>2, <1>3, <2>1 DEF CRec, ClientPCs
    <2> QED
      BY <1>4, <1>6, <2>1, <2>2
  <1>7. ASSUME Step(c, [cl[c] EXCEPT !.pc = "mark"])
        PROVE  IInv'
    <2>1. PICK r : r = [cl[c] EXCEPT !.pc = "mark"]
      OBVIOUS
    <2>2. r \in CRec /\ r.pc = "mark" /\ r.copy = cl[c].copy
      BY <1>3, <2>1 DEF CRec, ClientPCs
    <2> QED
      BY <1>4, <1>7, <2>1, <2>2
  <1>8. \/ Step(c, [cl[c] EXCEPT !.pc = "mark"])
        \/ \E f \in cl[c].todo :
             \/ Step(c, [cl[c] EXCEPT !.todo = cl[c].todo \ {f}, !.f = f, !.pc = "cancel"])
             \/ Step(c, [cl[c] EXCEPT !.todo = cl[c].todo \ {f}])
    <2> DEFINE A(f) == [cl[c] EXCEPT !.todo = cl[c].todo \ {f}, !.f = f, !.pc = "cancel"]
               B(f) == [cl[c] EXCEPT !.todo = cl[c].todo \ {f}]
               M == [cl[c] EXCEPT !.pc = "mark"]
    <2>1. Step(c, M) \/ \E f \in cl[c].todo : Step(c, IF Waiting(f) THEN A(f) ELSE B(f))
      BY Zenon DEF CancelAsk
    <2> HIDE DEF A, B, M
    <2>2. Step(c, M) \/ \E f \in cl[c].todo : Step(c, A(f)) \/ Step(c, B(f))
      BY <2>1 DEF Step
    <2> QED
      BY <2>2, Zenon DEF A, B, M
  <1> QED
    BY <1>5, <1>6, <1>7, <1>8, Zenon

LEMMA UpdateReadStep ==
  ASSUME IInv, NEW c \in Clients, UpdateRead(c)
  PROVE  IInv'
  <1>1. /\ UNCHANGED <<disk, kicked, atts, old>> /\ UNCHANGED <<model, stopping, w, asked>>
        /\ Event
    BY Zenon DEF UpdateRead, KeepRest
  <1>2. /\ UNCHANGED <<store, json, chunks, vec, batch, held, model, stopping, w, asked, atts, old>>
        /\ kicked' \in BOOLEAN /\ events' \in 0..MaxEvents
        /\ batch' \in {"none", "made", "cancelled"}
    BY <1>1, TakeEvent DEF disk, IInv, TypeOK
  <1>3. PICK f \in Files : Step(c, [IdleClient EXCEPT !.pc = "put", !.f = f, !.copy = json[f]])
    BY Zenon DEF UpdateRead
  <1>4. PICK r : r = [IdleClient EXCEPT !.pc = "put", !.f = f, !.copy = json[f]]
    OBVIOUS
  <1>5. r \in CRec /\ r.pc = "put" /\ r.f = f /\ r.copy = json[f]
    BY <1>4, Types, Fixed DEF CRec, ClientPCs
  <1>6. /\ r.pc \notin {"write", "wake"} /\ (r.pc \in {"cancel", "put"} => r.f \in Files)
        /\ r.copy.att <= atts
    BY <1>5 DEF IInv, AttInv
  <1>7. Step(c, r)
    BY <1>3, <1>4
  <1> QED
    BY <1>2, <1>5, <1>6, <1>7, Talks

LEMMA CancelSetStep ==
  ASSUME IInv, NEW c \in Clients, CancelSet(c)
  PROVE  IInv'
  <1>1. /\ UNCHANGED <<store, chunks, vec, batch, held, kicked, atts, old, events>>
        /\ UNCHANGED <<model, stopping, w, asked>> /\ At(c, "cancel")
    BY Zenon DEF CancelSet, KeepRest
  <1>2. /\ TypeOK /\ ClientInv /\ AttInv /\ cl[c].pc = "cancel" /\ cl[c] \in CRec
        /\ cl[c].f \in Files /\ json \in [Files -> Json] /\ atts \in Nat /\ asked \in Nat
    BY <1>1, Types, Fixed DEF IInv, TypeOK, ClientInv, At
  <1>3. PICK f \in Files : f = cl[c].f
    BY <1>2
  <1>4. PICK b \in 0..MaxAttach : b = json[f].by
    BY <1>2 DEF Json
  <1>5. PICK e \in BOOLEAN : e = json[f].cause
    BY <1>2 DEF Json
  <1>6. SetStatus(f, "cancelled", b, e)
    BY <1>3, <1>4, <1>5 DEF CancelSet
  <1>7. /\ json' \in [Files -> Json]
        /\ \A g \in Files : g # f => json'[g] = json[g]
        /\ json[f] = None => json'[f] = None
        /\ json[f] # None => json'[f].status = "cancelled" /\ json'[f].att = json[f].att
    BY <1>2, <1>6, Sets
  <1>8. PICK r : r = [cl[c] EXCEPT !.pc = "ask", !.f = NoFile]
    OBVIOUS
  <1>9. r \in CRec /\ r.pc = "ask" /\ r.copy = cl[c].copy
    BY <1>2, <1>8 DEF CRec, ClientPCs
  <1>10. Step(c, r)
    BY <1>8, Zenon DEF CancelSet
  <1>11. /\ cl' \in [Clients -> CRec] /\ cl'[c] = r
         /\ \A d \in Clients : d # c => cl'[d] = cl[d]
    BY <1>9, <1>10, Steps
  <1>12. AttInv'
    <2>1. /\ IsFiniteSet(Pend') /\ Cardinality(Pend') <= Cardinality(Pend)
          /\ Cardinality(Pend) \in Nat /\ Cardinality(Pend') \in Nat
      BY <1>9, <1>10, Fewer
    <2>2. atts + Cardinality(Pend') <= asked
      BY <1>2, <2>1 DEF AttInv
    <2>3. \A g \in Files : json'[g].att <= atts
      BY <1>2, <1>7 DEF AttInv
    <2>4. \A d \in Clients : cl'[d].copy.att <= atts
      BY <1>2, <1>9, <1>11 DEF AttInv
    <2> QED
      BY <1>1, <2>1, <2>2, <2>3, <2>4 DEF AttInv
  <1>13. ClientInv'
    BY <1>2, <1>9, <1>11 DEF ClientInv
  <1>14. \A g \in Files : Moved(g)
    BY <1>1, <1>7 DEF Moved
  <1>15. atts <= atts' /\ stopping' \in BOOLEAN /\ (stopping => stopping')
    BY <1>1, <1>2, Types
  <1> QED
    BY <1>1, <1>2, <1>7, <1>11, <1>12, <1>13, <1>14, <1>15, Handled DEF TypeOK

LEMMA UpdateWriteStep ==
  ASSUME IInv, NEW c \in Clients, UpdateWrite(c)
  PROVE  IInv'
  <1>1. /\ UNCHANGED <<store, chunks, vec, batch, held, kicked, atts, events>>
        /\ UNCHANGED <<model, stopping, w, asked>> /\ At(c, "put") /\ Step(c, IdleClient)
    BY Zenon DEF UpdateWrite, KeepRest
  <1>2. /\ TypeOK /\ ClientInv /\ AttInv /\ cl[c].pc = "put" /\ cl[c] \in CRec
        /\ cl[c].f \in Files /\ json \in [Files -> Json] /\ atts \in Nat /\ asked \in Nat
        /\ cl[c].copy \in Json /\ cl[c].copy.att <= atts
    BY <1>1, Types, Fixed DEF IInv, TypeOK, ClientInv, At, AttInv, CRec
  <1>3. PICK f \in Files : f = cl[c].f
    BY <1>2
  <1>4. PICK q \in Json : q = cl[c].copy
    BY <1>2
  <1>5. PICK v : v = IF store THEN q ELSE json[f]
    OBVIOUS
  <1>6. json' = [json EXCEPT ![f] = v] /\ v \in Json /\ v.att <= atts
    BY <1>2, <1>3, <1>4, <1>5 DEF UpdateWrite, AttInv
  <1>7. /\ json' \in [Files -> Json] /\ json'[f] = v
        /\ \A g \in Files : g # f => json'[g] = json[g]
    BY <1>2, <1>6
  <1>8. old' = (IF store /\ json[f] # q THEN old \cup {f} ELSE old)
    BY <1>3, <1>4 DEF UpdateWrite
  <1>9. old' \subseteq Files /\ old \subseteq old' /\ (json'[f] = json[f] \/ f \in old')
    BY <1>2, <1>5, <1>7, <1>8 DEF TypeOK
  <1>10. /\ cl' \in [Clients -> CRec] /\ cl'[c] = IdleClient
         /\ \A d \in Clients : d # c => cl'[d] = cl[d]
    BY <1>1, IdleFits, Steps
  <1>11. AttInv'
    <2>1. /\ IsFiniteSet(Pend') /\ Cardinality(Pend') <= Cardinality(Pend)
          /\ Cardinality(Pend) \in Nat /\ Cardinality(Pend') \in Nat
      BY <1>1, IdleFits, Fewer
    <2>2. atts + Cardinality(Pend') <= asked
      BY <1>2, <2>1 DEF AttInv
    <2>3. \A g \in Files : json'[g].att <= atts
      BY <1>2, <1>6, <1>7 DEF AttInv
    <2>4. \A d \in Clients : cl'[d].copy.att <= atts
      BY <1>2, <1>10, IdleFits DEF AttInv
    <2> QED
      BY <1>1, <2>1, <2>2, <2>3, <2>4 DEF AttInv
  <1>12. ClientInv'
    BY <1>2, <1>10, IdleFits DEF ClientInv
  <1>13. \A g \in Files : Moved(g)
    BY <1>1, <1>7, <1>9 DEF Moved
  <1>14. atts <= atts' /\ stopping' \in BOOLEAN /\ (stopping => stopping')
    BY <1>1, <1>2, Types
  <1> QED
    BY <1>1, <1>2, <1>7, <1>9, <1>10, <1>11, <1>12, <1>13, <1>14, Handled DEF TypeOK

(* The requests of one step, and the stop: no handler goes on to another
   place. *)
LEMMA AloneStep ==
  ASSUME IInv, UNCHANGED <<model, w, asked, cl, atts, kicked, old>>, Event,
         stopping' \in BOOLEAN, stopping => stopping',
         json' \in [Files -> Json], chunks' \in [Files -> 0..MaxAttach],
         vec' \in [Files -> 0..MaxAttach], store' \in BOOLEAN,
         batch' \in {"none", "made", "cancelled"}, held' \subseteq Files,
         \A f \in Files : \/ json'[f] = json[f] /\ chunks'[f] = chunks[f] /\ vec'[f] = vec[f]
                          \/ json'[f] = None /\ vec'[f] = 0
  PROVE  IInv'
  <1>1. TypeOK /\ ClientInv /\ AttInv /\ atts \in Nat /\ cl \in [Clients -> CRec]
    BY Types DEF IInv
  <1>2. \A f \in Files : json'[f].att <= atts
    BY <1>1, Fixed DEF AttInv
  <1>3. AttInv' /\ ClientInv'
    BY <1>1, <1>2 DEF AttInv, ClientInv, Pend
  <1>4. \A f \in Files : Moved(f)
    BY DEF Moved
  <1>5. events' \in 0..MaxEvents /\ atts <= atts'
    BY <1>1, TakeEvent
  <1> QED
    BY <1>1, <1>3, <1>4, <1>5, Handled DEF TypeOK

LEMMA DetachStep ==
  ASSUME IInv, NEW c \in Clients, Detach(c)
  PROVE  IInv'
  <1>1. /\ UNCHANGED <<store, batch, held, cl, kicked, atts, old>> /\ Event
        /\ UNCHANGED <<model, stopping, w, asked>>
    BY Zenon DEF Detach, KeepRest
  <1>2. PICK f \in Files : /\ json' = [json EXCEPT ![f] = None]
                           /\ chunks' = [chunks EXCEPT ![f] = 0]
                           /\ vec' = [vec EXCEPT ![f] = 0]
    BY DEF Detach
  <1>3. /\ TypeOK /\ json \in [Files -> Json] /\ chunks \in [Files -> 0..MaxAttach]
        /\ vec \in [Files -> 0..MaxAttach] /\ stopping' \in BOOLEAN
    BY <1>1 DEF IInv, TypeOK
  <1>4. /\ json' \in [Files -> Json] /\ chunks' \in [Files -> 0..MaxAttach]
        /\ vec' \in [Files -> 0..MaxAttach]
    BY <1>2, <1>3, Fixed
  <1>5. \A g \in Files : \/ json'[g] = json[g] /\ chunks'[g] = chunks[g] /\ vec'[g] = vec[g]
                         \/ json'[g] = None /\ vec'[g] = 0
    BY <1>2, <1>3
  <1> QED
    BY <1>1, <1>3, <1>4, <1>5, AloneStep DEF TypeOK

LEMMA DeleteStep ==
  ASSUME IInv, NEW c \in Clients, DeleteStore(c)
  PROVE  IInv'
  <1>1. /\ UNCHANGED <<held, cl, kicked, atts, old>> /\ Event
        /\ UNCHANGED <<model, stopping, w, asked>> /\ store' = FALSE /\ batch' = "none"
        /\ json' = [f \in Files |-> None]
        /\ chunks' = [f \in Files |-> 0] /\ vec' = [f \in Files |-> 0]
    BY DEF DeleteStore, KeepRest
  <1>2. /\ TypeOK /\ stopping' \in BOOLEAN
        /\ json' \in [Files -> Json] /\ chunks' \in [Files -> 0..MaxAttach]
        /\ vec' \in [Files -> 0..MaxAttach]
        /\ \A g \in Files : json'[g] = None /\ vec'[g] = 0
    BY <1>1, Fixed DEF IInv, TypeOK
  <1> QED
    BY <1>1, <1>2, AloneStep DEF TypeOK

LEMMA UploadStep ==
  ASSUME IInv, NEW c \in Clients, DeleteUpload(c)
  PROVE  IInv'
  <1>1. /\ UNCHANGED <<store, json, chunks, vec, batch, cl, kicked, atts, old>> /\ Event
        /\ UNCHANGED <<model, stopping, w, asked>> /\ held' \subseteq held
    BY DEF DeleteUpload, KeepRest
  <1>2. TypeOK /\ stopping' \in BOOLEAN /\ held' \subseteq Files
    BY <1>1 DEF IInv, TypeOK
  <1> QED
    BY <1>1, <1>2, AloneStep DEF TypeOK

-----------------------------------------------------------------------------
(* The life of the server. *)
LEMMA StopStep ==
  ASSUME IInv, Stop
  PROVE  IInv'
  <1>1. /\ UNCHANGED <<store, json, chunks, vec, batch, held, model, kicked, w, cl, atts, old, asked>>
        /\ Event /\ stopping' = TRUE
    BY DEF Stop, disk
  <1>2. TypeOK
    BY DEF IInv
  <1> QED
    BY <1>1, <1>2, AloneStep DEF TypeOK

(* Killed, the server keeps the disk, and nobody has a file to attach. *)
LEMMA CrashStep ==
  ASSUME IInv, Crash
  PROVE  IInv'
  <1>1. /\ UNCHANGED <<store, json, chunks, vec, batch, held, model, kicked, stopping, atts, old, asked>>
        /\ w' = [TopOf EXCEPT !.pc = "out"] /\ cl' = [c \in Clients |-> IdleClient]
        /\ events' \in 0..MaxEvents
    BY TakeEvent DEF Crash, disk
  <1>2. TypeOK /\ AttInv /\ StatusTrue /\ atts \in Nat /\ asked \in Nat
    BY Types, Fixed DEF IInv, TypeOK
  <1>3. w' \in WRec /\ w'.f = NoFile /\ w'.att = 0 /\ w'.ok /\ w'.pc = "out"
    BY <1>1, Fixed DEF WRec, WorkerPCs
  <1>4. WorkerInv'
    BY <1>1, <1>2, <1>3, TopInv
  <1>5. cl' \in [Clients -> CRec] /\ \A c \in Clients : cl'[c] = IdleClient
    BY <1>1, Fixed
  <1>6. TypeOK'
    BY <1>1, <1>2, <1>3, <1>5 DEF TypeOK, WRec, CRec
  <1>7. ClientInv'
    BY <1>5, Fixed DEF ClientInv
  <1>8. AttInv'
    <2>1. Pend' = {}
      BY <1>5, Fixed DEF Pend
    <2>2. IsFiniteSet(Pend') /\ Cardinality(Pend') = 0
      BY <2>1, FS_EmptySet
    <2>3. Cardinality(Pend) \in Nat
      BY <1>2, FS_CardinalityType DEF AttInv
    <2>4. atts + 0 <= asked
      BY <1>2, <2>3 DEF AttInv
    <2>5. \A c \in Clients : cl'[c].copy.att <= atts
      BY <1>5, IdleFits
    <2> QED
      BY <1>1, <1>2, <2>2, <2>4, <2>5 DEF AttInv
  <1>9. StatusTrue'
    BY <1>1, <1>2 DEF StatusTrue
  <1> QED
    BY <1>4, <1>6, <1>7, <1>8, <1>9 DEF IInv

LEMMA StartStep ==
  ASSUME IInv, Start
  PROVE  IInv'
  <1>1. /\ UNCHANGED <<store, json, chunks, vec, batch, held, cl, atts, old, asked, events>>
        /\ w' = TopOf /\ kicked' = FALSE /\ stopping' = FALSE /\ model' \in BOOLEAN
    BY DEF Start, disk
  <1>2. TypeOK /\ AttInv /\ ClientInv /\ StatusTrue /\ atts \in Nat
    BY Types DEF IInv
  <1>3. WorkerInv'
    BY <1>1, <1>2, Fixed, TopInv
  <1>4. TypeOK'
    BY <1>1, <1>2, Fixed DEF TypeOK, WRec
  <1>5. AttInv' /\ ClientInv'
    BY <1>1, <1>2 DEF AttInv, ClientInv, Pend
  <1>6. StatusTrue'
    BY <1>1, <1>2 DEF StatusTrue
  <1> QED
    BY <1>3, <1>4, <1>5, <1>6 DEF IInv

-----------------------------------------------------------------------------
LEMMA Started ==
  ASSUME Init
  PROVE  IInv
  <1>1. /\ store = TRUE /\ json = [f \in Files |-> None]
        /\ chunks = [f \in Files |-> 0] /\ vec = [f \in Files |-> 0]
        /\ batch = "none" /\ held = Files /\ model = FirstModel
        /\ kicked = FALSE /\ stopping = FALSE
        /\ w = TopOf /\ cl = [c \in Clients |-> IdleClient]
        /\ atts = 0 /\ old = {} /\ asked = 0 /\ events = 0
    BY DEF Init
  <1>2. cl \in [Clients -> CRec] /\ \A c \in Clients : cl[c] = IdleClient
    BY <1>1, Fixed
  <1>3. json \in [Files -> Json] /\ \A f \in Files : json[f] = None
    BY <1>1, Fixed
  <1>4. FirstModel \in BOOLEAN /\ 0 \in 0..MaxEvents
    BY Fixed, VectorStoresAssumption
  <1>5. TypeOK
    BY <1>1, <1>2, <1>3, <1>4, Fixed DEF TypeOK, WRec, CRec
  <1>6. AttInv
    <2>1. Pend = {}
      BY <1>2, Fixed DEF Pend
    <2>2. IsFiniteSet(Pend) /\ Cardinality(Pend) = 0
      BY <2>1, FS_EmptySet
    <2> QED
      BY <1>1, <1>2, <1>3, <2>2, Fixed DEF AttInv
  <1>7. ClientInv
    BY <1>2, Fixed DEF ClientInv
  <1>8. WorkerInv
    BY <1>1, Fixed DEF WorkerInv
  <1>9. StatusTrue
    BY <1>3, Fixed DEF StatusTrue
  <1> QED
    BY <1>5, <1>6, <1>7, <1>8, <1>9 DEF IInv

LEMMA Kept ==
  ASSUME IInv, [Next]_vars
  PROVE  IInv'
  <1>1. CASE Worker
    BY <1>1, TopStep, ScanStep, ScannedStep, ReadStep, SizesStep, ChunksStep, StatusStep,
       CallStep, VecStep, DoneStep, SetStep DEF Worker
  <1>2. ASSUME NEW c \in Clients, Goes(c)
        PROVE  IInv'
    BY <1>2, WriteStep, WakeStep, SaveStep, AskStep, CancelSetStep, UpdateWriteStep DEF Goes
  <1>3. ASSUME NEW c \in Clients, Begins(c)
        PROVE  IInv'
    BY <1>3, BeginStep, CancelBeginStep, UpdateReadStep, DetachStep, DeleteStep, UploadStep
       DEF Begins
  <1>4. CASE Stop
    BY <1>4, StopStep
  <1>5. CASE Crash
    BY <1>5, CrashStep
  <1>6. CASE Start
    BY <1>6, StartStep
  <1>7. CASE UNCHANGED vars
    <2>1. /\ UNCHANGED <<disk, model, stopping, cl, atts, old, asked>> /\ w' = w
          /\ events' = events /\ kicked' = kicked
      BY <1>7 DEF vars, disk
    <2>2. UNCHANGED <<json, chunks, vec, old, atts, stopping>>
      BY <2>1 DEF disk
    <2>3. WorkerInv'
      BY <2>1, <2>2 DEF IInv, WorkerInv, Same, Waiting
    <2>4. w' \in WRec /\ events' \in 0..MaxEvents /\ kicked' \in BOOLEAN
      BY <2>1, Types DEF IInv, TypeOK
    <2> QED
      BY <2>1, <2>3, <2>4, Turns
  <1> QED
    BY <1>1, <1>2, <1>3, <1>4, <1>5, <1>6, <1>7 DEF Next

LEMMA Invariance == Spec => []IInv
  <1>1. Init => IInv
    BY Started
  <1>2. IInv /\ [Next]_vars => IInv'
    BY Kept
  <1> QED
    BY <1>1, <1>2, PTL DEF Spec

(* Type correctness of the vector stores' files, handlers and indexer, for
   any files, clients and bounds: the loop of index_file never goes past the
   chunks, no JSON carries an attachment that was not made, and there are no
   more attachments than were asked for, whatever handlers and indexer write
   over one another, and over any stop, kill and restart. *)
THEOREM TypeCorrect == Spec => []TypeOK
  <1>1. IInv => TypeOK
    BY DEF IInv
  <1> QED
    BY <1>1, Invariance, PTL

(* srv_vectors_set_status writes over whatever the JSON says by then: a file
   completed still has the chunks of its own attachment and vectors of those
   chunks or none, and a file failed met an error and was not cut short by a
   stop or a cancel, however the indexer's unlocked writes interleave with the
   handlers that attach, cancel, update, detach and delete; but for the two
   races StatusTrue sets apart. *)
THEOREM StatusesAreTrue == Spec => []StatusTrue
  <1>1. IInv => StatusTrue
    BY DEF IInv
  <1> QED
    BY <1>1, Invariance, PTL

=============================================================================
