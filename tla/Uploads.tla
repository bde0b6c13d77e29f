------------------------------- MODULE Uploads ------------------------------
(***************************************************************************)
(* Uploads and the Files they become (server/uploads.c,                    *)
(* server/files_store.c): a file sent in parts, which a complete joins     *)
(* outside the lock of the uploads and, but for its ends, of the files.    *)
(*                                                                         *)
(* A handler that holds a lock throughout is one action; complete is a     *)
(* process of its own (pc), with a step wherever it lets a lock go or      *)
(* changes the disk, since other requests and a kill fall in between.      *)
(* A part's bytes are its name <<upload, number>>, of size 1; ids of       *)
(* uploads and of files are random in the code, and never used again here. *)
(***************************************************************************)
EXTENDS Integers, Sequences, SequencesExt, FiniteSets, FiniteSetsExt

CONSTANTS
  Ids,          \* uploads
  Sizes,        \* the sizes announced
  UploadsKept,  \* UPLOADS_KEPT
  FilesMax,     \* SRV_FILES_MAX
  MaxTries,     \* bound: completes of an upload
  MaxCompletes, \* bound: completes of all of them
  MaxDeletes,   \* bound: files deleted
  MaxAccidents, \* bound: failures, kills and stops
  None

ASSUME UploadsAssumption ==
  /\ Sizes \subseteq Nat /\ UploadsKept \in Nat \ {0} /\ FilesMax \in Nat
  /\ MaxTries \in Nat /\ None \notin Seq(Ids \X Nat)

VARIABLES
  up,
  ready,      \* parts_dir is made and was emptied
  ups,        \* the uploads remembered, oldest first
  status, bytes,
  part,       \* upload -> the number of its parts, numbered from 1
  late,       \* the uploads past their hour
  parts,      \* the files of parts on disk
  pc,         \* upload -> where its complete is
  rc,         \* upload -> what srv_files_add_parts returns
  want,       \* upload -> the parts its complete named, in order
  got,        \* upload -> the hidden file they are joined in, or None
  tries,
  kept,       \* the files known
  content,    \* file -> what is on disk under its id, or None
  meta,       \* the files with a .meta on disk
  forgetting, \* the file a delete is in the middle of, or None
  made,       \* history: file -> the parts named by the complete that made it
  deletes, accidents

upVars == <<up, ready, ups, status, bytes, part, late, parts>>
joinVars == <<pc, rc, want, got, tries>>
fileVars == <<kept, content, meta, forgetting, made>>
vars == <<upVars, joinVars, fileVars, deletes, accidents>>

Files == Ids \X (1 .. MaxTries)
File(u) == <<u, tries[u]>>      \* the file the complete under way is to make
In(u) == \E i \in DOMAIN ups : ups[i] = u
PartsOf(u) == {<<u, i>> : i \in 1 .. part[u]}
Aged(u) == status[u] = "pending" /\ u \in late
Live(u) == up /\ In(u) /\ status[u] = "pending" /\ u \notin late
Joining(u) == pc[u] # "idle"
Total(F) == MapThenSumSet(LAMBDA f : bytes[f[1]], F)

Completes == MapThenSumSet(LAMBDA u : tries[u], Ids)

(* The mutex of the files: held over the two changes on disk of a commit and
   of a delete. *)
FilesFree == forgetting = None /\ \A u \in Ids : pc[u] # "meta"

Accident == accidents < MaxAccidents /\ accidents' = accidents + 1

-----------------------------------------------------------------------------
Init ==
  /\ up = TRUE /\ ready = FALSE /\ ups = <<>>
  /\ status = [u \in Ids |-> "none"] /\ bytes = [u \in Ids |-> 0]
  /\ part = [u \in Ids |-> 0] /\ late = {} /\ parts = {}
  /\ pc = [u \in Ids |-> "idle"] /\ rc = [u \in Ids |-> 0]
  /\ want = [u \in Ids |-> <<>>] /\ got = [u \in Ids |-> None]
  /\ tries = [u \in Ids |-> 0]
  /\ kept = {} /\ content = [f \in Files |-> None] /\ meta = {} /\ forgetting = None
  /\ made = [f \in Files |-> <<>>]
  /\ deletes = 0 /\ accidents = 0

(* ensure_dir: what an earlier run left goes, once. *)
Emptied == IF ready THEN parts ELSE {}

Joins(u, n) ==
  /\ ready' = TRUE
  /\ bytes' = [bytes EXCEPT ![u] = n]
  /\ UNCHANGED <<up, joinVars, fileVars, deletes, accidents>>

(* Mutant: one upload more than are kept. *)
Create_OneMore(u, n) ==
  /\ up /\ status[u] = "none"
  /\ Len(ups) <= UploadsKept
  /\ ups' = Append(ups, u)
  /\ parts' = Emptied
  /\ status' = [status EXCEPT ![u] = "pending"]
  /\ Joins(u, n)
  /\ UNCHANGED <<part, late>>

(* srv_uploads_create, with room in the table ... *)
Create(u, n) ==
  /\ up /\ status[u] = "none"
  /\ Len(ups) < UploadsKept
  /\ ups' = Append(ups, u)
  /\ parts' = Emptied
  /\ status' = [status EXCEPT ![u] = "pending"]
  /\ Joins(u, n)
  /\ UNCHANGED <<part, late>>

(* Mutant: the parts of the upload that makes room are left. *)
CreateEvicting_PartsLeft(u, n, k) ==
  /\ up /\ status[u] = "none"
  /\ Len(ups) = UploadsKept
  /\ status[ups[k]] # "pending" \/ Aged(ups[k])
  /\ \A j \in 1 .. (k - 1) : status[ups[j]] = "pending" /\ ~Aged(ups[j])
  /\ ups' = Append(RemoveAt(ups, k), u)
  /\ parts' = Emptied
  /\ part' = [part EXCEPT ![ups[k]] = 0]
  /\ status' = [status EXCEPT ![u] = "pending", ![ups[k]] = "gone"]
  /\ late' = late \ {ups[k]}
  /\ Joins(u, n)

(* ... and when it is full: the oldest that is no longer pending, or is past
   its hour, makes room, one that is being joined too; if there is none the
   request is refused. *)
CreateEvicting(u, n, k) ==
  /\ up /\ status[u] = "none"
  /\ Len(ups) = UploadsKept
  /\ status[ups[k]] # "pending" \/ Aged(ups[k])
  /\ \A j \in 1 .. (k - 1) : status[ups[j]] = "pending" /\ ~Aged(ups[j])
  /\ ups' = Append(RemoveAt(ups, k), u)
  /\ parts' = Emptied \ PartsOf(ups[k])
  /\ part' = [part EXCEPT ![ups[k]] = 0]
  /\ status' = [status EXCEPT ![u] = "pending", ![ups[k]] = "gone"]
  /\ late' = late \ {ups[k]}
  /\ Joins(u, n)

(* The hour of an upload passes. *)
HourPasses(u) ==
  /\ up /\ In(u) /\ u \notin late
  /\ status[u] = "pending" \/ Joining(u)   \* of the others nobody asks
  /\ late' = late \cup {u}
  /\ UNCHANGED <<up, ready, ups, status, bytes, part, parts, joinVars, fileVars,
                 deletes, accidents>>

DropParts(u) ==
  /\ parts' = parts \ PartsOf(u)
  /\ part' = [part EXCEPT ![u] = 0]

(* A part, a complete or a cancel that comes past the hour: find ages the
   upload, and the request is refused. *)
TooLate(u) ==
  /\ up /\ In(u) /\ Aged(u)
  /\ status' = [status EXCEPT ![u] = "expired"]
  /\ DropParts(u)
  /\ UNCHANGED <<up, ready, ups, bytes, late, joinVars, fileVars, deletes, accidents>>

(* srv_uploads_part, up to the bytes announced.  (A part that cannot be
   written is unlinked and refused: nothing changes.) *)
AddPart(u) ==
  /\ Live(u)
  /\ part[u] + 1 <= bytes[u]
  /\ part' = [part EXCEPT ![u] = @ + 1]
  /\ parts' = parts \cup {<<u, part[u] + 1>>}
  /\ UNCHANGED <<up, ready, ups, status, bytes, late, joinVars, fileVars, deletes, accidents>>

(* srv_uploads_cancel *)
Cancel(u) ==
  /\ Live(u)
  /\ status' = [status EXCEPT ![u] = "cancelled"]
  /\ DropParts(u)
  /\ UNCHANGED <<up, ready, ups, bytes, late, joinVars, fileVars, deletes, accidents>>

-----------------------------------------------------------------------------
(* srv_uploads_complete, under the lock: each id one of the upload's parts,
   once; marked completed, "nothing else may touch it now". *)
Complete(u, order) ==
  /\ Live(u)
  /\ pc[u] = "idle" /\ tries[u] < MaxTries /\ Completes < MaxCompletes
  /\ order # <<>>
  /\ status' = [status EXCEPT ![u] = "completed"]
  /\ pc' = [pc EXCEPT ![u] = "room"]
  /\ want' = [want EXCEPT ![u] = order]
  /\ tries' = [tries EXCEPT ![u] = @ + 1]
  /\ UNCHANGED <<up, ready, ups, bytes, part, late, parts, rc, got, fileVars,
                 deletes, accidents>>

JoinEnds(u, r) ==
  /\ pc' = [pc EXCEPT ![u] = "end"]
  /\ rc' = [rc EXCEPT ![u] = r]
  /\ got' = [got EXCEPT ![u] = None]   \* unlink(tmp)

(* srv_files_add_parts, the room for it, under the mutex of the files. *)
JoinRoom(u) ==
  /\ pc[u] = "room" /\ FilesFree
  /\ \/ /\ Total(kept) + bytes[u] <= FilesMax
        /\ pc' = [pc EXCEPT ![u] = "join"]
        /\ got' = [got EXCEPT ![u] = <<>>]
        /\ UNCHANGED <<rc, accidents>>
     \/ Total(kept) + bytes[u] > FilesMax /\ JoinEnds(u, -2) /\ UNCHANGED accidents
     \/ Accident /\ \E r \in {-1, -2} : JoinEnds(u, r)   \* no hidden file, no disk
  /\ UNCHANGED <<upVars, want, tries, fileVars, deletes>>

(* The next part read and written, outside every lock; it may be gone. *)
JoinPart(u) ==
  /\ pc[u] = "join" /\ Len(got[u]) < Len(want[u])
  /\ LET p == want[u][Len(got[u]) + 1] IN
     \/ /\ p \in parts
        /\ got' = [got EXCEPT ![u] = Append(@, p)]
        /\ UNCHANGED <<pc, rc, accidents>>
     \/ p \notin parts /\ JoinEnds(u, -1) /\ UNCHANGED accidents
     \/ Accident /\ JoinEnds(u, -1)
  /\ UNCHANGED <<upVars, want, tries, fileVars, deletes>>

(* All of them read: the size (and the md5) compared with what was announced,
   and the hidden file renamed, under the mutex of the files again. *)
JoinRename(u) ==
  /\ pc[u] = "join" /\ Len(got[u]) = Len(want[u])
  /\ \/ /\ FilesFree
        /\ Len(got[u]) = bytes[u]
        /\ content' = [content EXCEPT ![File(u)] = got[u]]
        /\ pc' = [pc EXCEPT ![u] = "meta"]
        /\ got' = [got EXCEPT ![u] = None]
        /\ UNCHANGED <<rc, accidents>>
     \/ JoinEnds(u, -3) /\ UNCHANGED <<content, accidents>>   \* the size, or the md5
     \/ Accident /\ JoinEnds(u, -1) /\ UNCHANGED content
  /\ UNCHANGED <<upVars, want, tries, kept, meta, forgetting, made, deletes>>

(* Its .meta written, and the file known: or unlinked again, but for a .meta
   that was already there. *)
JoinMeta(u) ==
  /\ pc[u] = "meta"
  /\ \/ /\ meta' = meta \cup {File(u)}
        /\ kept' = kept \cup {File(u)}
        /\ made' = [made EXCEPT ![File(u)] = want[u]]
        /\ JoinEnds(u, 0)
        /\ UNCHANGED <<content, accidents>>
     \/ /\ Accident
        /\ content' = [content EXCEPT ![File(u)] = None]
        /\ JoinEnds(u, -1)
        /\ meta' \in {meta, meta \cup {File(u)}}
        /\ UNCHANGED <<kept, made>>
  /\ UNCHANGED <<upVars, want, tries, forgetting, deletes>>

(* Mutant: pending again whatever came of the join. *)
CompleteEnd_Again(u) ==
  /\ pc[u] = "end"
  /\ IF In(u)
     THEN /\ status' = [status EXCEPT ![u] = "pending"]
          /\ IF rc[u] = 0 THEN DropParts(u) ELSE UNCHANGED <<parts, part>>
     ELSE UNCHANGED <<status, parts, part>>
  /\ pc' = [pc EXCEPT ![u] = "idle"]
  /\ want' = [want EXCEPT ![u] = <<>>] /\ rc' = [rc EXCEPT ![u] = 0]
  /\ UNCHANGED <<up, ready, ups, bytes, late, got, tries, fileVars, deletes, accidents>>

(* Back in srv_uploads_complete, under the lock of the uploads: if it is still
   remembered its parts go, or it is pending again for the client to try. *)
CompleteEnd(u) ==
  /\ pc[u] = "end"
  /\ IF ~In(u)
     THEN UNCHANGED <<status, parts, part>>
     ELSE IF rc[u] = 0
          THEN DropParts(u) /\ UNCHANGED status
          ELSE status' = [status EXCEPT ![u] = "pending"] /\ UNCHANGED <<parts, part>>
  /\ pc' = [pc EXCEPT ![u] = "idle"]
  /\ want' = [want EXCEPT ![u] = <<>>] /\ rc' = [rc EXCEPT ![u] = 0]
  /\ UNCHANGED <<up, ready, ups, bytes, late, got, tries, fileVars, deletes, accidents>>

-----------------------------------------------------------------------------
(* srv_files_delete, or expire: forget removes the .meta, then the file. *)
Delete(f) ==
  /\ up /\ f \in kept /\ FilesFree
  /\ deletes < MaxDeletes
  /\ deletes' = deletes + 1
  /\ kept' = kept \ {f}
  /\ meta' = meta \ {f}
  /\ forgetting' = f
  /\ UNCHANGED <<upVars, joinVars, content, made, accidents>>

DeleteContent ==
  /\ forgetting # None
  /\ content' = [content EXCEPT ![forgetting] = None]
  /\ forgetting' = None
  /\ UNCHANGED <<upVars, joinVars, kept, meta, made, deletes, accidents>>

(* The uploads are forgotten, whether the server stops or is killed. *)
Forgotten ==
  /\ up' = FALSE /\ ready' = FALSE
  /\ ups' = <<>>
  /\ kept' = {} /\ forgetting' = None
  /\ status' = [u \in Ids |-> IF status[u] = "none" THEN "none" ELSE "gone"]
  /\ late' = {}
  /\ pc' = [u \in Ids |-> "idle"]
  /\ want' = [u \in Ids |-> <<>>] /\ rc' = [u \in Ids |-> 0]
  /\ Accident
  /\ UNCHANGED <<bytes, got, tries, content, meta, made, deletes>>

(* Killed at any step. *)
Crash == up /\ Forgotten /\ part' = [u \in Ids |-> 0] /\ UNCHANGED parts

(* srv_uploads_shutdown, once the requests are over: every part goes. *)
Shutdown ==
  /\ up
  /\ FilesFree /\ \A u \in Ids : pc[u] = "idle"
  /\ Forgotten
  /\ parts' = parts \ UNION {PartsOf(ups[i]) : i \in DOMAIN ups}
  /\ part' = [u \in Ids |-> 0]

(* srv_files_open: hidden files go; a file is known by its .meta, if its
   content is there, of the size it says. *)
Open ==
  /\ ~up
  /\ up' = TRUE
  /\ got' = [u \in Ids |-> None]
  /\ kept' = {f \in meta : content[f] # None /\ Len(content[f]) = bytes[f[1]]}
  /\ UNCHANGED <<ready, ups, status, bytes, part, late, parts, pc, rc, want, tries,
                 content, meta, forgetting, made, deletes, accidents>>

Orders(u) == UNION {{s \in [1 .. n -> PartsOf(u)] : \A i, j \in 1 .. n : s[i] = s[j] => i = j}
                     : n \in 1 .. part[u]}

Next ==
  \/ \E u \in Ids, n \in Sizes :
       Create(u, n) \/ \E k \in DOMAIN ups : CreateEvicting(u, n, k)
  \/ \E u \in Ids : HourPasses(u) \/ TooLate(u) \/ AddPart(u) \/ Cancel(u)
  \/ \E u \in Ids : \E order \in Orders(u) : Complete(u, order)
  \/ \E u \in Ids : JoinRoom(u) \/ JoinPart(u) \/ JoinRename(u) \/ JoinMeta(u)
                    \/ CompleteEnd(u)
  \/ \E f \in Files : Delete(f)
  \/ DeleteContent
  \/ Crash \/ Shutdown \/ Open

Spec == Init /\ [][Next]_vars

-----------------------------------------------------------------------------
(* The types, and the uploads remembered are never more than UPLOADS_KEPT. *)
TypeOK ==
  /\ up \in BOOLEAN /\ ready \in BOOLEAN
  /\ ups \in Seq(Ids) /\ Len(ups) <= UploadsKept
  /\ status \in [Ids -> {"none", "pending", "completed", "cancelled", "expired",
                        "gone"}]
  /\ bytes \in [Ids -> Nat] /\ part \in [Ids -> Nat] /\ late \subseteq Ids
  /\ parts \subseteq Ids \X Nat
  /\ pc \in [Ids -> {"idle", "room", "join", "meta", "end"}]
  /\ rc \in [Ids -> {0, -1, -2, -3}] /\ tries \in [Ids -> 0 .. MaxTries]
  /\ \A u \in Ids : got[u] = None \/ got[u] \in Seq(Ids \X Nat)
  /\ kept \subseteq Files /\ meta \subseteq Files /\ forgetting \in Files \cup {None}

(* The files of parts on disk are those of the uploads that may still need
   them, all of them and no others: an upload that is pending, again after a
   failed join included, can be completed, and nothing of one that is gone,
   evicted in the middle of its join included, is left behind. *)
PartsExact ==
  up /\ ready =>
    parts = UNION {PartsOf(u) : u \in {v \in Ids :
                     In(v) /\ (status[v] = "pending" \/ Joining(v))}}

(* The content is the parts the complete named, in that order and of the size
   announced. *)
Whole(f) == content[f] = made[f] /\ Len(made[f]) = bytes[f[1]]

(* The Files made of an upload. *)
MadeOf(u) == {f \in Files : f[1] = u /\ made[f] # <<>>}

(* An upload becomes one File, and a whole one: what the server lists is what
   the client named, through kills at any step, failures, evictions and other
   completes meanwhile; and once the File is there the upload is never again
   pending, cancelled or expired, so that no second complete begins. *)
FilesRight ==
  /\ \A f \in kept : Whole(f)
  /\ \A u \in Ids : /\ Cardinality(MadeOf(u)) <= 1
                     /\ MadeOf(u) # {} /\ In(u) => status[u] = "completed"
=============================================================================
