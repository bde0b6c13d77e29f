------------------------------ MODULE DocStore ------------------------------
(***************************************************************************)
(* The document store of the server (server/store.c, server/store_disk.c): *)
(* what it keeps for its clients, in memory and, document by document, on  *)
(* disk.                                                                   *)
(*                                                                         *)
(* Every operation holds mu from its first change to its last write, so    *)
(* operations follow one another; a kill falls between any two of their    *)
(* steps on disk.  An operation is therefore an action that changes the    *)
(* memory and says what is left to do on disk, and the steps on disk,      *)
(* before which no other operation starts.                                 *)
(*                                                                         *)
(* The texts of a document are a size and a version, the number of the     *)
(* write that made them.  The list is kept in the order of seq: put links  *)
(* a document with the next seq at the tail, open sorts by it, and the two *)
(* trims walk it from its oldest.                                          *)
(***************************************************************************)
EXTENDS Integers, FiniteSets, FiniteSetsExt

CONSTANTS
  Kinds, Ids,        \* what names a document
  Sizes,             \* the sizes the clients send
  Caps,              \* the caps a server may be started with
  DocMax, StoreMax,  \* SRV_STORE_DOC_MAX, SRV_STORE_MAX
  MaxWrites,         \* bound: puts and updates
  MaxFaults,         \* bound: writes and removals that fail
  MaxCrashes,        \* bound: kills and stops
  None

ASSUME StoreAssumption ==
  /\ Sizes \subseteq Nat /\ Caps \subseteq Nat \ {0}
  /\ DocMax \in Nat /\ StoreMax \in Nat /\ DocMax <= StoreMax
  /\ None \notin [seq : Nat, size : Nat, ver : Nat]
  /\ None \notin Kinds \X Ids

VARIABLES
  up,      \* the server runs
  cap,     \* of each kind
  mem,     \* the list: key -> document, or None
  seq,     \* the last number given
  files,   \* <dir>/<kind>/<id>: key -> document, or None
  tmp,     \* the hidden files beside them
  saving,  \* the key being written, or None
  gone,    \* the keys out of the list that are still to be removed from disk
  before,  \* history: the list when the operation under way began
  dirty,   \* history: keys a write or a removal of which failed
  writes, faults, crashes

vars == <<up, cap, mem, seq, files, tmp, saving, gone, before, dirty, writes,
          faults, crashes>>

Keys == Kinds \X Ids
Docs == [seq : Nat, size : Nat, ver : Nat]
Empty == [k \in Keys |-> None]

Held(m) == {k \in Keys : m[k] # None}
OfKind(m, kind) == {k \in Held(m) : k[1] = kind}
Without(m, K) == [k \in Keys |-> IF k \in K THEN None ELSE m[k]]
Last(m) == Max({0} \cup {m[k].seq : k \in Held(m)})

(* What the documents at K take: their bytes, each a key and a place in it. *)
Bytes(m, K) == Cardinality(UNION {{k} \X (1 .. m[k].size) : k \in K})

(* k itself and what comes after it in the list. *)
From(m, K, k) == {j \in K : m[j].seq >= m[k].seq}

(* trim: the documents of the kind with a whole cap of newer ones of it. *)
KindVictims(m, kind, c) ==
  {k \in OfKind(m, kind) : Cardinality(From(m, OfKind(m, kind), k)) > c}

(* trim_bytes: oldest first and never keep, while what is left, keep among
   it, is too much. *)
ByteVictims(m, keep) ==
  {k \in Held(m) \ {keep} :
     Bytes(m, From(m, Held(m), k) \cup ({keep} \cap Held(m))) > StoreMax}

TrimBytes(m, keep) == Without(m, ByteVictims(m, keep))
Trim(m, kind, c) == Without(m, KindVictims(m, kind, c))

(* open: every kind to the cap, then all of them to the bytes. *)
TrimAll(m, c) ==
  TrimBytes(Without(m, UNION {KindVictims(m, kind, c) : kind \in Kinds}), None)

Busy == saving # None \/ gone # {}

-----------------------------------------------------------------------------
Init ==
  /\ up = FALSE /\ cap \in Caps
  /\ mem = Empty /\ seq = 0
  /\ files = Empty /\ tmp = {}
  /\ saving = None /\ gone = {}
  /\ before = Empty /\ dirty = {}
  /\ writes = 0 /\ faults = 0 /\ crashes = 0

(* An operation takes mu: the list becomes m, the document at k is to be
   written (None: no document is) and what left the list by eviction or
   deletion is to be removed. *)
Begin(k, out, m) ==
  /\ up /\ ~Busy
  /\ before' = mem
  /\ mem' = m
  /\ saving' = k
  /\ gone' = {j \in Keys : out[j] # None /\ m[j] = None}

(* srv_store_put: the old one of the id out, the new one last. *)
Put(k, size) ==
  LET put == [mem EXCEPT ![k] = [seq |-> seq + 1, size |-> size, ver |-> writes + 1]]
  IN /\ writes < MaxWrites
     /\ size <= DocMax
     /\ Begin(k, put, TrimBytes(Trim(put, k[1], cap), k))
     /\ seq' = seq + 1
     /\ writes' = writes + 1
     /\ UNCHANGED <<up, cap, files, tmp, dirty, faults, crashes>>

(* Mutant: room is not made for a document that grows. *)
Update_NoTrim(k, size) ==
  LET put == [mem EXCEPT ![k] = [mem[k] EXCEPT !.size = size, !.ver = writes + 1]]
  IN /\ writes < MaxWrites
     /\ mem[k] # None
     /\ size <= DocMax
     /\ Begin(k, put, put)
     /\ writes' = writes + 1
     /\ UNCHANGED <<up, cap, seq, files, tmp, dirty, faults, crashes>>

(* srv_store_update: in its place, with its number. *)
Update(k, size) ==
  LET put == [mem EXCEPT ![k] = [mem[k] EXCEPT !.size = size, !.ver = writes + 1]]
  IN /\ writes < MaxWrites
     /\ mem[k] # None
     /\ size <= DocMax
     /\ Begin(k, put, TrimBytes(put, k))
     /\ writes' = writes + 1
     /\ UNCHANGED <<up, cap, seq, files, tmp, dirty, faults, crashes>>

(* srv_store_del *)
Delete(k) ==
  /\ mem[k] # None
  /\ Begin(None, mem, Without(mem, {k}))
  /\ UNCHANGED <<up, cap, seq, files, tmp, dirty, writes, faults, crashes>>

-----------------------------------------------------------------------------
(* Mutant: the document itself is opened and filled. *)
WriteTmp_InPlace ==
  /\ saving # None /\ saving \notin tmp
  /\ tmp' = tmp \cup {saving}
  /\ files' = [files EXCEPT ![saving] = None]
  /\ UNCHANGED <<up, cap, mem, seq, saving, gone, before, dirty, writes,
                 faults, crashes>>

(* srv_disk_write, first half: the hidden file is opened and filled. *)
WriteTmp ==
  /\ saving # None /\ saving \notin tmp
  /\ tmp' = tmp \cup {saving}
  /\ UNCHANGED <<up, cap, mem, seq, files, saving, gone, before, dirty, writes,
                 faults, crashes>>

(* Second half: renamed over the document. *)
Rename ==
  /\ saving \in tmp
  /\ files' = [files EXCEPT ![saving] = mem[saving]]
  /\ tmp' = tmp \ {saving}
  /\ dirty' = dirty \ {saving}
  /\ saving' = None
  /\ UNCHANGED <<up, cap, mem, seq, gone, before, writes, faults, crashes>>

(* The hidden file cannot be made, filled or renamed: it is removed, and the
   document is kept in memory only. *)
WriteFails ==
  /\ saving # None
  /\ faults < MaxFaults
  /\ faults' = faults + 1
  /\ tmp' = tmp \ {saving}
  /\ dirty' = dirty \cup {saving}
  /\ saving' = None
  /\ UNCHANGED <<up, cap, mem, seq, files, gone, before, writes, crashes>>

(* unsave, after the write of the operation: the file goes.  (In any order
   here, oldest first in the code.) *)
Unsave(k) ==
  /\ saving = None
  /\ k \in gone
  /\ files' = [files EXCEPT ![k] = None]
  /\ gone' = gone \ {k}
  /\ dirty' = dirty \ {k}
  /\ UNCHANGED <<up, cap, mem, seq, tmp, saving, before, writes, faults, crashes>>

(* unlink fails, which nobody looks at. *)
UnsaveFails(k) ==
  /\ saving = None
  /\ k \in gone
  /\ files[k] # None
  /\ faults < MaxFaults
  /\ faults' = faults + 1
  /\ gone' = gone \ {k}
  /\ dirty' = dirty \cup {k}
  /\ UNCHANGED <<up, cap, mem, seq, files, tmp, saving, before, writes, crashes>>

-----------------------------------------------------------------------------
(* The server stops, or is killed at any step: the memory is gone. *)
Crash ==
  /\ up
  /\ crashes < MaxCrashes
  /\ crashes' = crashes + 1
  /\ up' = FALSE
  /\ mem' = Empty /\ before' = Empty
  /\ seq' = 0
  /\ saving' = None /\ gone' = {}
  /\ UNCHANGED <<cap, files, tmp, dirty, writes, faults>>

(* Mutant: numbers start again at the count of the documents. *)
Open_CountsAgain(c) ==
  /\ ~up
  /\ up' = TRUE
  /\ cap' = c
  /\ tmp' = {}
  /\ seq' = Cardinality(Held(files))
  /\ mem' = TrimAll(files, c)
  /\ before' = files
  /\ gone' = Held(files) \ Held(TrimAll(files, c))
  /\ dirty' = {}
  /\ UNCHANGED <<files, saving, writes, faults, crashes>>

(* srv_store_open: what is on disk read back in the order it was made in, the
   numbers going on from the last, and trimmed to a cap that may have changed. *)
Open(c) ==
  /\ ~up
  /\ up' = TRUE
  /\ cap' = c
  /\ tmp' = {}
  /\ seq' = Last(files)
  /\ mem' = TrimAll(files, c)
  /\ before' = files
  /\ gone' = Held(files) \ Held(TrimAll(files, c))
  /\ dirty' = {}
  /\ UNCHANGED <<files, saving, writes, faults, crashes>>

Next ==
  \/ \E k \in Keys, size \in Sizes : Put(k, size) \/ Update(k, size)
  \/ \E k \in Keys : Delete(k) \/ Unsave(k) \/ UnsaveFails(k)
  \/ WriteTmp \/ Rename \/ WriteFails
  \/ Crash
  \/ \E c \in Caps : Open(c)

Spec == Init /\ [][Next]_vars

-----------------------------------------------------------------------------
(* The types; what is being written is in the list; and the list is within
   its two limits, whatever grew, and whichever cap the server was started
   with. *)
TypeOK ==
  /\ up \in BOOLEAN /\ cap \in Caps /\ seq \in Nat
  /\ mem \in [Keys -> Docs \cup {None}] /\ files \in [Keys -> Docs \cup {None}]
  /\ before \in [Keys -> Docs \cup {None}]
  /\ tmp \subseteq Keys /\ gone \subseteq Keys /\ dirty \subseteq Keys
  /\ saving \in Keys \cup {None}
  /\ saving # None => mem[saving] # None
  /\ writes \in Nat /\ faults \in Nat /\ crashes \in Nat
  /\ \A kind \in Kinds : Cardinality(OfKind(mem, kind)) <= cap
  /\ Bytes(mem, Held(mem)) <= StoreMax

(* The numbers are an order, in the list and on disk, through stops, kills and
   failed writes: no two documents share one and none is past the last given.
   It is what makes "the order it was made in, across restarts" (struct entry)
   and the choice of the oldest mean something. *)
Distinct(m) == \A j, k \in Held(m) : j # k => m[j].seq # m[k].seq
Below(m) == \A k \in Held(m) : m[k].seq <= seq
SeqOrder ==
  /\ Distinct(mem) /\ Distinct(files)
  /\ Below(mem) /\ (up => Below(files))

(* What a client was told is what a restart finds.  Between operations the
   files are the list, but for the keys a write or a removal of failed on.
   Killed at any step of an operation, with no such failure before, the server
   leaves each document as it was before the operation or as it is after, and
   the restart keeps every one that the operation leaves alone.  (The document
   of an update that needs room can itself go: trim_bytes keeps it, the trim of
   the restart does not know of it.) *)
Durable ==
  LET found == TrimAll(files, cap)
  IN up =>
       /\ ~Busy => \A k \in Keys \ dirty : files[k] = mem[k]
       /\ dirty = {} =>
            /\ \A k \in Keys : before[k] # None /\ before[k] = mem[k]
                               => found[k] = mem[k]
            /\ \A k \in Keys : files[k] \in {before[k], mem[k]}
=============================================================================
