---------------------------- MODULE UploadsProofs ---------------------------
(***************************************************************************)
(* Proofs about Uploads, for any number of uploads, sizes, completes,      *)
(* failures and kills: the parts on disk are those that are needed, and an *)
(* upload becomes one File, of the parts its complete named.               *)
(***************************************************************************)
EXTENDS Uploads, SequenceTheorems, FiniteSetTheorems, TLAPS

Parts == Ids \X Nat

(* The types TypeOK leaves out: what complete has named, joined and made. *)
Shape ==
  /\ want \in [Ids -> Seq(Parts)] /\ made \in [Files -> Seq(Parts)]
  /\ got \in [Ids -> Seq(Parts) \cup {None}]
  /\ content \in [Files -> Seq(Parts) \cup {None}]

(* The table: an upload is in it once, from its create until it is evicted or
   the server ends. *)
TableInv ==
  /\ \A i, j \in 1 .. Len(ups) : ups[i] = ups[j] => i = j
  /\ \A u \in Ids : In(u) <=> status[u] \notin {"none", "gone"}
  /\ (ups # <<>> => up /\ ready) /\ (ready => up)

(* The parts the uploads have. *)
Needed == {p \in Parts : p[2] \in 1 .. part[p[1]]}

(* An upload has parts only while it may need them, and they are all there. *)
PartInv ==
  /\ \A u \in Ids : part[u] # 0 => In(u) /\ (status[u] = "pending" \/ Joining(u))
  /\ up /\ ready => parts = Needed

(* A join: of an upload marked completed, or evicted since; what it has joined
   is the beginning of what was named. *)
Marked(u) ==
  Joining(u) => /\ up /\ status[u] \in {"completed", "gone"}
                /\ tries[u] > 0 /\ want[u] # <<>>
Begun(u) ==
  pc[u] = "join" => /\ got[u] # None /\ Len(got[u]) <= Len(want[u])
                    /\ \A i \in 1 .. Len(got[u]) : got[u][i] = want[u][i]
Renamed(u) ==
  pc[u] = "meta" => content[File(u)] = want[u] /\ Len(want[u]) = bytes[u]

JoinInv ==
  /\ \A u \in Ids : Marked(u) /\ Begun(u) /\ Renamed(u)
  /\ forgetting # None => \A u \in Ids : pc[u] # "meta"

(* The complete under way, or the one to come, is the first to make a File. *)
Unmade(u) == \A f \in Files : f[1] = u => made[f] = <<>>

FileInv ==
  /\ \A u \in Ids : status[u] = "none" => tries[u] = 0
  /\ \A f \in Files : f[2] > tries[f[1]] \/ (Joining(f[1]) /\ pc[f[1]] # "end" /\ f = File(f[1]))
       => f \notin meta /\ made[f] = <<>>
  /\ \A u \in Ids :
       \/ status[u] \in {"none", "pending", "cancelled", "expired"}
       \/ pc[u] \in {"room", "join", "meta"}
       \/ pc[u] = "end" /\ rc[u] # 0
       => Unmade(u)
  /\ \A f, g \in Files : f[1] = g[1] /\ made[f] # <<>> /\ made[g] # <<>> => f = g
  /\ kept \subseteq meta /\ (forgetting # None => forgetting \notin meta)
  /\ \A f \in meta : content[f] = None \/ Whole(f)
  /\ \A f \in kept : content[f] # None

IInv == TypeOK /\ Shape /\ TableInv /\ PartInv /\ JoinInv /\ FileInv

-----------------------------------------------------------------------------
(* The table as a sequence: an upload is in it, and once. *)
Listed(q, u) == \E i \in 1 .. Len(q) : q[i] = u
Once(q) == \A i, j \in 1 .. Len(q) : q[i] = q[j] => i = j

LEMMA Added ==
  ASSUME NEW q \in Seq(Ids), Once(q), NEW u \in Ids, ~Listed(q, u), NEW r, r = Append(q, u)
  PROVE  /\ r \in Seq(Ids) /\ Len(r) = Len(q) + 1 /\ Once(r)
         /\ \A v \in Ids : Listed(r, v) <=> Listed(q, v) \/ v = u
  <1>1. /\ r \in Seq(Ids) /\ Len(r) = Len(q) + 1 /\ r[Len(q) + 1] = u /\ Len(q) \in Nat
        /\ \A i \in 1 .. Len(q) : r[i] = q[i]
    BY AppendProperties, LenProperties
  <1>2. \A i \in 1 .. Len(r) : i \in 1 .. Len(q) \/ i = Len(q) + 1
    BY <1>1
  <1>3. Once(r)
    BY <1>1, <1>2 DEF Once, Listed
  <1>4. ASSUME NEW v \in Ids
        PROVE  Listed(r, v) <=> Listed(q, v) \/ v = u
    <2>1. Listed(r, v) => Listed(q, v) \/ v = u
      BY <1>1, <1>2 DEF Listed
    <2>2. Listed(q, v) => Listed(r, v)
      <3>1. \A i \in 1 .. Len(q) : i \in 1 .. Len(r)
        BY <1>1
      <3> QED
        BY <1>1, <3>1 DEF Listed
    <2>3. Listed(r, u)
      <3>1. Len(q) + 1 \in 1 .. Len(r)
        BY <1>1
      <3> QED
        BY <1>1, <3>1 DEF Listed
    <2> QED
      BY <2>1, <2>2, <2>3
  <1> QED
    BY <1>1, <1>3, <1>4

LEMMA Taken ==
  ASSUME NEW q \in Seq(Ids), NEW k \in 1 .. Len(q), NEW r, r = RemoveAt(q, k)
  PROVE  /\ r \in Seq(Ids) /\ Len(r) = Len(q) - 1 /\ Len(q) \in Nat
         /\ \A i \in 1 .. (Len(q) - 1) : r[i] = q[IF i < k THEN i ELSE i + 1]
  <1> DEFINE a == SubSeq(q, 1, k - 1)
             z == SubSeq(q, k + 1, Len(q))
  <1>1. Len(q) \in Nat /\ k \in Nat /\ 1 <= k /\ k <= Len(q)
    BY LenProperties
  <1>2. a \in Seq(Ids) /\ Len(a) = k - 1 /\ \A i \in 1 .. (k - 1) : a[i] = q[i]
    BY <1>1
  <1>3. /\ z \in Seq(Ids) /\ Len(z) = Len(q) - k
        /\ \A i \in 1 .. (Len(q) - k) : z[i] = q[k + i]
    BY <1>1
  <1>4. r = a \o z
    BY DEF RemoveAt
  <1> HIDE DEF a, z
  <1>5. /\ r \in Seq(Ids) /\ Len(r) = Len(a) + Len(z)
        /\ \A i \in 1 .. Len(a) + Len(z) : r[i] = IF i <= Len(a) THEN a[i] ELSE z[i - Len(a)]
    <2>1. a \in Seq(Ids) /\ z \in Seq(Ids)
      BY <1>2, <1>3
    <2>2. /\ a \o z \in Seq(Ids) /\ Len(a \o z) = Len(a) + Len(z)
          /\ \A i \in 1 .. Len(a) + Len(z) : (a \o z)[i] = IF i <= Len(a) THEN a[i] ELSE z[i - Len(a)]
      BY <2>1, ConcatProperties
    <2> QED
      BY <1>4, <2>2
  <1>6. Len(r) = Len(q) - 1
    BY <1>1, <1>2, <1>3, <1>5
  <1>7. ASSUME NEW i \in 1 .. (Len(q) - 1)
        PROVE  r[i] = q[IF i < k THEN i ELSE i + 1]
    <2>1. r[i] = IF i <= k - 1 THEN a[i] ELSE z[i - (k - 1)]
      BY <1>1, <1>2, <1>3, <1>5
    <2>2. CASE i < k
      BY <1>1, <1>2, <2>1, <2>2
    <2>3. CASE ~(i < k)
      <3>1. i - (k - 1) \in 1 .. (Len(q) - k) /\ k + (i - (k - 1)) = i + 1 /\ ~(i <= k - 1)
        BY <1>1, <2>3
      <3>2. z[i - (k - 1)] = q[k + (i - (k - 1))]
        BY <1>3, <3>1
      <3> QED
        BY <2>1, <2>3, <3>1, <3>2
    <2> QED
      BY <2>2, <2>3
  <1> QED
    BY <1>1, <1>5, <1>6, <1>7

LEMMA Removed ==
  ASSUME NEW q \in Seq(Ids), Once(q), NEW k \in 1 .. Len(q), NEW r, r = RemoveAt(q, k)
  PROVE  /\ r \in Seq(Ids) /\ Len(r) = Len(q) - 1 /\ Once(r)
         /\ \A v \in Ids : Listed(r, v) <=> Listed(q, v) /\ v # q[k]
  <1>1. /\ r \in Seq(Ids) /\ Len(r) = Len(q) - 1 /\ Len(q) \in Nat
        /\ \A i \in 1 .. (Len(q) - 1) : r[i] = q[IF i < k THEN i ELSE i + 1]
    BY Taken
  <1> DEFINE At(i) == IF i < k THEN i ELSE i + 1
  <1>2. \A i \in 1 .. Len(r) : r[i] = q[At(i)] /\ At(i) \in 1 .. Len(q) /\ At(i) # k
    BY <1>1
  <1>3. \A i, j \in 1 .. Len(r) : At(i) = At(j) => i = j
    BY <1>1
  <1>4. \A i \in 1 .. Len(q) : i # k => \E j \in 1 .. Len(r) : At(j) = i
    <2> SUFFICES ASSUME NEW i \in 1 .. Len(q), i # k
                 PROVE  \E j \in 1 .. Len(r) : At(j) = i
      OBVIOUS
    <2>1. CASE i < k
      <3>1. i \in 1 .. Len(r) /\ At(i) = i
        BY <1>1, <2>1
      <3> QED
        BY <3>1
    <2>2. CASE i > k
      <3>1. i - 1 \in 1 .. Len(r) /\ At(i - 1) = i
        BY <1>1, <2>2
      <3> QED
        BY <3>1
    <2> QED
      BY <2>1, <2>2
  <1> HIDE DEF At
  <1>5. Once(r)
    BY <1>2, <1>3 DEF Once
  <1>6. \A v \in Ids : Listed(r, v) <=> Listed(q, v) /\ v # q[k]
    <2>1. ASSUME NEW v \in Ids, Listed(r, v)
          PROVE  Listed(q, v) /\ v # q[k]
      <3>1. PICK i \in 1 .. Len(r) : r[i] = v
        BY <2>1 DEF Listed
      <3>2. q[At(i)] = v /\ At(i) \in 1 .. Len(q) /\ At(i) # k
        BY <1>2, <3>1
      <3> QED
        BY <3>2 DEF Once, Listed
    <2>2. ASSUME NEW v \in Ids, Listed(q, v), v # q[k]
          PROVE  Listed(r, v)
      <3>1. PICK i \in 1 .. Len(q) : q[i] = v
        BY <2>2 DEF Listed
      <3>2. PICK j \in 1 .. Len(r) : At(j) = i
        BY <1>4, <2>2, <3>1
      <3> QED
        BY <1>2, <3>1, <3>2 DEF Listed
    <2> QED
      BY <2>1, <2>2
  <1> QED
    BY <1>1, <1>5, <1>6

-----------------------------------------------------------------------------
LEMMA Types ==
  ASSUME IInv
  PROVE  /\ ups \in Seq(Ids) /\ DOMAIN ups = 1 .. Len(ups) /\ Len(ups) \in Nat
         /\ status \in [Ids -> {"none", "pending", "completed", "cancelled", "expired", "gone"}]
         /\ bytes \in [Ids -> Nat] /\ part \in [Ids -> Nat] /\ parts \subseteq Parts
         /\ pc \in [Ids -> {"idle", "room", "join", "meta", "end"}]
         /\ rc \in [Ids -> {0, -1, -2, -3}] /\ tries \in [Ids -> 0 .. MaxTries]
         /\ Shape /\ MaxTries \in Nat /\ None \notin Seq(Parts) /\ UploadsKept \in Nat
         /\ \A u \in Ids : In(u) <=> Listed(ups, u)
  <1>1. /\ ups \in Seq(Ids) /\ DOMAIN ups = 1 .. Len(ups) /\ Len(ups) \in Nat
    BY LenProperties DEF IInv, TypeOK
  <1>2. \A u \in Ids : In(u) <=> Listed(ups, u)
    BY <1>1 DEF In, Listed
  <1> QED
    BY <1>1, <1>2, UploadsAssumption DEF IInv, TypeOK, Parts

LEMMA FileOf ==
  ASSUME NEW f \in Files
  PROVE  f[1] \in Ids /\ f[2] \in 1 .. MaxTries /\ f = <<f[1], f[2]>>
  BY DEF Files

(* The parts of one upload. *)
LEMMA PartsAre ==
  ASSUME IInv, NEW u \in Ids
  PROVE  PartsOf(u) = {p \in Parts : p[1] = u /\ p[2] \in 1 .. part[u]}
  <1>1. part[u] \in Nat
    BY Types
  <1> QED
    BY <1>1 DEF PartsOf, Parts

LEMMA Dropped ==
  ASSUME IInv, NEW u \in Ids, NEW P \in SUBSET Parts, P = parts \/ P = {},
         P = Needed, parts' = P \ PartsOf(u), part' = [part EXCEPT ![u] = 0]
  PROVE  /\ part' \in [Ids -> Nat] /\ parts' \subseteq Parts /\ parts' = Needed'
         /\ part'[u] = 0 /\ \A v \in Ids : v # u => part'[v] = part[v]
  <1>1. part \in [Ids -> Nat]
    BY Types
  <1>2. part' \in [Ids -> Nat] /\ part'[u] = 0 /\ \A v \in Ids : v # u => part'[v] = part[v]
    BY <1>1
  <1>3. PartsOf(u) = {p \in Parts : p[1] = u /\ p[2] \in 1 .. part[u]}
    BY PartsAre
  <1>4. ASSUME NEW p \in Parts
        PROVE  p \in parts' <=> p[2] \in 1 .. part'[p[1]]
    <2>1. p[1] \in Ids /\ p[2] \in Nat
      BY DEF Parts
    <2>2. CASE p[1] = u
      BY <1>2, <1>3, <2>1, <2>2 DEF Needed
    <2>3. CASE p[1] # u
      BY <1>2, <1>3, <2>1, <2>3 DEF Needed
    <2> QED
      BY <2>2, <2>3
  <1>5. parts' = Needed'
    BY <1>4 DEF Needed
  <1> QED
    BY <1>2, <1>5


-----------------------------------------------------------------------------
(* The requests on a pending upload that end it or give it a part, and its
   hour: no File and no join is touched. *)
LEMMA HeldInv ==
  ASSUME IInv, UNCHANGED <<up, ready, ups, bytes, joinVars, fileVars>>, late' \subseteq Ids,
         status' \in [Ids -> {"none", "pending", "completed", "cancelled", "expired", "gone"}],
         \A v \in Ids : \/ status'[v] = status[v]
                        \/ status[v] = "pending" /\ status'[v] \in {"cancelled", "expired"},
         part' \in [Ids -> Nat], parts' \subseteq Parts, PartInv'
  PROVE  IInv'
  <1>1. UNCHANGED <<up, ready, ups, bytes, pc, rc, want, got, tries, kept, content, meta,
                    forgetting, made>>
    BY DEF joinVars, fileVars
  <1>2. status \in [Ids -> {"none", "pending", "completed", "cancelled", "expired", "gone"}]
    BY Types
  <1>3. TypeOK'
    BY <1>1 DEF IInv, TypeOK, Files, Parts
  <1>4. Shape'
    BY <1>1 DEF IInv, Shape, Files
  <1>5. TableInv'
    BY <1>1, <1>2 DEF IInv, TableInv, In
  <1>6. JoinInv'
    BY <1>1, <1>2 DEF IInv, JoinInv, Joining, File, Marked, Begun, Renamed
  <1>7. FileInv'
    BY <1>1, <1>2 DEF IInv, FileInv, Joining, File, Unmade, Whole, Files
  <1> QED
    BY <1>3, <1>4, <1>5, <1>6, <1>7 DEF IInv

LEMMA HourStep ==
  ASSUME IInv, NEW u \in Ids, HourPasses(u)
  PROVE  IInv'
  <1>1. /\ UNCHANGED <<up, ready, ups, status, bytes, part, parts, joinVars, fileVars>>
        /\ late' = late \cup {u}
    BY DEF HourPasses
  <1>2. late' \subseteq Ids
    BY <1>1 DEF IInv, TypeOK
  <1>3. PartInv'
    BY <1>1 DEF IInv, PartInv, Needed, In, Joining, joinVars
  <1> QED
    BY <1>1, <1>2, <1>3, HeldInv, Types

(* An upload is over, and its parts go. *)
LEMMA OverStep ==
  ASSUME IInv, NEW u \in Ids, TooLate(u) \/ Cancel(u)
  PROVE  IInv'
  <1>1. PICK s \in {"cancelled", "expired"} : status' = [status EXCEPT ![u] = s]
    BY DEF TooLate, Cancel
  <1>2. /\ UNCHANGED <<up, ready, ups, bytes, late, joinVars, fileVars>>
        /\ up /\ In(u) /\ status[u] = "pending" /\ DropParts(u)
    BY DEF TooLate, Cancel, Live, Aged
  <1>3. UNCHANGED <<up, ready, ups, pc>>
    BY <1>2 DEF joinVars
  <1>4. up /\ ready
    <2>1. ups # <<>>
      BY <1>2, Types DEF In
    <2> QED
      BY <2>1 DEF IInv, TableInv
  <1>5. parts \in SUBSET Parts /\ parts = Needed
    BY <1>4, Types DEF IInv, PartInv
  <1>6. /\ part' \in [Ids -> Nat] /\ parts' \subseteq Parts /\ parts' = Needed'
        /\ part'[u] = 0 /\ \A v \in Ids : v # u => part'[v] = part[v]
    BY <1>2, <1>5, Dropped DEF DropParts
  <1>7. /\ status' \in [Ids -> {"none", "pending", "completed", "cancelled", "expired", "gone"}]
        /\ status'[u] = s /\ \A v \in Ids : v # u => status'[v] = status[v]
    BY <1>1, Types
  <1>8. PartInv'
    BY <1>3, <1>6, <1>7 DEF IInv, PartInv, In, Joining
  <1>9. late' \subseteq Ids
    BY <1>2 DEF IInv, TypeOK
  <1> QED
    BY <1>2, <1>6, <1>7, <1>8, <1>9, HeldInv

LEMMA AddStep ==
  ASSUME IInv, NEW u \in Ids, AddPart(u)
  PROVE  IInv'
  <1>1. /\ UNCHANGED <<up, ready, ups, status, bytes, late, joinVars, fileVars>>
        /\ In(u) /\ status[u] = "pending"
        /\ part' = [part EXCEPT ![u] = part[u] + 1] /\ parts' = parts \cup {<<u, part[u] + 1>>}
    BY DEF AddPart, Live
  <1>2. UNCHANGED <<up, ready, ups, status, pc>>
    BY <1>1 DEF joinVars
  <1>3. part \in [Ids -> Nat] /\ part[u] \in Nat /\ parts \subseteq Parts
    BY Types
  <1>4. /\ part' \in [Ids -> Nat] /\ part'[u] = part[u] + 1
        /\ \A v \in Ids : v # u => part'[v] = part[v]
    BY <1>1, <1>3
  <1>5. parts' \subseteq Parts
    BY <1>1, <1>3 DEF Parts
  <1>6. up /\ ready => parts' = Needed'
    <2>1. SUFFICES ASSUME parts = Needed, NEW p \in Parts
                   PROVE  p \in parts' <=> p[2] \in 1 .. part'[p[1]]
      BY <1>2, <1>5 DEF IInv, PartInv, Needed
    <2>2. p[1] \in Ids /\ p[2] \in Nat /\ p = <<p[1], p[2]>>
      BY DEF Parts
    <2>3. CASE p[1] = u
      <3>1. p \in parts' <=> p[2] \in 1 .. part[u] \/ p[2] = part[u] + 1
        BY <1>1, <2>1, <2>2, <2>3 DEF Needed
      <3> QED
        BY <1>3, <1>4, <2>2, <2>3, <3>1
    <2>4. CASE p[1] # u
      BY <1>1, <1>4, <2>1, <2>2, <2>4 DEF Needed
    <2> QED
      BY <2>3, <2>4
  <1>7. PartInv'
    <2>1. \A v \in Ids : part'[v] # 0 => In(v) /\ (status[v] = "pending" \/ Joining(v))
      BY <1>1, <1>4 DEF IInv, PartInv
    <2> QED
      BY <1>2, <1>6, <2>1 DEF PartInv, In, Joining
  <1>8. late' \subseteq Ids
    BY <1>1 DEF IInv, TypeOK
  <1> QED
    BY <1>1, <1>4, <1>5, <1>7, <1>8, HeldInv, Types

-----------------------------------------------------------------------------
(* An upload u made, those of E making room for it. *)
LEMMA MadeRoom ==
  ASSUME IInv, NEW u \in Ids, NEW n \in Nat, NEW E \in SUBSET Ids, u \notin E,
         up, status[u] = "none", ready' = TRUE, bytes' = [bytes EXCEPT ![u] = n],
         UNCHANGED <<up, joinVars, fileVars>>, late' \subseteq Ids,
         ups' \in Seq(Ids), Len(ups') <= UploadsKept, Once(ups'),
         \A v \in Ids : Listed(ups', v) <=> (Listed(ups, v) /\ v \notin E) \/ v = u,
         status' \in [Ids -> {"none", "pending", "completed", "cancelled", "expired", "gone"}],
         status'[u] = "pending", \A v \in E : status'[v] = "gone",
         \A v \in Ids : v # u /\ v \notin E => status'[v] = status[v],
         part' \in [Ids -> Nat], \A v \in E : part'[v] = 0,
         \A v \in Ids : v \notin E => part'[v] = part[v],
         parts' \subseteq Parts, parts' = Needed'
  PROVE  IInv'
  <1>1. UNCHANGED <<up, pc, rc, want, got, tries, kept, content, meta, forgetting, made>>
    BY DEF joinVars, fileVars
  <1>2. /\ bytes' \in [Ids -> Nat] /\ bytes'[u] = n
        /\ \A v \in Ids : v # u => bytes'[v] = bytes[v]
    BY Types
  <1>3. /\ status \in [Ids -> {"none", "pending", "completed", "cancelled", "expired", "gone"}]
        /\ tries \in [Ids -> 0 .. MaxTries] /\ MaxTries \in Nat
        /\ part \in [Ids -> Nat] /\ \A v \in Ids : In(v) <=> Listed(ups, v)
    BY Types
  <1>4. \A v \in Ids : In(v)' <=> Listed(ups', v)
    BY LenProperties DEF In, Listed
  <1>5. /\ ~Joining(u) /\ tries[u] = 0 /\ part[u] = 0 /\ Unmade(u) /\ ~In(u)
    BY <1>3 DEF IInv, TableInv, PartInv, JoinInv, FileInv, Marked
  <1>6. TypeOK'
    BY <1>1, <1>2 DEF IInv, TypeOK, Files, Parts
  <1>7. Shape'
    BY <1>1 DEF IInv, Shape, Files
  <1>8. TableInv'
    <2>1. \A v \in Ids : In(v)' <=> status'[v] \notin {"none", "gone"}
      BY <1>3, <1>4 DEF IInv, TableInv
    <2>2. up' /\ ready'
      BY <1>1
    <2> QED
      BY <2>1, <2>2 DEF TableInv, Once
  <1>9. PartInv'
    <2>1. ASSUME NEW v \in Ids, part'[v] # 0
          PROVE  In(v)' /\ (status'[v] = "pending" \/ Joining(v))
      <3>1. v \notin E /\ v # u /\ part[v] # 0
        BY <1>5, <2>1
      <3>2. In(v) /\ (status[v] = "pending" \/ Joining(v))
        BY <3>1 DEF IInv, PartInv
      <3> QED
        BY <1>3, <1>4, <3>1, <3>2
    <2> QED
      BY <1>1, <2>1 DEF PartInv, Joining
  <1>10. JoinInv'
    <2>1. \A v \in Ids : Joining(v) => v # u /\ status'[v] \in {"completed", "gone"}
      BY <1>5 DEF IInv, JoinInv, Marked
    <2>2. ASSUME NEW v \in Ids
          PROVE  Marked(v)' /\ Begun(v)' /\ Renamed(v)'
      <3>1. Marked(v) /\ Begun(v) /\ Renamed(v)
        BY DEF IInv, JoinInv
      <3>2. Marked(v)'
        BY <1>1, <2>1, <3>1 DEF Marked, Joining
      <3>3. Begun(v)'
        BY <1>1, <3>1 DEF Begun
      <3>4. Renamed(v)'
        BY <1>1, <1>2, <2>1, <3>1 DEF Renamed, Joining, File
      <3> QED
        BY <3>2, <3>3, <3>4
    <2> QED
      BY <1>1, <2>2 DEF IInv, JoinInv
  <1>11. FileInv'
    <2>1. \A v \in Ids : status'[v] \in {"none", "cancelled", "expired"} => status'[v] = status[v]
      BY <1>3
    <2>2. \A v \in Ids : status'[v] = "pending" => status[v] \in {"none", "pending"}
      BY <1>3
    <2>3. \A f \in meta : f \in Files /\ f[1] # u
      <3>1. \A f \in meta : f \in Files
        BY DEF IInv, TypeOK
      <3>2. \A f \in Files : f[1] = u => f[2] > tries[f[1]]
        BY <1>3, <1>5, FileOf
      <3> QED
        BY <3>1, <3>2 DEF IInv, FileInv
    <2>4. \A f \in meta : content[f] = None \/ Whole(f)'
      BY <1>1, <1>2, <2>3, FileOf DEF IInv, FileInv, Whole
    <2>5. \A v \in Ids : Unmade(v)' <=> Unmade(v)
      BY <1>1 DEF Unmade, Files
    <2>6. \A v \in Ids : File(v)' = File(v) /\ (Joining(v)' <=> Joining(v))
      BY <1>1 DEF File, Joining
    <2>7. \A v \in Ids : status'[v] \in {"none", "pending", "cancelled", "expired"} => Unmade(v)
      BY <2>1, <2>2 DEF IInv, FileInv
    <2>8. \A v \in Ids : status'[v] = "none" => tries[v] = 0
      BY <2>1 DEF IInv, FileInv
    <2> QED
      BY <1>1, <2>4, <2>5, <2>6, <2>7, <2>8, FileOf DEF IInv, FileInv, Files
  <1> QED
    BY <1>6, <1>7, <1>8, <1>9, <1>10, <1>11 DEF IInv

(* What ensure_dir leaves is what the uploads have. *)
LEMMA EmptiedIs ==
  ASSUME IInv, up
  PROVE  Emptied = Needed /\ Emptied \subseteq Parts /\ (Emptied = parts \/ Emptied = {})
  <1>1. CASE ready
    BY <1>1, Types DEF IInv, PartInv, Emptied
  <1>2. CASE ~ready
    <2>1. \A v \in Ids : part[v] = 0
      <3>1. ups = <<>>
        BY <1>2 DEF IInv, TableInv
      <3>2. \A v \in Ids : ~In(v)
        BY <3>1 DEF In
      <3> QED
        BY <3>2 DEF IInv, PartInv
    <2>2. Needed = {}
      BY <2>1 DEF Needed, Parts
    <2> QED
      BY <1>2, <2>2 DEF Emptied
  <1> QED
    BY <1>1, <1>2

LEMMA CreateStep ==
  ASSUME IInv, NEW u \in Ids, NEW n \in Sizes, Create(u, n)
  PROVE  IInv'
  <1>1. /\ up /\ status[u] = "none" /\ Len(ups) < UploadsKept /\ ups' = Append(ups, u)
        /\ parts' = Emptied /\ status' = [status EXCEPT ![u] = "pending"]
        /\ UNCHANGED <<part, late>> /\ ready' = TRUE /\ bytes' = [bytes EXCEPT ![u] = n]
        /\ UNCHANGED <<up, joinVars, fileVars>>
    BY DEF Create, Joins
  <1>2. n \in Nat
    BY UploadsAssumption
  <1>3. ~Listed(ups, u) /\ Once(ups) /\ ups \in Seq(Ids) /\ Len(ups) \in Nat /\ UploadsKept \in Nat
    BY <1>1, Types DEF IInv, TableInv, Once
  <1>4. PICK t : t = Append(ups, u)
    OBVIOUS
  <1>5. /\ t \in Seq(Ids) /\ Len(t) = Len(ups) + 1 /\ Once(t)
        /\ \A v \in Ids : Listed(t, v) <=> Listed(ups, v) \/ v = u
    BY <1>3, <1>4, Added
  <1>6. /\ ups' \in Seq(Ids) /\ Len(ups') <= UploadsKept /\ Once(ups')
        /\ \A v \in Ids : Listed(ups', v) <=> (Listed(ups, v) /\ v \notin {}) \/ v = u
    BY <1>1, <1>3, <1>4, <1>5
  <1>7. /\ status' \in [Ids -> {"none", "pending", "completed", "cancelled", "expired", "gone"}]
        /\ status'[u] = "pending" /\ \A v \in Ids : v # u => status'[v] = status[v]
    BY <1>1, Types
  <1>8. parts' \subseteq Parts /\ parts' = Needed' /\ part' \in [Ids -> Nat] /\ part' = part
    BY <1>1, EmptiedIs, Types DEF Needed
  <1>9. late' \subseteq Ids
    BY <1>1 DEF IInv, TypeOK
  <1>10. PICK E : E = {}
    OBVIOUS
  <1>11. /\ E \in SUBSET Ids /\ u \notin E
         /\ \A v \in Ids : Listed(ups', v) <=> (Listed(ups, v) /\ v \notin E) \/ v = u
         /\ \A v \in E : status'[v] = "gone"
         /\ \A v \in Ids : v # u /\ v \notin E => status'[v] = status[v]
         /\ \A v \in E : part'[v] = 0
         /\ \A v \in Ids : v \notin E => part'[v] = part[v]
    BY <1>6, <1>7, <1>8, <1>10
  <1> QED
    BY <1>1, <1>2, <1>6, <1>7, <1>8, <1>9, <1>11, MadeRoom

LEMMA EvictStep ==
  ASSUME IInv, NEW u \in Ids, NEW n \in Sizes, NEW k \in DOMAIN ups, CreateEvicting(u, n, k)
  PROVE  IInv'
  <1>1. PICK e : e = ups[k]
    OBVIOUS
  <1>2. /\ up /\ status[u] = "none" /\ Len(ups) = UploadsKept
        /\ ups' = Append(RemoveAt(ups, k), u)
        /\ parts' = Emptied \ PartsOf(e) /\ part' = [part EXCEPT ![e] = 0]
        /\ status' = [status EXCEPT ![u] = "pending", ![e] = "gone"]
        /\ late' = late \ {e} /\ ready' = TRUE /\ bytes' = [bytes EXCEPT ![u] = n]
        /\ UNCHANGED <<up, joinVars, fileVars>>
    BY <1>1 DEF CreateEvicting, Joins
  <1>3. n \in Nat
    BY UploadsAssumption
  <1>4. /\ ~Listed(ups, u) /\ Once(ups) /\ ups \in Seq(Ids) /\ Len(ups) \in Nat
        /\ UploadsKept \in Nat /\ k \in 1 .. Len(ups)
    BY <1>2, Types DEF IInv, TableInv, Once
  <1>5. e \in Ids /\ e # u
    BY <1>1, <1>4 DEF Listed
  <1>6. PICK q : q = RemoveAt(ups, k)
    OBVIOUS
  <1>7. /\ q \in Seq(Ids) /\ Len(q) = Len(ups) - 1 /\ Once(q)
        /\ \A v \in Ids : Listed(q, v) <=> Listed(ups, v) /\ v # e
    BY <1>1, <1>4, <1>6, Removed
  <1>8. PICK t : t = Append(q, u)
    OBVIOUS
  <1>9. /\ t \in Seq(Ids) /\ Len(t) = Len(q) + 1 /\ Once(t)
        /\ \A v \in Ids : Listed(t, v) <=> Listed(q, v) \/ v = u
    BY <1>4, <1>7, <1>8, Added
  <1>10. /\ ups' \in Seq(Ids) /\ Len(ups') <= UploadsKept /\ Once(ups')
         /\ \A v \in Ids : Listed(ups', v) <=> (Listed(ups, v) /\ v \notin {e}) \/ v = u
    BY <1>2, <1>4, <1>6, <1>7, <1>8, <1>9
  <1>11. /\ status' \in [Ids -> {"none", "pending", "completed", "cancelled", "expired", "gone"}]
         /\ status'[u] = "pending" /\ status'[e] = "gone"
         /\ \A v \in Ids : v # u /\ v # e => status'[v] = status[v]
    BY <1>2, <1>5, Types
  <1>12. PICK P : P = Emptied
    OBVIOUS
  <1>13. /\ part' \in [Ids -> Nat] /\ parts' \subseteq Parts /\ parts' = Needed'
         /\ part'[e] = 0 /\ \A v \in Ids : v # e => part'[v] = part[v]
    <2>1. P \in SUBSET Parts /\ P = Needed /\ (P = parts \/ P = {}) /\ parts' = P \ PartsOf(e)
      BY <1>2, <1>12, EmptiedIs
    <2> QED
      BY <1>2, <1>5, <2>1, Dropped
  <1>14. late' \subseteq Ids
    BY <1>2 DEF IInv, TypeOK
  <1>15. PICK E : E = {e}
    OBVIOUS
  <1>16. /\ E \in SUBSET Ids /\ u \notin E
         /\ \A v \in Ids : Listed(ups', v) <=> (Listed(ups, v) /\ v \notin E) \/ v = u
         /\ \A v \in E : status'[v] = "gone"
         /\ \A v \in Ids : v # u /\ v \notin E => status'[v] = status[v]
         /\ \A v \in E : part'[v] = 0
         /\ \A v \in Ids : v \notin E => part'[v] = part[v]
    BY <1>5, <1>10, <1>11, <1>13, <1>15
  <1> QED
    BY <1>2, <1>3, <1>10, <1>11, <1>13, <1>14, <1>16, MadeRoom

-----------------------------------------------------------------------------
(* The steps of a join: of one upload, whose place in the table and whose parts
   they leave alone. *)
LEMMA JoinMoves ==
  ASSUME IInv, NEW u \in Ids, NEW x \in {"join", "meta", "end"}, Joining(u),
         UNCHANGED <<upVars, want, tries, forgetting>>, pc' = [pc EXCEPT ![u] = x],
         rc' \in [Ids -> {0, -1, -2, -3}], got' \in [Ids -> Seq(Parts) \cup {None}],
         \A v \in Ids : v # u => got'[v] = got[v],
         content' \in [Files -> Seq(Parts) \cup {None}], made' \in [Files -> Seq(Parts)],
         \A f \in Files : f[1] # u => content'[f] = content[f],
         kept' \subseteq Files, meta' \subseteq Files,
         x = "join" => Begun(u)', x = "meta" => Renamed(u)' /\ forgetting = None, FileInv'
  PROVE  IInv'
  <1>1. UNCHANGED <<up, ready, ups, status, bytes, part, late, parts, want, tries, forgetting>>
    BY DEF upVars
  <1>2. pc \in [Ids -> {"idle", "room", "join", "meta", "end"}]
    BY Types
  <1>3. /\ pc' \in [Ids -> {"idle", "room", "join", "meta", "end"}] /\ pc'[u] = x
        /\ \A v \in Ids : v # u => pc'[v] = pc[v]
    BY <1>2
  <1>4. \A v \in Ids : Joining(v)' <=> Joining(v)
    BY <1>3 DEF Joining
  <1>5. TypeOK'
    <2>1. \A v \in Ids : got'[v] = None \/ got'[v] \in Seq(Ids \X Nat)
      BY DEF Parts
    <2>2. Files' = Files
      BY DEF Files
    <2> QED
      BY <1>1, <1>3, <2>1, <2>2 DEF IInv, TypeOK
  <1>6. Shape'
    BY <1>1 DEF IInv, Shape, Files
  <1>7. TableInv'
    BY <1>1 DEF IInv, TableInv, In
  <1>8. PartInv'
    BY <1>1, <1>4 DEF IInv, PartInv, In, Needed
  <1>9. JoinInv'
    <2>1. ASSUME NEW v \in Ids
          PROVE  Marked(v)' /\ Begun(v)' /\ Renamed(v)'
      <3>1. Marked(v) /\ Begun(v) /\ Renamed(v)
        BY DEF IInv, JoinInv
      <3>2. Marked(v)'
        BY <1>1, <1>4, <3>1 DEF Marked
      <3>3. CASE v = u
        BY <1>3, <3>2, <3>3 DEF Begun, Renamed
      <3>4. CASE v # u
        <4>1. Begun(v)'
          BY <1>1, <1>3, <3>1, <3>4 DEF Begun
        <4>2. ASSUME pc[v] = "meta"
              PROVE  File(v) \in Files /\ File(v)[1] # u /\ File(v)' = File(v)
          <5>1. tries[v] \in 1 .. MaxTries
            BY <3>1, <4>2, Types DEF Marked, Joining
          <5> QED
            BY <1>1, <3>4, <5>1 DEF File, Files
        <4>3. Renamed(v)'
          BY <1>1, <1>3, <3>1, <3>4, <4>2 DEF Renamed
        <4> QED
          BY <3>2, <4>1, <4>3
      <3> QED
        BY <3>3, <3>4
    <2>2. forgetting # None => \A v \in Ids : pc'[v] # "meta"
      BY <1>3 DEF IInv, JoinInv
    <2> QED
      BY <1>1, <2>1, <2>2 DEF JoinInv
  <1> QED
    BY <1>5, <1>6, <1>7, <1>8, <1>9 DEF IInv

(* A join that goes on, or ends with an error, has made nothing. *)
LEMMA NothingMade ==
  ASSUME IInv, NEW u \in Ids, NEW x \in {"join", "end"}, pc[u] \in {"room", "join", "meta"},
         UNCHANGED <<status, bytes, tries, fileVars>>, pc' = [pc EXCEPT ![u] = x],
         rc' \in [Ids -> {0, -1, -2, -3}], \A v \in Ids : v # u => rc'[v] = rc[v],
         x = "end" => rc'[u] # 0
  PROVE  FileInv'
  <1>1. UNCHANGED <<status, bytes, tries, kept, content, meta, forgetting, made>>
    BY DEF fileVars
  <1>2. pc'[u] = x /\ \A v \in Ids : v # u => pc'[v] = pc[v]
    BY Types
  <1>3. FileInv /\ Unmade(u)
    BY DEF IInv, FileInv
  <1>4. \A v \in Ids : Unmade(v)' <=> Unmade(v)
    BY <1>1 DEF Unmade, Files
  <1>5. \A f \in Files : Whole(f)' <=> Whole(f)
    BY <1>1 DEF Whole
  <1>6. \A v \in Ids : File(v)' = File(v)
    BY <1>1 DEF File
  <1>7. \A v \in Ids : Joining(v)' /\ pc'[v] # "end" => Joining(v) /\ pc[v] # "end"
    BY <1>2 DEF Joining
  <1>8. \A v \in Ids :
          \/ status'[v] \in {"none", "pending", "cancelled", "expired"}
          \/ pc'[v] \in {"room", "join", "meta"}
          \/ pc'[v] = "end" /\ rc'[v] # 0
          => Unmade(v)
    BY <1>1, <1>2, <1>3 DEF FileInv
  <1>9. \A f \in Files : f[2] > tries[f[1]] \/ (Joining(f[1])' /\ pc'[f[1]] # "end" /\ f = File(f[1]))
          => f \notin meta /\ made[f] = <<>>
    BY <1>3, <1>7, FileOf DEF FileInv
  <1>10. \A f \in meta : content[f] = None \/ Whole(f)'
    BY <1>3, <1>5 DEF FileInv, IInv, TypeOK
  <1> QED
    BY <1>1, <1>3, <1>4, <1>6, <1>8, <1>9, <1>10, FileOf DEF FileInv, Files

(* The join ends with an error. *)
LEMMA EndsBadly ==
  ASSUME IInv, NEW u \in Ids, NEW r \in {-1, -2, -3}, pc[u] \in {"room", "join"},
         JoinEnds(u, r), UNCHANGED <<upVars, want, tries, fileVars>>
  PROVE  IInv'
  <1>1. /\ pc' = [pc EXCEPT ![u] = "end"] /\ rc' = [rc EXCEPT ![u] = r]
        /\ got' = [got EXCEPT ![u] = None]
    BY DEF JoinEnds
  <1>2. UNCHANGED <<status, bytes, tries, kept, content, meta, forgetting, made>>
    BY DEF upVars, fileVars
  <1>3. /\ rc' \in [Ids -> {0, -1, -2, -3}] /\ rc'[u] = r /\ r # 0
        /\ \A v \in Ids : v # u => rc'[v] = rc[v]
    BY <1>1, Types
  <1>4. /\ got' \in [Ids -> Seq(Parts) \cup {None}] /\ \A v \in Ids : v # u => got'[v] = got[v]
    BY <1>1, Types DEF Shape
  <1>5. FileInv'
    BY <1>1, <1>2, <1>3, NothingMade
  <1>6. /\ content' \in [Files -> Seq(Parts) \cup {None}] /\ made' \in [Files -> Seq(Parts)]
        /\ content' = content /\ kept' \subseteq Files /\ meta' \subseteq Files
    BY <1>2 DEF IInv, Shape, TypeOK
  <1> QED
    BY <1>1, <1>2, <1>3, <1>4, <1>5, <1>6, JoinMoves DEF Joining

LEMMA RoomStep ==
  ASSUME IInv, NEW u \in Ids, JoinRoom(u)
  PROVE  IInv'
  <1>1. UNCHANGED <<upVars, want, tries, fileVars>> /\ pc[u] = "room"
    BY Zenon DEF JoinRoom
  <1>2. ASSUME NEW r \in {-1, -2}, JoinEnds(u, r)
        PROVE  IInv'
    BY <1>1, <1>2, EndsBadly
  <1>3. CASE pc' = [pc EXCEPT ![u] = "join"] /\ got' = [got EXCEPT ![u] = <<>>] /\ rc' = rc
    <2>1. UNCHANGED <<status, bytes, want, tries, kept, content, meta, forgetting, made>>
      BY <1>1 DEF upVars, fileVars
    <2>2. rc' \in [Ids -> {0, -1, -2, -3}]
      BY <1>3, Types
    <2>3. /\ got' \in [Ids -> Seq(Parts) \cup {None}] /\ got'[u] = <<>>
          /\ \A v \in Ids : v # u => got'[v] = got[v]
      BY <1>3, Types DEF Shape
    <2>4. FileInv'
      BY <1>1, <1>3, <2>1, <2>2, NothingMade
    <2>5. /\ content' \in [Files -> Seq(Parts) \cup {None}] /\ made' \in [Files -> Seq(Parts)]
          /\ content' = content /\ kept' \subseteq Files /\ meta' \subseteq Files
      BY <2>1 DEF IInv, Shape, TypeOK
    <2>6. Begun(u)'
      <3>1. Len(<<>>) = 0 /\ <<>> # None /\ want[u] \in Seq(Parts)
        BY EmptySeq, Types DEF Shape
      <3>2. Len(want[u]) \in Nat
        BY <3>1, LenProperties
      <3> QED
        BY <2>1, <2>3, <3>1, <3>2 DEF Begun
    <2> QED
      BY <1>1, <1>3, <2>1, <2>2, <2>3, <2>4, <2>5, <2>6, JoinMoves DEF Joining
  <1>4. \/ pc' = [pc EXCEPT ![u] = "join"] /\ got' = [got EXCEPT ![u] = <<>>] /\ rc' = rc
        \/ \E r \in {-1, -2} : JoinEnds(u, r)
    BY DEF JoinRoom
  <1> QED
    BY <1>2, <1>3, <1>4

LEMMA PartStep ==
  ASSUME IInv, NEW u \in Ids, JoinPart(u)
  PROVE  IInv'
  <1>1. UNCHANGED <<upVars, want, tries, fileVars>> /\ pc[u] = "join" /\ Len(got[u]) < Len(want[u])
    BY DEF JoinPart
  <1>2. CASE JoinEnds(u, -1)
    BY <1>1, <1>2, EndsBadly
  <1>3. PICK p : p = want[u][Len(got[u]) + 1]
    OBVIOUS
  <1>4. CASE pc' = pc /\ rc' = rc /\ got' = [got EXCEPT ![u] = Append(got[u], p)]
    <2>1. UNCHANGED <<status, bytes, want, tries, kept, content, meta, forgetting, made>>
      BY <1>1 DEF upVars, fileVars
    <2>2. /\ rc' \in [Ids -> {0, -1, -2, -3}] /\ pc' = [pc EXCEPT ![u] = "join"]
      BY <1>1, <1>4, Types
    <2>3. /\ Begun(u) /\ got[u] \in Seq(Parts) /\ want[u] \in Seq(Parts)
      BY <1>1, Types DEF IInv, JoinInv, Begun, Shape
    <2>4. Len(got[u]) \in Nat /\ Len(want[u]) \in Nat
      BY <2>3, LenProperties
    <2>5. Len(got[u]) + 1 \in 1 .. Len(want[u])
      BY <1>1, <2>4
    <2>6. p \in Parts
      BY <1>3, <2>3, <2>5, ElementOfSeq
    <2>7. PICK g : g = Append(got[u], p)
      OBVIOUS
    <2>8. /\ g \in Seq(Parts) /\ Len(g) = Len(got[u]) + 1 /\ g[Len(got[u]) + 1] = p
          /\ \A i \in 1 .. Len(got[u]) : g[i] = got[u][i]
      BY <2>3, <2>6, <2>7, AppendProperties
    <2>9. /\ got' \in [Ids -> Seq(Parts) \cup {None}] /\ got'[u] = g
          /\ \A v \in Ids : v # u => got'[v] = got[v]
      BY <1>4, <2>7, <2>8, Types DEF Shape
    <2>10. Begun(u)'
      <3>1. g # None /\ Len(g) <= Len(want[u])
        BY <2>4, <2>5, <2>8, Types
      <3>2. ASSUME NEW i \in 1 .. Len(g)
            PROVE  g[i] = want[u][i]
        <4>1. i \in 1 .. Len(got[u]) \/ i = Len(got[u]) + 1
          BY <2>4, <2>8
        <4> QED
          BY <1>1, <1>3, <2>3, <2>8, <4>1 DEF Begun
      <3> QED
        BY <2>1, <2>9, <3>1, <3>2 DEF Begun
    <2>11. FileInv'
      BY <1>1, <1>4, <2>1, <2>2, NothingMade
    <2>12. /\ content' \in [Files -> Seq(Parts) \cup {None}] /\ made' \in [Files -> Seq(Parts)]
           /\ content' = content /\ kept' \subseteq Files /\ meta' \subseteq Files
      BY <2>1 DEF IInv, Shape, TypeOK
    <2> QED
      BY <1>1, <2>1, <2>2, <2>9, <2>10, <2>11, <2>12, JoinMoves DEF Joining
  <1> QED
    BY <1>2, <1>3, <1>4 DEF JoinPart

(* The file a join is to make: it is none of those on disk, and the upload has
   made none. *)
LEMMA Target ==
  ASSUME IInv, NEW u \in Ids, pc[u] \in {"room", "join", "meta"}
  PROVE  /\ File(u) \in Files /\ File(u)[1] = u /\ File(u)[2] = tries[u]
         /\ File(u) \notin meta /\ File(u) \notin kept /\ Unmade(u)
         /\ status[u] \in {"completed", "gone"}
  <1>1. tries[u] \in 1 .. MaxTries /\ Joining(u) /\ status[u] \in {"completed", "gone"}
    BY Types DEF IInv, JoinInv, Marked, Joining
  <1>2. File(u) \in Files /\ File(u)[1] = u /\ File(u)[2] = tries[u]
    BY <1>1 DEF File, Files
  <1>3. Unmade(u) /\ File(u) \notin meta
    BY <1>1, <1>2 DEF IInv, FileInv
  <1> QED
    BY <1>1, <1>2, <1>3 DEF IInv, FileInv

LEMMA RenameStep ==
  ASSUME IInv, NEW u \in Ids, JoinRename(u)
  PROVE  IInv'
  <1>1. /\ UNCHANGED <<upVars, want, tries, kept, meta, forgetting, made>>
        /\ pc[u] = "join" /\ Len(got[u]) = Len(want[u])
    BY DEF JoinRename
  <1>2. ASSUME NEW r \in {-1, -3}, JoinEnds(u, r), content' = content
        PROVE  IInv'
    <2>1. UNCHANGED fileVars
      BY <1>1, <1>2 DEF fileVars
    <2> QED
      BY <1>1, <1>2, <2>1, EndsBadly
  <1>3. PICK F : F = File(u)
    OBVIOUS
  <1>4. CASE /\ FilesFree /\ Len(got[u]) = bytes[u] /\ content' = [content EXCEPT ![F] = got[u]]
             /\ pc' = [pc EXCEPT ![u] = "meta"] /\ got' = [got EXCEPT ![u] = None] /\ rc' = rc
    <2>1. UNCHANGED <<status, bytes, want, tries, kept, meta, forgetting, made>>
      BY <1>1 DEF upVars
    <2>2. /\ F \in Files /\ F[1] = u /\ F \notin meta /\ F \notin kept /\ Unmade(u)
      BY <1>1, <1>3, Target
    <2>3. /\ Begun(u) /\ got[u] \in Seq(Parts) /\ want[u] \in Seq(Parts)
      BY <1>1, Types DEF IInv, JoinInv, Begun, Shape
    <2>4. got[u] = want[u]
      <3>1. \A i \in 1 .. Len(got[u]) : got[u][i] = want[u][i]
        BY <1>1, <2>3 DEF Begun
      <3> QED
        BY <1>1, <2>3, <3>1, SeqEqual
    <2>5. /\ got' \in [Ids -> Seq(Parts) \cup {None}] /\ \A v \in Ids : v # u => got'[v] = got[v]
      BY <1>4, Types DEF Shape
    <2>6. /\ content' \in [Files -> Seq(Parts) \cup {None}] /\ content'[F] = want[u]
          /\ \A f \in Files : f # F => content'[f] = content[f]
      BY <1>4, <2>2, <2>3, <2>4, Types DEF Shape
    <2>7. Renamed(u)'
      BY <1>3, <1>4, <2>1, <2>4, <2>6 DEF Renamed, File
    <2>8. pc'[u] = "meta" /\ \A v \in Ids : v # u => pc'[v] = pc[v]
      BY <1>4, Types
    <2>9. FileInv'
      <3>1. \A v \in Ids : (Unmade(v)' <=> Unmade(v)) /\ File(v)' = File(v)
        BY <2>1 DEF Unmade, Files, File
      <3>2. \A v \in Ids : Joining(v)' /\ pc'[v] # "end" => Joining(v) /\ pc[v] # "end"
        BY <1>1, <2>8 DEF Joining
      <3>3. \A f \in meta : f \in Files /\ content'[f] = content[f]
        BY <2>2, <2>6 DEF IInv, TypeOK
      <3>4. \A f \in meta : content'[f] = None \/ Whole(f)'
        BY <2>1, <3>3 DEF IInv, FileInv, Whole
      <3>5. \A v \in Ids :
              \/ status'[v] \in {"none", "pending", "cancelled", "expired"}
              \/ pc'[v] \in {"room", "join", "meta"}
              \/ pc'[v] = "end" /\ rc'[v] # 0
              => Unmade(v)
        BY <1>4, <2>1, <2>2, <2>8 DEF IInv, FileInv
      <3>6. \A f \in Files : f[2] > tries[f[1]] \/ (Joining(f[1])' /\ pc'[f[1]] # "end" /\ f = File(f[1]))
              => f \notin meta /\ made[f] = <<>>
        BY <3>2, FileOf DEF IInv, FileInv
      <3>7. \A f \in kept : content'[f] # None
        BY <3>3 DEF IInv, FileInv
      <3> QED
        BY <2>1, <3>1, <3>4, <3>5, <3>6, <3>7, FileOf DEF IInv, FileInv, Files
    <2>10. /\ made' \in [Files -> Seq(Parts)] /\ kept' \subseteq Files /\ meta' \subseteq Files
           /\ \A f \in Files : f[1] # u => content'[f] = content[f]
           /\ rc' \in [Ids -> {0, -1, -2, -3}] /\ forgetting = None
      BY <1>4, <2>1, <2>2, <2>6, Types DEF IInv, Shape, TypeOK, FilesFree
    <2> QED
      BY <1>1, <1>4, <2>1, <2>5, <2>6, <2>7, <2>9, <2>10, JoinMoves DEF Joining
  <1>5. \/ /\ FilesFree /\ Len(got[u]) = bytes[u] /\ content' = [content EXCEPT ![F] = got[u]]
           /\ pc' = [pc EXCEPT ![u] = "meta"] /\ got' = [got EXCEPT ![u] = None] /\ rc' = rc
        \/ \E r \in {-1, -3} : JoinEnds(u, r) /\ content' = content
    BY <1>3 DEF JoinRename
  <1> QED
    BY <1>2, <1>4, <1>5

(* The .meta is written, or it fails: a File of u is made, or none is. *)
LEMMA MetaStep ==
  ASSUME IInv, NEW u \in Ids, JoinMeta(u)
  PROVE  IInv'
  <1>1. UNCHANGED <<upVars, want, tries, forgetting>> /\ pc[u] = "meta"
    BY DEF JoinMeta
  <1>2. UNCHANGED <<status, bytes, want, tries, forgetting>>
    BY <1>1 DEF upVars
  <1>3. PICK F : F = File(u)
    OBVIOUS
  <1>4. /\ F \in Files /\ F[1] = u /\ F[2] = tries[u] /\ F \notin meta /\ F \notin kept /\ Unmade(u)
        /\ status[u] \in {"completed", "gone"} /\ tries[u] \in Nat
    BY <1>1, <1>3, Target, Types
  <1>5. content[F] = want[u] /\ Len(want[u]) = bytes[u] /\ forgetting = None /\ want[u] \in Seq(Parts)
    BY <1>1, <1>3, Types DEF IInv, JoinInv, Renamed, Shape
  <1>6. PICK r \in {0, -1} :
          /\ JoinEnds(u, r)
          /\ \/ /\ r = 0 /\ meta' = meta \cup {F} /\ kept' = kept \cup {F} /\ content' = content
                /\ made' = [made EXCEPT ![F] = want[u]]
             \/ /\ r = -1 /\ meta' \in {meta, meta \cup {F}} /\ kept' = kept /\ made' = made
                /\ content' = [content EXCEPT ![F] = None]
    BY <1>3 DEF JoinMeta
  <1>7. /\ pc' = [pc EXCEPT ![u] = "end"] /\ rc' = [rc EXCEPT ![u] = r]
        /\ got' = [got EXCEPT ![u] = None]
    BY <1>6 DEF JoinEnds
  <1>8. /\ pc'[u] = "end" /\ \A v \in Ids : v # u => pc'[v] = pc[v]
        /\ rc' \in [Ids -> {0, -1, -2, -3}] /\ rc'[u] = r /\ \A v \in Ids : v # u => rc'[v] = rc[v]
        /\ got' \in [Ids -> Seq(Parts) \cup {None}] /\ \A v \in Ids : v # u => got'[v] = got[v]
    BY <1>7, Types DEF Shape
  <1>9. /\ content' \in [Files -> Seq(Parts) \cup {None}] /\ made' \in [Files -> Seq(Parts)]
        /\ \A f \in Files : f # F => content'[f] = content[f] /\ made'[f] = made[f]
        /\ r = 0 => content'[F] = want[u] /\ made'[F] = want[u]
        /\ r # 0 => content'[F] = None /\ made'[F] = made[F]
    <2>1. content \in [Files -> Seq(Parts) \cup {None}] /\ made \in [Files -> Seq(Parts)]
      BY Types DEF Shape
    <2>2. CASE r = 0
      <3>1. content' = content /\ made' = [made EXCEPT ![F] = want[u]] /\ want[u] \in Seq(Parts)
        BY <1>5, <1>6, <2>2
      <3>2. made' \in [Files -> Seq(Parts)] /\ made'[F] = want[u]
        BY <1>4, <2>1, <3>1
      <3>3. \A f \in Files : f # F => made'[f] = made[f]
        BY <2>1, <3>1
      <3> QED
        BY <1>5, <2>1, <2>2, <3>1, <3>2, <3>3
    <2>3. CASE r = -1
      <3>1. content' = [content EXCEPT ![F] = None] /\ made' = made /\ r # 0
        BY <1>6, <2>3
      <3>2. content' \in [Files -> Seq(Parts) \cup {None}] /\ content'[F] = None
        BY <1>4, <2>1, <3>1
      <3>3. \A f \in Files : f # F => content'[f] = content[f]
        BY <2>1, <3>1
      <3> QED
        BY <2>1, <3>1, <3>2, <3>3
    <2> QED
      BY <2>2, <2>3
  <1>10. /\ kept \subseteq meta /\ meta \subseteq Files /\ meta' \subseteq meta \cup {F}
         /\ kept' \subseteq kept \cup {F} /\ kept' \subseteq meta' /\ (r # 0 => kept' = kept)
    BY <1>6 DEF IInv, TypeOK, FileInv
  <1>11. kept' \subseteq Files /\ meta' \subseteq Files
    BY <1>4, <1>10
  <1>12. FileInv'
    <2>1. \A v \in Ids : File(v)' = File(v)
      BY <1>2 DEF File
    <2>2. \A v \in Ids : v # u => (Unmade(v) => Unmade(v)')
      BY <1>4, <1>9 DEF Unmade, Files
    <2>3. made[F] = <<>> /\ \A f \in Files : f[1] = u => made[f] = <<>>
      BY <1>4 DEF Unmade
    <2>4. r # 0 => Unmade(u)'
      BY <1>9, <2>3 DEF Unmade, Files
    <2>5. \A v \in Ids :
            \/ status[v] \in {"none", "pending", "cancelled", "expired"}
            \/ pc'[v] \in {"room", "join", "meta"}
            \/ pc'[v] = "end" /\ rc'[v] # 0
            => Unmade(v)'
      <3> SUFFICES ASSUME NEW v \in Ids,
                          \/ status[v] \in {"none", "pending", "cancelled", "expired"}
                          \/ pc'[v] \in {"room", "join", "meta"}
                          \/ pc'[v] = "end" /\ rc'[v] # 0
                   PROVE  Unmade(v)'
        OBVIOUS
      <3>1. CASE v = u
        BY <1>4, <1>8, <2>4, <3>1
      <3>2. CASE v # u
        BY <1>8, <2>2, <3>2 DEF IInv, FileInv
      <3> QED
        BY <3>1, <3>2
    <2>6. ASSUME NEW f \in Files,
                 f[2] > tries[f[1]] \/ (Joining(f[1])' /\ pc'[f[1]] # "end" /\ f = File(f[1]))
          PROVE  f \notin meta' /\ made'[f] = <<>>
      <3>1. f[1] \in Ids /\ f # F
        BY <1>4, <1>8, <2>6, FileOf
      <3>2. f[2] > tries[f[1]] \/ (Joining(f[1]) /\ pc[f[1]] # "end" /\ f = File(f[1]))
        <4>1. CASE f[1] = u
          BY <1>8, <2>6, <4>1
        <4>2. CASE f[1] # u
          BY <1>8, <2>6, <3>1, <4>2 DEF Joining
        <4> QED
          BY <4>1, <4>2
      <3> QED
        BY <1>9, <1>10, <3>1, <3>2 DEF IInv, FileInv
    <2>7. \A f, g \in Files : f[1] = g[1] /\ made'[f] # <<>> /\ made'[g] # <<>> => f = g
      <3> SUFFICES ASSUME NEW f \in Files, NEW g \in Files, f[1] = g[1], made'[f] # <<>>,
                          made'[g] # <<>>
                   PROVE  f = g
        OBVIOUS
      <3>1. CASE f[1] = u
        BY <1>9, <2>3, <3>1
      <3>2. CASE f[1] # u
        BY <1>4, <1>9, <3>2 DEF IInv, FileInv
      <3> QED
        BY <3>1, <3>2
    <2>8. ASSUME NEW f \in meta'
          PROVE  content'[f] = None \/ Whole(f)'
      <3>1. CASE f = F
        BY <1>2, <1>4, <1>5, <1>9, <3>1 DEF Whole
      <3>2. CASE f # F
        <4>1. f \in meta /\ f \in Files
          BY <1>10, <3>2
        <4> QED
          BY <1>2, <1>9, <3>2, <4>1 DEF IInv, FileInv, Whole
      <3> QED
        BY <3>1, <3>2
    <2>9. \A f \in kept' : content'[f] # None
      <3>1. want[u] # None
        BY <1>5, Types
      <3>2. \A f \in kept : f \in Files /\ f # F /\ content[f] # None
        BY <1>4, <1>10 DEF IInv, FileInv
      <3> QED
        BY <1>6, <1>9, <3>1, <3>2
    <2> QED
      BY <1>2, <1>5, <1>10, <2>1, <2>5, <2>6, <2>7, <2>8, <2>9, FileOf DEF IInv, FileInv, Files
  <1>13. \A f \in Files : f[1] # u => content'[f] = content[f]
    BY <1>4, <1>9
  <1> QED
    BY <1>1, <1>7, <1>8, <1>9, <1>11, <1>12, <1>13, JoinMoves DEF Joining

-----------------------------------------------------------------------------
(* The two ends of a complete: it begins, with parts of the upload ... *)
LEMMA CompleteStep ==
  ASSUME IInv, NEW u \in Ids, NEW order \in Orders(u), Complete(u, order)
  PROVE  IInv'
  <1>1. /\ up /\ In(u) /\ status[u] = "pending" /\ pc[u] = "idle" /\ tries[u] < MaxTries
        /\ order # <<>> /\ status' = [status EXCEPT ![u] = "completed"]
        /\ pc' = [pc EXCEPT ![u] = "room"] /\ want' = [want EXCEPT ![u] = order]
        /\ tries' = [tries EXCEPT ![u] = tries[u] + 1]
        /\ UNCHANGED <<up, ready, ups, bytes, part, late, parts, rc, got, fileVars>>
    BY DEF Complete, Live
  <1>2. UNCHANGED <<kept, content, meta, forgetting, made>>
    BY <1>1 DEF fileVars
  <1>3. order \in Seq(Parts)
    <2>1. PICK n \in 1 .. part[u] : order \in [1 .. n -> PartsOf(u)]
      BY DEF Orders
    <2>2. n \in Nat /\ PartsOf(u) \subseteq Parts
      BY PartsAre, Types
    <2>3. order \in [1 .. n -> Parts]
      BY <2>1, <2>2
    <2> QED
      BY <2>2, <2>3
  <1>4. /\ status' \in [Ids -> {"none", "pending", "completed", "cancelled", "expired", "gone"}]
        /\ status'[u] = "completed" /\ \A v \in Ids : v # u => status'[v] = status[v]
        /\ pc' \in [Ids -> {"idle", "room", "join", "meta", "end"}]
        /\ pc'[u] = "room" /\ \A v \in Ids : v # u => pc'[v] = pc[v]
    BY <1>1, Types
  <1>5. want' \in [Ids -> Seq(Parts)] /\ want'[u] = order /\ \A v \in Ids : v # u => want'[v] = want[v]
    BY <1>1, <1>3, Types DEF Shape
  <1>6. /\ tries' \in [Ids -> 0 .. MaxTries] /\ tries'[u] = tries[u] + 1 /\ tries[u] \in Nat
        /\ \A v \in Ids : v # u => tries'[v] = tries[v]
    BY <1>1, Types
  <1>7. TypeOK'
    BY <1>1, <1>2, <1>4, <1>6 DEF IInv, TypeOK, Files
  <1>8. Shape'
    BY <1>1, <1>2, <1>5 DEF IInv, Shape, Files
  <1>9. TableInv'
    BY <1>1, <1>4 DEF IInv, TableInv, In
  <1>10. PartInv'
    BY <1>1, <1>4 DEF IInv, PartInv, In, Joining, Needed
  <1>11. JoinInv'
    <2>1. ASSUME NEW v \in Ids
          PROVE  Marked(v)' /\ Begun(v)' /\ Renamed(v)'
      <3>1. Marked(v) /\ Begun(v) /\ Renamed(v)
        BY DEF IInv, JoinInv
      <3>2. CASE v = u
        <4>1. tries'[u] > 0 /\ up'
          BY <1>1, <1>6
        <4> QED
          BY <1>1, <1>4, <1>5, <3>2, <4>1 DEF Marked, Begun, Renamed
      <3>3. CASE v # u
        BY <1>1, <1>2, <1>4, <1>5, <1>6, <3>1, <3>3 DEF Marked, Begun, Renamed, Joining, File
      <3> QED
        BY <3>2, <3>3
    <2> QED
      BY <1>2, <1>4, <2>1 DEF IInv, JoinInv
  <1>12. FileInv'
    <2>1. \A v \in Ids : Unmade(v)' <=> Unmade(v)
      BY <1>2 DEF Unmade, Files
    <2>2. \A f \in Files : Whole(f)' <=> Whole(f)
      BY <1>1, <1>2 DEF Whole
    <2>3. Unmade(u)
      BY <1>1 DEF IInv, FileInv
    <2>4. ASSUME NEW f \in Files,
                 f[2] > tries'[f[1]] \/ (Joining(f[1])' /\ pc'[f[1]] # "end" /\ f = File(f[1])')
          PROVE  f \notin meta /\ made[f] = <<>>
      <3>1. f[1] \in Ids /\ f[2] \in Nat
        BY FileOf, Types
      <3>2. CASE f[1] = u
        <4>1. f[2] > tries[f[1]]
          BY <1>6, <2>4, <3>1, <3>2 DEF File
        <4> QED
          BY <4>1 DEF IInv, FileInv
      <3>3. CASE f[1] # u
        BY <1>4, <1>6, <2>4, <3>1, <3>3 DEF IInv, FileInv, File, Joining
      <3> QED
        BY <3>2, <3>3
    <2>5. \A v \in Ids :
            \/ status'[v] \in {"none", "pending", "cancelled", "expired"}
            \/ pc'[v] \in {"room", "join", "meta"}
            \/ pc'[v] = "end" /\ rc'[v] # 0
            => Unmade(v)
      BY <1>1, <1>4, <2>3 DEF IInv, FileInv
    <2>6. \A v \in Ids : status'[v] = "none" => tries'[v] = 0
      BY <1>4, <1>6 DEF IInv, FileInv
    <2>7. \A f \in meta : content[f] = None \/ Whole(f)'
      BY <2>2 DEF IInv, FileInv, TypeOK
    <2> QED
      BY <1>2, <2>1, <2>4, <2>5, <2>6, <2>7 DEF IInv, FileInv, Files
  <1> QED
    BY <1>7, <1>8, <1>9, <1>10, <1>11, <1>12 DEF IInv

(* ... and what comes of it is told to the table. *)
LEMMA EndStep ==
  ASSUME IInv, NEW u \in Ids, CompleteEnd(u)
  PROVE  IInv'
  <1>1. /\ pc[u] = "end" /\ pc' = [pc EXCEPT ![u] = "idle"] /\ want' = [want EXCEPT ![u] = <<>>]
        /\ rc' = [rc EXCEPT ![u] = 0]
        /\ UNCHANGED <<up, ready, ups, bytes, late, got, tries, fileVars>>
    BY DEF CompleteEnd
  <1>2. UNCHANGED <<kept, content, meta, forgetting, made>>
    BY <1>1 DEF fileVars
  <1>3. status[u] \in {"completed", "gone"} /\ Joining(u)
    BY <1>1 DEF IInv, JoinInv, Marked, Joining
  <1>4. /\ pc' \in [Ids -> {"idle", "room", "join", "meta", "end"}]
        /\ pc'[u] = "idle" /\ \A v \in Ids : v # u => pc'[v] = pc[v]
        /\ rc' \in [Ids -> {0, -1, -2, -3}] /\ rc'[u] = 0 /\ \A v \in Ids : v # u => rc'[v] = rc[v]
    BY <1>1, Types
  <1>5. want' \in [Ids -> Seq(Parts)] /\ \A v \in Ids : v # u => want'[v] = want[v]
    <2>1. <<>> \in Seq(Parts)
      BY EmptySeq
    <2> QED
      BY <1>1, <2>1, Types DEF Shape
  <1>6. /\ status' \in [Ids -> {"none", "pending", "completed", "cancelled", "expired", "gone"}]
        /\ \A v \in Ids : v # u => status'[v] = status[v]
        /\ \/ status'[u] = status[u]
           \/ status'[u] = "pending" /\ In(u) /\ rc[u] # 0
    <2>1. status' = status \/ (status' = [status EXCEPT ![u] = "pending"] /\ In(u) /\ rc[u] # 0)
      BY DEF CompleteEnd
    <2> QED
      BY <2>1, Types
  <1>7. /\ part' \in [Ids -> Nat] /\ parts' \subseteq Parts
        /\ part'[u] # 0 => In(u) /\ status'[u] = "pending"
        /\ \A v \in Ids : v # u => part'[v] = part[v]
        /\ up /\ ready => parts' = Needed'
    <2>1. part \in [Ids -> Nat] /\ parts \subseteq Parts /\ (up /\ ready => parts = Needed)
      BY Types DEF IInv, PartInv
    <2>2. CASE ~In(u)
      <3>1. part' = part /\ parts' = parts /\ part[u] = 0
        BY <2>2 DEF CompleteEnd, IInv, PartInv
      <3> QED
        BY <2>1, <3>1 DEF Needed
    <2>3. CASE In(u) /\ rc[u] # 0
      <3>1. part' = part /\ parts' = parts /\ status' = [status EXCEPT ![u] = "pending"]
        BY <2>3 DEF CompleteEnd
      <3>2. status'[u] = "pending"
        BY <3>1, Types
      <3> QED
        BY <2>1, <2>3, <3>1, <3>2 DEF Needed
    <2>4. CASE In(u) /\ rc[u] = 0
      <3>1. parts' = parts \ PartsOf(u) /\ part' = [part EXCEPT ![u] = 0]
        BY <2>4 DEF CompleteEnd, DropParts
      <3>2. up /\ ready
        <4>1. ups # <<>>
          BY <2>4, Types DEF In
        <4> QED
          BY <4>1 DEF IInv, TableInv
      <3>3. parts \in SUBSET Parts /\ parts = Needed
        BY <2>1, <3>2
      <3> QED
        BY <3>1, <3>3, Dropped
    <2> QED
      BY <2>2, <2>3, <2>4
  <1>8. TypeOK'
    BY <1>1, <1>2, <1>4, <1>6, <1>7 DEF IInv, TypeOK, Files, Parts
  <1>9. Shape'
    BY <1>1, <1>2, <1>5 DEF IInv, Shape, Files
  <1>10. TableInv'
    <2>1. \A v \in Ids : In(v)' <=> In(v)
      BY <1>1 DEF In
    <2>2. \A v \in Ids : In(v) <=> status[v] \notin {"none", "gone"}
      BY DEF IInv, TableInv
    <2>3. \A v \in Ids : In(v) <=> status'[v] \notin {"none", "gone"}
      BY <1>6, <2>2
    <2> QED
      BY <1>1, <2>1, <2>3 DEF IInv, TableInv
  <1>11. PartInv'
    <2>1. \A v \in Ids : In(v)' <=> In(v)
      BY <1>1 DEF In
    <2>2. \A v \in Ids : part'[v] # 0 => In(v) /\ (status'[v] = "pending" \/ Joining(v)')
      BY <1>4, <1>6, <1>7 DEF IInv, PartInv, Joining
    <2> QED
      BY <1>1, <1>7, <2>1, <2>2 DEF PartInv
  <1>12. JoinInv'
    <2>1. ASSUME NEW v \in Ids
          PROVE  Marked(v)' /\ Begun(v)' /\ Renamed(v)'
      <3>1. Marked(v) /\ Begun(v) /\ Renamed(v)
        BY DEF IInv, JoinInv
      <3>2. CASE v = u
        BY <1>4, <3>2 DEF Marked, Begun, Renamed, Joining
      <3>3. CASE v # u
        BY <1>1, <1>2, <1>4, <1>5, <1>6, <3>1, <3>3 DEF Marked, Begun, Renamed, Joining, File
      <3> QED
        BY <3>2, <3>3
    <2> QED
      BY <1>2, <1>4, <2>1 DEF IInv, JoinInv
  <1>13. FileInv'
    <2>1. \A v \in Ids : (Unmade(v)' <=> Unmade(v)) /\ File(v)' = File(v)
      BY <1>1, <1>2 DEF Unmade, Files, File
    <2>2. \A f \in Files : Whole(f)' <=> Whole(f)
      BY <1>1, <1>2 DEF Whole
    <2>3. \A v \in Ids : Joining(v)' => Joining(v) /\ pc'[v] = pc[v]
      BY <1>4 DEF Joining
    <2>4. \A f \in Files : f[2] > tries[f[1]] \/ (Joining(f[1])' /\ pc'[f[1]] # "end" /\ f = File(f[1]))
            => f \notin meta /\ made[f] = <<>>
      BY <2>3, FileOf DEF IInv, FileInv
    <2>5. \A v \in Ids :
            \/ status'[v] \in {"none", "pending", "cancelled", "expired"}
            \/ pc'[v] \in {"room", "join", "meta"}
            \/ pc'[v] = "end" /\ rc'[v] # 0
            => Unmade(v)
      BY <1>1, <1>3, <1>4, <1>6 DEF IInv, FileInv
    <2>6. \A v \in Ids : status'[v] = "none" => tries[v] = 0
      BY <1>3, <1>6 DEF IInv, FileInv
    <2>7. \A f \in meta : content[f] = None \/ Whole(f)'
      BY <2>2 DEF IInv, FileInv, TypeOK
    <2> QED
      BY <1>1, <1>2, <2>1, <2>4, <2>5, <2>6, <2>7, FileOf DEF IInv, FileInv, Files
  <1> QED
    BY <1>8, <1>9, <1>10, <1>11, <1>12, <1>13 DEF IInv

-----------------------------------------------------------------------------
(* A file is deleted: its .meta goes first, so that what is on disk under its
   id is no file's by the time it goes too. *)
LEMMA DeleteStep ==
  ASSUME IInv, NEW f \in Files, Delete(f)
  PROVE  IInv'
  <1>1. /\ FilesFree /\ kept' = kept \ {f} /\ meta' = meta \ {f} /\ forgetting' = f
        /\ UNCHANGED <<upVars, joinVars, content, made>>
    BY DEF Delete
  <1>2. UNCHANGED <<up, ready, ups, status, bytes, part, late, parts, pc, rc, want, got, tries,
                    content, made>>
    BY <1>1 DEF upVars, joinVars
  <1>3. TypeOK'
    BY <1>1, <1>2 DEF IInv, TypeOK, Files
  <1>4. Shape'
    BY <1>2 DEF IInv, Shape, Files
  <1>5. TableInv'
    BY <1>2 DEF IInv, TableInv, In
  <1>6. PartInv'
    BY <1>2 DEF IInv, PartInv, In, Joining, Needed
  <1>7. JoinInv'
    BY <1>1, <1>2 DEF IInv, JoinInv, Marked, Begun, Renamed, Joining, File, FilesFree
  <1>8. FileInv'
    BY <1>1, <1>2 DEF IInv, FileInv, Unmade, Whole, Joining, File, Files
  <1> QED
    BY <1>3, <1>4, <1>5, <1>6, <1>7, <1>8 DEF IInv

LEMMA DeleteContentStep ==
  ASSUME IInv, DeleteContent
  PROVE  IInv'
  <1>1. PICK F : F = forgetting
    OBVIOUS
  <1>2. /\ F # None /\ content' = [content EXCEPT ![F] = None] /\ forgetting' = None
        /\ UNCHANGED <<upVars, joinVars, kept, meta, made>>
    BY <1>1 DEF DeleteContent
  <1>3. UNCHANGED <<up, ready, ups, status, bytes, part, late, parts, pc, rc, want, got, tries,
                    kept, meta, made>>
    BY <1>2 DEF upVars, joinVars
  <1>4. F \in Files /\ F \notin meta /\ \A v \in Ids : pc[v] # "meta"
    BY <1>1, <1>2 DEF IInv, TypeOK, FileInv, JoinInv
  <1>5. /\ content' \in [Files -> Seq(Parts) \cup {None}]
        /\ \A f \in Files : f # F => content'[f] = content[f]
    BY <1>2, <1>4, Types DEF Shape
  <1>6. TypeOK'
    BY <1>2, <1>3 DEF IInv, TypeOK, Files
  <1>7. Shape'
    BY <1>3, <1>5 DEF IInv, Shape, Files
  <1>8. TableInv'
    BY <1>3 DEF IInv, TableInv, In
  <1>9. PartInv'
    BY <1>3 DEF IInv, PartInv, In, Joining, Needed
  <1>10. JoinInv'
    BY <1>2, <1>3, <1>4 DEF IInv, JoinInv, Marked, Begun, Renamed, Joining
  <1>11. FileInv'
    <2>1. \A f \in meta : f \in Files /\ content'[f] = content[f]
      BY <1>4, <1>5 DEF IInv, TypeOK
    <2>2. \A f \in meta : content'[f] = None \/ Whole(f)'
      BY <1>3, <2>1 DEF IInv, FileInv, Whole
    <2>3. \A f \in kept : content'[f] # None
      BY <2>1 DEF IInv, FileInv
    <2> QED
      BY <1>2, <1>3, <2>2, <2>3 DEF IInv, FileInv, Unmade, Joining, File, Files
  <1> QED
    BY <1>6, <1>7, <1>8, <1>9, <1>10, <1>11 DEF IInv

(* Killed or stopped: what is left is the disk, where nothing is half true. *)
LEMMA EndOfServer ==
  ASSUME IInv, Crash \/ Shutdown
  PROVE  IInv'
  <1>1. /\ up' = FALSE /\ ready' = FALSE /\ ups' = <<>> /\ kept' = {} /\ forgetting' = None
        /\ status' = [u \in Ids |-> IF status[u] = "none" THEN "none" ELSE "gone"]
        /\ late' = {} /\ pc' = [u \in Ids |-> "idle"] /\ want' = [u \in Ids |-> <<>>]
        /\ rc' = [u \in Ids |-> 0] /\ UNCHANGED <<bytes, got, tries, content, meta, made>>
    BY DEF Crash, Shutdown, Forgotten
  <1>2. part' = [u \in Ids |-> 0] /\ parts' \subseteq parts
    BY DEF Crash, Shutdown
  <1>3. /\ \A v \in Ids : part'[v] = 0 /\ pc'[v] = "idle"
        /\ \A v \in Ids : status'[v] \in {"none", "gone"} /\ (status'[v] = "none" <=> status[v] = "none")
    BY <1>1, <1>2
  <1>4. TypeOK'
    <2>1. <<>> \in Seq(Ids) /\ Len(<<>>) = 0 /\ UploadsKept \in Nat
      BY EmptySeq, UploadsAssumption
    <2>2. ups' \in Seq(Ids) /\ Len(ups') <= UploadsKept
      BY <1>1, <2>1
    <2>3. /\ status' \in [Ids -> {"none", "pending", "completed", "cancelled", "expired", "gone"}]
          /\ part' \in [Ids -> Nat] /\ pc' \in [Ids -> {"idle", "room", "join", "meta", "end"}]
          /\ rc' \in [Ids -> {0, -1, -2, -3}]
      BY <1>1, <1>2
    <2> QED
      BY <1>1, <1>2, <2>2, <2>3 DEF IInv, TypeOK, Files
  <1>5. Shape'
    <2>1. <<>> \in Seq(Parts)
      BY EmptySeq
    <2>2. want' \in [Ids -> Seq(Parts)]
      BY <1>1, <2>1
    <2> QED
      BY <1>1, <2>2 DEF IInv, Shape, Files
  <1>6. TableInv'
    <2>1. Len(<<>>) = 0 /\ DOMAIN <<>> = {}
      BY EmptySeq
    <2>2. \A v \in Ids : ~In(v)'
      BY <1>1, <2>1 DEF In
    <2> QED
      BY <1>1, <1>3, <2>1, <2>2 DEF TableInv
  <1>7. PartInv'
    BY <1>1, <1>3 DEF PartInv
  <1>8. JoinInv'
    BY <1>1, <1>3 DEF JoinInv, Marked, Begun, Renamed, Joining
  <1>9. FileInv'
    <2>1. \A v \in Ids : Unmade(v)' <=> Unmade(v)
      BY <1>1 DEF Unmade, Files
    <2>2. \A f \in meta : content[f] = None \/ Whole(f)'
      BY <1>1 DEF IInv, FileInv, Whole
    <2>3. \A v \in Ids : status'[v] = "none" => tries[v] = 0 /\ Unmade(v)
      BY <1>3 DEF IInv, FileInv
    <2>4. \A f \in Files : f[2] > tries[f[1]] \/ (Joining(f[1])' /\ pc'[f[1]] # "end" /\ f = File(f[1])')
            => f \notin meta /\ made[f] = <<>>
      BY <1>3, FileOf DEF IInv, FileInv, Joining
    <2>5. \A v \in Ids :
            \/ status'[v] \in {"none", "pending", "cancelled", "expired"}
            \/ pc'[v] \in {"room", "join", "meta"}
            \/ pc'[v] = "end" /\ rc'[v] # 0
            => Unmade(v)
      BY <1>3, <2>3
    <2> QED
      BY <1>1, <2>1, <2>2, <2>3, <2>4, <2>5 DEF IInv, FileInv, Files
  <1> QED
    BY <1>4, <1>5, <1>6, <1>7, <1>8, <1>9 DEF IInv

LEMMA OpenStep ==
  ASSUME IInv, Open
  PROVE  IInv'
  <1>1. /\ ~up /\ up' = TRUE /\ got' = [u \in Ids |-> None]
        /\ kept' = {f \in meta : content[f] # None /\ Len(content[f]) = bytes[f[1]]}
        /\ UNCHANGED <<ready, ups, status, bytes, part, late, parts, pc, rc, want, tries,
                       content, meta, forgetting, made>>
    BY DEF Open
  <1>2. ~ready /\ \A v \in Ids : ~Joining(v)
    BY <1>1 DEF IInv, TableInv, JoinInv, Marked
  <1>3. \A v \in Ids : got'[v] = None
    BY <1>1
  <1>4. kept' \subseteq meta
    BY <1>1
  <1>5. TypeOK'
    BY <1>1, <1>3, <1>4 DEF IInv, TypeOK, Files
  <1>6. Shape'
    BY <1>1 DEF IInv, Shape, Files
  <1>7. TableInv'
    BY <1>1 DEF IInv, TableInv, In
  <1>8. PartInv'
    BY <1>1, <1>2 DEF IInv, PartInv, In, Joining
  <1>9. JoinInv'
    BY <1>1, <1>2 DEF IInv, JoinInv, Marked, Begun, Renamed, Joining
  <1>10. FileInv'
    <2>1. \A v \in Ids : (Unmade(v)' <=> Unmade(v)) /\ File(v)' = File(v) /\ (Joining(v)' <=> Joining(v))
      BY <1>1 DEF Unmade, Files, File, Joining
    <2>2. \A f \in meta : content[f] = None \/ Whole(f)'
      BY <1>1 DEF IInv, FileInv, Whole
    <2>3. \A f \in kept' : content[f] # None
      BY <1>1
    <2> QED
      BY <1>1, <1>4, <2>1, <2>2, <2>3, FileOf DEF IInv, FileInv, Files
  <1> QED
    BY <1>5, <1>6, <1>7, <1>8, <1>9, <1>10 DEF IInv

-----------------------------------------------------------------------------
LEMMA Started ==
  ASSUME Init
  PROVE  IInv
  <1>1. /\ <<>> \in Seq(Ids) /\ <<>> \in Seq(Parts) /\ Len(<<>>) = 0 /\ DOMAIN <<>> = {}
        /\ UploadsKept \in Nat /\ MaxTries \in Nat
    BY EmptySeq, UploadsAssumption
  <1>2. /\ up = TRUE /\ ready = FALSE /\ ups = <<>> /\ late = {} /\ parts = {}
        /\ kept = {} /\ meta = {} /\ forgetting = None
        /\ status = [u \in Ids |-> "none"] /\ bytes = [u \in Ids |-> 0]
        /\ part = [u \in Ids |-> 0] /\ pc = [u \in Ids |-> "idle"] /\ rc = [u \in Ids |-> 0]
        /\ want = [u \in Ids |-> <<>>] /\ got = [u \in Ids |-> None]
        /\ tries = [u \in Ids |-> 0] /\ content = [f \in Files |-> None]
        /\ made = [f \in Files |-> <<>>]
    BY DEF Init
  <1>3. TypeOK
    <2>1. /\ ups \in Seq(Ids) /\ Len(ups) <= UploadsKept
      BY <1>1, <1>2
    <2>2. /\ status \in [Ids -> {"none", "pending", "completed", "cancelled", "expired", "gone"}]
          /\ bytes \in [Ids -> Nat] /\ part \in [Ids -> Nat]
          /\ pc \in [Ids -> {"idle", "room", "join", "meta", "end"}]
          /\ rc \in [Ids -> {0, -1, -2, -3}] /\ tries \in [Ids -> 0 .. MaxTries]
      BY <1>1, <1>2
    <2>3. \A u \in Ids : got[u] = None
      BY <1>2
    <2> QED
      BY <1>2, <2>1, <2>2, <2>3 DEF TypeOK
  <1>4. Shape
    BY <1>1, <1>2 DEF Shape
  <1>5. \A v \in Ids : ~In(v)
    BY <1>1, <1>2 DEF In
  <1>6. TableInv
    BY <1>1, <1>2, <1>5 DEF TableInv
  <1>7. PartInv
    BY <1>2 DEF PartInv
  <1>8. JoinInv
    BY <1>2 DEF JoinInv, Marked, Begun, Renamed, Joining
  <1>9. FileInv
    BY <1>2 DEF FileInv, Unmade
  <1> QED
    BY <1>3, <1>4, <1>6, <1>7, <1>8, <1>9 DEF IInv

LEMMA NextKeeps ==
  ASSUME IInv, Next
  PROVE  IInv'
  <1>1. CASE \E u \in Ids, n \in Sizes : Create(u, n) \/ \E k \in DOMAIN ups : CreateEvicting(u, n, k)
    BY <1>1, CreateStep, EvictStep
  <1>2. CASE \E u \in Ids : HourPasses(u) \/ TooLate(u) \/ AddPart(u) \/ Cancel(u)
    BY <1>2, HourStep, OverStep, AddStep
  <1>3. CASE \E u \in Ids : \E order \in Orders(u) : Complete(u, order)
    BY <1>3, CompleteStep
  <1>4. CASE \E u \in Ids : JoinRoom(u) \/ JoinPart(u) \/ JoinRename(u) \/ JoinMeta(u) \/ CompleteEnd(u)
    BY <1>4, RoomStep, PartStep, RenameStep, MetaStep, EndStep
  <1>5. CASE (\E f \in Files : Delete(f)) \/ DeleteContent
    BY <1>5, DeleteStep, DeleteContentStep
  <1>6. CASE Crash \/ Shutdown \/ Open
    BY <1>6, EndOfServer, OpenStep
  <1> QED
    BY <1>1, <1>2, <1>3, <1>4, <1>5, <1>6 DEF Next

LEMMA Stutter ==
  ASSUME IInv, UNCHANGED vars
  PROVE  IInv'
  <1>1. UNCHANGED <<up, ready, ups, status, bytes, part, late, parts, pc, rc, want, got, tries,
                    kept, content, meta, forgetting, made>>
    BY DEF vars, upVars, joinVars, fileVars
  <1>2. TypeOK' /\ Shape' /\ TableInv'
    BY <1>1 DEF IInv, TypeOK, Shape, TableInv, In, Files
  <1>3. PartInv' /\ JoinInv'
    BY <1>1 DEF IInv, PartInv, JoinInv, In, Joining, Needed, Marked, Begun, Renamed, File
  <1>4. FileInv'
    BY <1>1 DEF IInv, FileInv, Unmade, Whole, Joining, File, Files
  <1> QED
    BY <1>2, <1>3, <1>4 DEF IInv

LEMMA Invariance == Spec => []IInv
  <1>1. Init => IInv
    BY Started
  <1>2. IInv /\ [Next]_vars => IInv'
    BY NextKeeps, Stutter
  <1> QED
    BY <1>1, <1>2, PTL DEF Spec

(* The parts the uploads have are those of the uploads that may need them. *)
LEMMA NeededIs ==
  ASSUME IInv
  PROVE  Needed = UNION {PartsOf(u) : u \in {v \in Ids :
                            In(v) /\ (status[v] = "pending" \/ Joining(v))}}
  <1> DEFINE Some == {v \in Ids : In(v) /\ (status[v] = "pending" \/ Joining(v))}
  <1>1. ASSUME NEW p \in Needed
        PROVE  \E u \in Some : p \in PartsOf(u)
    <2>1. p \in Parts /\ p[1] \in Ids /\ p[2] \in 1 .. part[p[1]]
      BY DEF Needed, Parts
    <2>2. p \in PartsOf(p[1]) /\ part[p[1]] # 0
      BY <2>1, PartsAre, Types
    <2> QED
      BY <2>1, <2>2 DEF IInv, PartInv
  <1>2. ASSUME NEW u \in Some, NEW p \in PartsOf(u)
        PROVE  p \in Needed
    BY <1>2, PartsAre DEF Needed
  <1> QED
    BY <1>1, <1>2

-----------------------------------------------------------------------------
(* The types hold, and no more uploads are remembered than UPLOADS_KEPT, for
   every sequence of requests, failures and kills (srv_uploads_create, which
   evicts or refuses). *)
THEOREM TypeCorrect == Spec => []TypeOK
  <1>1. IInv => TypeOK
    BY DEF IInv
  <1> QED
    BY <1>1, Invariance, PTL

(* The parts on disk are those of the uploads that are pending or being joined,
   whatever was evicted, expired, cancelled or completed meanwhile, and whatever
   a killed server left (srv_uploads_part, drop_parts, ensure_dir). *)
THEOREM PartsAreExact == Spec => []PartsExact
  <1>1. IInv => PartsExact
    BY NeededIs DEF IInv, PartInv, PartsExact
  <1> QED
    BY <1>1, Invariance, PTL

(* Every file listed holds the parts its complete named, in that order, and an
   upload becomes one File, after which it is never pending again
   (srv_files_add_parts, srv_uploads_complete). *)
THEOREM FilesAreRight == Spec => []FilesRight
  <1>1. ASSUME IInv
        PROVE  FilesRight
    <2>1. \A f \in kept : Whole(f)
      BY <1>1 DEF IInv, FileInv
    <2>2. ASSUME NEW u \in Ids
          PROVE  Cardinality(MadeOf(u)) <= 1
      <3>1. CASE MadeOf(u) = {}
        BY <3>1, FS_EmptySet
      <3>2. CASE MadeOf(u) # {}
        <4>1. PICK f : f \in MadeOf(u)
          BY <3>2
        <4>2. MadeOf(u) = {f}
          BY <1>1, <4>1 DEF MadeOf, IInv, FileInv
        <4>3. Cardinality({f}) = 1
          BY FS_Singleton
        <4> QED
          BY <4>2, <4>3
      <3> QED
        BY <3>1, <3>2
    <2>3. ASSUME NEW u \in Ids, MadeOf(u) # {}, In(u)
          PROVE  status[u] = "completed"
      <3>1. ~Unmade(u)
        BY <2>3 DEF MadeOf, Unmade
      <3> QED
        BY <1>1, <2>3, <3>1, Types DEF IInv, TableInv, FileInv
    <2> QED
      BY <2>1, <2>2, <2>3 DEF FilesRight
  <1> QED
    BY <1>1, Invariance, PTL

=============================================================================
