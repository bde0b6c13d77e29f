--------------------------- MODULE DocStoreProofs ---------------------------
(***************************************************************************)
(* Proofs about DocStore, for any kinds, ids, sizes, caps and number of    *)
(* writes, failures and kills: the types and the two limits, that the      *)
(* numbers stay an order, and that a restart finds what clients were told. *)
(***************************************************************************)
EXTENDS DocStore, FiniteSetTheorems, WellFoundedInduction, TLAPS

(* A list of finitely many documents, each within its limit. *)
List(m) ==
  /\ m \in [Keys -> Docs \cup {None}]
  /\ IsFiniteSet(Held(m))
  /\ \A k \in Held(m) : m[k].size <= DocMax

Within(m, c) ==
  /\ \A kind \in Kinds : Cardinality(OfKind(m, kind)) <= c
  /\ Bytes(m, Held(m)) <= StoreMax

(* No document is newer than the last write. *)
Written(m) == \A k \in Held(m) : m[k].ver <= writes

(* No document of the list has the number of another one's file. *)
Crossed ==
  \A j \in Held(mem), k \in Held(files) : j # k => mem[j].seq # files[k].seq

(* The operation under way has a document to write, or some to remove, and a
   server that is down has neither. *)
StepInv ==
  /\ saving # None => mem[saving] # None
  /\ \A k \in gone : mem[k] = None /\ before[k] # None
  /\ saving # None => \A k \in Keys \ gone : k # saving => mem[k] = before[k]
  /\ ~up => saving = None /\ gone = {} /\ mem = Empty

(* What is on disk is the list, but for what the operation has still to do
   and for the keys a write or a removal failed on. *)
DiskInv ==
  up => \A k \in Keys \ dirty :
          files[k] = IF k = saving \/ k \in gone THEN before[k] ELSE mem[k]

(* The list with what is still to be removed: the files, once the write of
   the operation is done. *)
Full == [k \in Keys |-> IF k \in gone THEN before[k] ELSE mem[k]]

Untouched == {k \in Keys : before[k] # None /\ before[k] = mem[k]}
NewerOf(j) == {x \in OfKind(mem, j[1]) : mem[x].seq > before[j].seq}

(* A document that goes and is newer than one that stays goes for its kind's
   cap: a whole cap of newer ones of its kind stay. *)
Justified ==
  \A k \in Untouched, j \in gone :
    before[j].seq >= before[k].seq => Cardinality(NewerOf(j)) >= cap

RoomInv ==
  /\ saving # None => Within(before, cap)
  /\ Justified \/ Within(Full, cap)

IInv ==
  /\ TypeOK /\ List(mem) /\ List(files) /\ List(before)
  /\ Written(mem) /\ Written(files)
  /\ SeqOrder /\ Crossed
  /\ StepInv /\ DiskInv /\ RoomInv

-----------------------------------------------------------------------------
(* A finite set of numbered things has a newest: by a smallest counterexample
   among its subsets, strict inclusion being well founded on the finite ones. *)
LEMMA Newest ==
  ASSUME NEW S, IsFiniteSet(S), S # {}, NEW f \in [S -> Nat]
  PROVE  \E x \in S : \A y \in S : f[y] <= f[x]
  <1> DEFINE T == {U \in FiniteSubsetsOf(S) :
                     U # {} /\ ~ \E x \in U : \A y \in U : f[y] <= f[x]}
             R == StrictSubsetOrdering(S)
  <1> SUFFICES ASSUME T # {} PROVE FALSE
    BY FS_FiniteSubsetsOfFinite
  <1>1. PICK U \in T : \A V \in T : <<V, U>> \notin R
    <2>1. T \subseteq FiniteSubsetsOf(S)
      OBVIOUS
    <2> QED
      BY <2>1, FS_StrictSubsetOrderingWellFounded, WFMin
  <1>2. U \subseteq S /\ IsFiniteSet(U) /\ U # {}
    BY <1>1 DEF FiniteSubsetsOf
  <1>3. PICK x \in U : TRUE
    BY <1>2
  <1> DEFINE V == U \ {x}
  <1>4. <<V, U>> \in R
    BY <1>2, <1>3 DEF StrictSubsetOrdering
  <1>5. V \in FiniteSubsetsOf(S)
    BY <1>2, FS_RemoveElement DEF FiniteSubsetsOf
  <1>6. V = {} \/ \E z \in V : \A y \in V : f[y] <= f[z]
    BY <1>1, <1>4, <1>5
  <1>7. \E z \in U : \A y \in U : f[y] <= f[z]
    <2>1. CASE V = {}
      BY <2>1, <1>2, <1>3
    <2>2. ASSUME NEW z \in V, \A y \in V : f[y] <= f[z]
          PROVE  \E w \in U : \A y \in U : f[y] <= f[w]
      <3>1. CASE f[x] <= f[z]
        BY <2>2, <3>1
      <3>2. CASE ~(f[x] <= f[z])
        <4>1. \A y \in U : f[y] \in Nat
          BY <1>2
        <4>2. \A y \in U : f[y] <= f[x]
          BY <2>2, <3>2, <4>1
        <4> QED
          BY <4>2
      <3> QED
        BY <3>1, <3>2
    <2> QED
      BY <1>6, <2>1, <2>2
  <1> QED
    BY <1>1, <1>7

(* And an oldest. *)
LEMMA Oldest ==
  ASSUME NEW S, IsFiniteSet(S), S # {}, NEW f \in [S -> Nat]
  PROVE  \E x \in S : \A y \in S : f[x] <= f[y]
  <1>1. PICK t \in S : \A y \in S : f[y] <= f[t]
    BY Newest
  <1> DEFINE g == [x \in S |-> f[t] - f[x]]
  <1>2. g \in [S -> Nat]
    BY <1>1
  <1>3. PICK x \in S : \A y \in S : g[y] <= g[x]
    BY <1>2, Newest
  <1>4. \A y \in S : f[x] <= f[y]
    BY <1>3
  <1> QED
    BY <1>4

(* The documents of a list, and what they take. *)
LEMMA DocTypes ==
  ASSUME NEW m, List(m), NEW k \in Held(m)
  PROVE  k \in Keys /\ m[k] \in Docs /\ m[k].seq \in Nat /\ m[k].size \in 0 .. DocMax
         /\ m[k].ver \in Nat /\ m[k] # None
  BY StoreAssumption DEF List, Held, Docs

LEMMA SeqOf ==
  ASSUME NEW m, List(m), NEW K \in SUBSET Held(m)
  PROVE  /\ IsFiniteSet(K) /\ Cardinality(K) \in Nat
         /\ [k \in K |-> m[k].seq] \in [K -> Nat]
  <1>1. \A k \in K : m[k].seq \in Nat
    BY DocTypes
  <1> QED
    BY <1>1, FS_Subset, FS_CardinalityType DEF List

LEMMA BytesLess ==
  ASSUME NEW m, List(m), NEW K \in SUBSET Held(m),
         NEW r, NEW J \in SUBSET K, \A k \in J : r[k] = m[k]
  PROVE  /\ Bytes(m, K) \in Nat /\ Bytes(r, J) \in Nat
         /\ Bytes(r, J) <= Bytes(m, K)
  <1> DEFINE B == UNION {{k} \X (1 .. m[k].size) : k \in K}
             C == UNION {{k} \X (1 .. r[k].size) : k \in J}
  <1>1. IsFiniteSet(K \X (1 .. DocMax))
    <2>1. 1 \in Int /\ DocMax \in Int
      BY StoreAssumption
    <2>2. IsFiniteSet(1 .. DocMax)
      BY <2>1, FS_Interval
    <2> QED
      BY <2>2, SeqOf, FS_Product
  <1>2. B \subseteq K \X (1 .. DocMax)
    <2> SUFFICES ASSUME NEW k \in K PROVE {k} \X (1 .. m[k].size) \subseteq K \X (1 .. DocMax)
      OBVIOUS
    <2>1. 1 .. m[k].size \subseteq 1 .. DocMax
      BY DocTypes, StoreAssumption
    <2> QED
      BY <2>1
  <1>3. C \subseteq B
    OBVIOUS
  <1>4. IsFiniteSet(B) /\ IsFiniteSet(C) /\ Cardinality(C) <= Cardinality(B)
    BY <1>1, <1>2, <1>3, FS_Subset
  <1> QED
    BY <1>4, FS_CardinalityType DEF Bytes

(* One document alone fits. *)
LEMMA BytesOfOne ==
  ASSUME NEW m, List(m), NEW k \in Held(m)
  PROVE  Bytes(m, {k}) <= DocMax
  <1>1. m[k].size \in Nat /\ m[k].size <= DocMax
    BY DocTypes, StoreAssumption
  <1>2. IsFiniteSet({k}) /\ Cardinality({k}) = 1
    BY FS_Singleton
  <1>3. 1 \in Int /\ m[k].size \in Int
    BY <1>1
  <1>4. IsFiniteSet(1 .. m[k].size) /\ Cardinality(1 .. m[k].size) = m[k].size
    <2>1. /\ IsFiniteSet(1 .. m[k].size)
          /\ Cardinality(1 .. m[k].size) = IF 1 > m[k].size THEN 0 ELSE m[k].size - 1 + 1
      BY <1>3, FS_Interval
    <2> QED
      BY <1>1, <2>1
  <1>5. Cardinality({k} \X (1 .. m[k].size)) = 1 * m[k].size
    <2>1. PICK S, T : S = {k} /\ T = 1 .. m[k].size
      OBVIOUS
    <2>2. IsFiniteSet(S) /\ IsFiniteSet(T)
      BY <1>2, <1>4, <2>1
    <2>3. Cardinality(S \X T) = Cardinality(S) * Cardinality(T)
      BY <2>2, FS_Product
    <2>4. Cardinality(S) = 1 /\ Cardinality(T) = m[k].size
      BY <1>2, <1>4, <2>1
    <2>5. S \X T = {k} \X (1 .. m[k].size)
      BY <2>1
    <2> QED
      BY <2>3, <2>4, <2>5
  <1>6. UNION {{j} \X (1 .. m[j].size) : j \in {k}} = {k} \X (1 .. m[k].size)
    OBVIOUS
  <1> QED
    BY <1>1, <1>5, <1>6 DEF Bytes

-----------------------------------------------------------------------------
(* trim: those with at most c of the kind from themselves on are at most c. *)
LEMMA KindLimit ==
  ASSUME NEW m, List(m), NEW kind, NEW c \in Nat,
         NEW K \in SUBSET OfKind(m, kind),
         K \cap KindVictims(m, kind, c) = {}
  PROVE  Cardinality(K) <= c
  <1>1. K \subseteq Held(m) /\ OfKind(m, kind) \subseteq Held(m)
    BY DEF OfKind
  <1>2. CASE K = {}
    BY <1>2, FS_EmptySet
  <1>3. CASE K # {}
    <2> DEFINE f == [k \in K |-> m[k].seq]
    <2>1. IsFiniteSet(K) /\ Cardinality(K) \in Nat /\ f \in [K -> Nat]
      BY <1>1, SeqOf
    <2>2. PICK x \in K : \A y \in K : f[x] <= f[y]
      BY <1>3, <2>1, Oldest
    <2> DEFINE F == From(m, OfKind(m, kind), x)
    <2>3. K \subseteq F
      <3>1. \A y \in K : m[y].seq \in Nat /\ m[x].seq \in Nat /\ m[x].seq <= m[y].seq
        BY <1>1, <2>2, DocTypes
      <3> QED
        BY <3>1 DEF From
    <2>4. F \in SUBSET Held(m)
      BY <1>1 DEF From
    <2>5. IsFiniteSet(F) /\ Cardinality(F) \in Nat
      BY <2>4, SeqOf
    <2>6. Cardinality(K) <= Cardinality(F)
      BY <2>3, <2>5, FS_Subset
    <2>7. ~(Cardinality(F) > c)
      BY <2>2 DEF KindVictims
    <2> QED
      BY <2>1, <2>5, <2>6, <2>7
  <1> QED
    BY <1>2, <1>3

(* trim_bytes: what is left, the one to keep among it, fits. *)
LEMMA ByteLimit ==
  ASSUME NEW m, List(m), NEW keep,
         NEW K \in SUBSET Held(m), K \cap ByteVictims(m, keep) = {}
  PROVE  Bytes(m, K) <= StoreMax
  <1> DEFINE L == K \ {keep}
             kept == {keep} \cap Held(m)
             f == [k \in L |-> m[k].seq]
  <1>1. CASE L = {}
    <2>1. K = {} \/ K = {keep}
      BY <1>1
    <2>2. CASE K = {keep}
      <3>1. keep \in Held(m) /\ {keep} \in SUBSET Held(m)
        BY <2>2
      <3>2. Bytes(m, {keep}) <= DocMax
        BY <3>1, BytesOfOne
      <3>3. Bytes(m, {keep}) \in Nat
        BY <3>1, BytesLess
      <3> QED
        BY <2>2, <3>2, <3>3, StoreAssumption
    <2>3. CASE K = {}
      <3>1. UNION {{k} \X (1 .. m[k].size) : k \in {}} = {}
        OBVIOUS
      <3> QED
        BY <2>3, <3>1, FS_EmptySet, StoreAssumption DEF Bytes
    <2> QED
      BY <2>1, <2>2, <2>3
  <1>2. CASE L # {}
    <2>1. IsFiniteSet(L) /\ f \in [L -> Nat]
      BY SeqOf
    <2>2. PICK x \in L : \A y \in L : f[x] <= f[y]
      BY <1>2, <2>1, Oldest
    <2> DEFINE F == From(m, Held(m), x) \cup kept
    <2>3. K \subseteq F
      <3>1. \A y \in L : m[y].seq \in Nat /\ m[x].seq \in Nat /\ m[x].seq <= m[y].seq
        BY <2>2, DocTypes
      <3> QED
        BY <3>1 DEF From
    <2>4. F \in SUBSET Held(m)
      BY DEF From
    <2>5. Bytes(m, K) <= Bytes(m, F) /\ Bytes(m, K) \in Nat /\ Bytes(m, F) \in Nat
      BY <2>3, <2>4, BytesLess
    <2>6. ~(Bytes(m, F) > StoreMax)
      BY <2>2 DEF ByteVictims
    <2> QED
      BY <2>5, <2>6, StoreAssumption
  <1> QED
    BY <1>1, <1>2

(* Taking documents out of a list. *)
LEMMA WithoutList ==
  ASSUME NEW m, List(m), NEW V
  PROVE  LET r == Without(m, V)
         IN /\ List(r)
            /\ Held(r) = Held(m) \ V
            /\ \A k \in Held(r) : r[k] = m[k]
            /\ \A kind : OfKind(r, kind) = OfKind(m, kind) \ V
  <1> DEFINE r == Without(m, V)
  <1>1. r \in [Keys -> Docs \cup {None}]
    BY DEF Without, List
  <1>2. Held(r) = Held(m) \ V /\ \A k \in Held(r) : r[k] = m[k]
    BY DEF Held, Without
  <1>3. IsFiniteSet(Held(r))
    BY <1>2, FS_Difference DEF List
  <1>4. List(r)
    BY <1>1, <1>2, <1>3 DEF List
  <1>5. \A kind : OfKind(r, kind) = OfKind(m, kind) \ V
    BY <1>2 DEF OfKind
  <1> QED
    BY <1>2, <1>4, <1>5

(* The two trims one after the other, as put and open do them: V are the
   documents past their kind's cap, of the kinds that are looked at. *)
LEMMA TrimmedList ==
  ASSUME NEW m, List(m), NEW V, NEW keep, NEW c \in Nat,
         \A kind \in Kinds : \/ KindVictims(m, kind, c) \subseteq V
                            \/ Cardinality(OfKind(m, kind)) <= c
  PROVE  LET r == TrimBytes(Without(m, V), keep)
         IN /\ List(r) /\ Within(r, c)
            /\ Held(r) \subseteq Held(m) \ V
            /\ \A k \in Held(r) : r[k] = m[k]
            /\ keep \in Held(m) \ V => keep \in Held(r)
  <1> DEFINE n == Without(m, V)
             W == ByteVictims(n, keep)
             r == TrimBytes(n, keep)
  <1>1. /\ List(n) /\ Held(n) = Held(m) \ V
        /\ \A k \in Held(n) : n[k] = m[k]
        /\ \A kind : OfKind(n, kind) = OfKind(m, kind) \ V
    BY WithoutList
  <1>2. /\ List(r) /\ Held(r) = Held(n) \ W
        /\ \A k \in Held(r) : r[k] = n[k]
        /\ \A kind : OfKind(r, kind) = OfKind(n, kind) \ W
    BY <1>1, WithoutList DEF TrimBytes
  <1>3. ASSUME NEW kind \in Kinds PROVE Cardinality(OfKind(r, kind)) <= c
    <2>1. OfKind(r, kind) \subseteq OfKind(m, kind) /\ OfKind(r, kind) \cap V = {}
      BY <1>1, <1>2
    <2>2. CASE KindVictims(m, kind, c) \subseteq V
      BY <2>1, <2>2, KindLimit
    <2>3. CASE Cardinality(OfKind(m, kind)) <= c
      <3>1. OfKind(m, kind) \in SUBSET Held(m) /\ OfKind(r, kind) \in SUBSET Held(m)
        BY <2>1 DEF OfKind
      <3>2. IsFiniteSet(OfKind(m, kind)) /\ Cardinality(OfKind(m, kind)) \in Nat
            /\ Cardinality(OfKind(r, kind)) \in Nat
        BY <3>1, SeqOf
      <3>3. Cardinality(OfKind(r, kind)) <= Cardinality(OfKind(m, kind))
        BY <2>1, <3>2, FS_Subset
      <3> QED
        BY <2>3, <3>2, <3>3
    <2> QED
      BY <2>2, <2>3
  <1>4. Bytes(r, Held(r)) <= StoreMax
    <2>1. Held(r) \in SUBSET Held(n) /\ Held(r) \cap W = {}
      BY <1>2
    <2>2. Bytes(n, Held(r)) <= StoreMax
      BY <1>1, <2>1, ByteLimit
    <2>3. Bytes(r, Held(r)) <= Bytes(n, Held(r)) /\ Bytes(r, Held(r)) \in Nat
          /\ Bytes(n, Held(r)) \in Nat
      BY <1>1, <1>2, <2>1, BytesLess
    <2> QED
      BY <2>2, <2>3, StoreAssumption
  <1>5. keep \notin W
    BY DEF ByteVictims
  <1> QED
    BY <1>1, <1>2, <1>3, <1>4, <1>5 DEF Within

(* What the two trims take out and is newer than something they leave, goes
   for the cap of its kind: a whole cap of newer ones of its kind is left. *)
LEMMA GoneForCap ==
  ASSUME NEW m, List(m), Distinct(m), NEW V, NEW keep, NEW c \in Nat,
         \A x \in V : x \in KindVictims(m, x[1], c) /\ KindVictims(m, x[1], c) \subseteq V,
         NEW r, r = TrimBytes(Without(m, V), keep),
         NEW k \in Held(r), k # keep,
         NEW j \in Held(m) \ Held(r), m[j].seq >= m[k].seq
  PROVE  Cardinality({x \in OfKind(r, j[1]) : r[x].seq > m[j].seq}) >= c
  <1> DEFINE n == Without(m, V)
             W == ByteVictims(n, keep)
             kept == {keep} \cap Held(n)
             KV == KindVictims(m, j[1], c)
  <1>1. /\ List(n) /\ Held(n) = Held(m) \ V
        /\ \A x \in Held(n) : n[x] = m[x]
    BY WithoutList
  <1>2. /\ List(r) /\ Held(r) = Held(n) \ W
        /\ \A x \in Held(r) : r[x] = m[x]
    BY <1>1, WithoutList DEF TrimBytes
  <1>3. \A x \in Held(m) : m[x].seq \in Nat
    BY DocTypes
  <1>4. k \in Held(n) /\ k \notin W
    BY <1>2
  <1>5. ASSUME NEW x \in Held(n), m[x].seq >= m[k].seq PROVE x \notin W
    <2> DEFINE A == From(n, Held(n), x) \cup kept
               B == From(n, Held(n), k) \cup kept
    <2>1. A \subseteq B /\ B \in SUBSET Held(n)
      <3>1. n[x].seq >= n[k].seq /\ \A y \in Held(n) : n[y].seq \in Nat
        BY <1>1, <1>3, <1>4, <1>5
      <3> QED
        BY <1>4, <3>1 DEF From
    <2>2. Bytes(n, A) <= Bytes(n, B) /\ Bytes(n, A) \in Nat /\ Bytes(n, B) \in Nat
      BY <1>1, <2>1, BytesLess
    <2>3. ~(Bytes(n, B) > StoreMax)
      BY <1>4 DEF ByteVictims
    <2>4. ~(Bytes(n, A) > StoreMax)
      BY <2>2, <2>3, StoreAssumption
    <2> QED
      BY <2>4 DEF ByteVictims
  <1>6. j \in V /\ j \in KV
    BY <1>1, <1>2, <1>5
  <1>7. KV \in SUBSET Held(m)
    BY DEF KindVictims, OfKind
  <1>8. PICK t \in KV : \A y \in KV : m[y].seq <= m[t].seq
    <2> DEFINE f == [y \in KV |-> m[y].seq]
    <2>1. IsFiniteSet(KV) /\ f \in [KV -> Nat]
      BY <1>7, SeqOf
    <2>2. PICK t \in KV : \A y \in KV : f[y] <= f[t]
      BY <1>6, <2>1, Newest
    <2> QED
      BY <2>2
  <1> DEFINE F == From(m, OfKind(m, j[1]), t)
             G == F \ {t}
             N == {x \in OfKind(r, j[1]) : r[x].seq > m[j].seq}
  <1>9. F \in SUBSET Held(m) /\ t \in F /\ t \in Held(m)
    BY <1>3, <1>7, <1>8 DEF From, KindVictims, OfKind
  <1>10. IsFiniteSet(F) /\ Cardinality(F) \in Nat
    BY <1>9, SeqOf
  <1>11. Cardinality(F) > c
    BY <1>8 DEF KindVictims
  <1>12. Cardinality(G) = Cardinality(F) - 1
    BY <1>9, <1>10, FS_RemoveElement
  <1>13. G \subseteq N
    <2> SUFFICES ASSUME NEW x \in G PROVE x \in N
      OBVIOUS
    <2>1. x \in OfKind(m, j[1]) /\ x \in Held(m) /\ x[1] = j[1] /\ m[x].seq >= m[t].seq
      BY DEF From, OfKind
    <2>2. m[x].seq > m[t].seq
      BY <1>3, <1>9, <2>1 DEF Distinct
    <2>3. x \notin KV
      BY <1>3, <1>8, <1>9, <2>1, <2>2
    <2>4. x \notin V
      BY <2>1, <2>3
    <2>5. m[t].seq >= m[j].seq
      BY <1>3, <1>6, <1>8, <1>9
    <2>6. k \in Held(m)
      BY <1>1, <1>4
    <2>7. m[x].seq > m[j].seq /\ m[x].seq >= m[k].seq
      BY <1>3, <1>9, <2>1, <2>2, <2>5, <2>6
    <2>8. x \in Held(r) /\ r[x] = m[x]
      BY <1>1, <1>2, <1>5, <2>1, <2>4, <2>7
    <2> QED
      BY <2>1, <2>7, <2>8 DEF OfKind
  <1>14. IsFiniteSet(N) /\ Cardinality(N) \in Nat
    <2>1. N \in SUBSET Held(r)
      BY DEF OfKind
    <2> QED
      BY <1>2, <2>1, SeqOf
  <1>15. Cardinality(G) <= Cardinality(N)
    BY <1>13, <1>14, FS_Subset
  <1> QED
    BY <1>10, <1>11, <1>12, <1>14, <1>15

(* What a restart finds: from a list r within its limits, and files that hold
   it and perhaps others, each of which is older than k or has a whole cap of
   newer ones of its kind in r, the trim of open keeps k. *)
LEMMA Found ==
  ASSUME NEW f, List(f), NEW r, List(r), NEW c \in Nat, Within(r, c),
         Held(r) \subseteq Held(f), \A x \in Held(r) : f[x] = r[x],
         NEW k \in Held(r),
         \A j \in Held(f) \ Held(r) : f[j].seq >= f[k].seq =>
            Cardinality({x \in OfKind(r, j[1]) : r[x].seq > f[j].seq}) >= c
  PROVE  TrimAll(f, c)[k] = f[k]
  <1> DEFINE U == UNION {KindVictims(f, kind, c) : kind \in Kinds}
             n == Without(f, U)
             N(j) == {x \in OfKind(r, j[1]) : r[x].seq > f[j].seq}
  <1>1. \A x \in Held(f) : f[x].seq \in Nat /\ x \in Keys /\ x[1] \in Kinds
    BY DocTypes DEF Keys
  <1>2. \A j : /\ IsFiniteSet(N(j)) /\ Cardinality(N(j)) \in Nat
              /\ IsFiniteSet(OfKind(r, j[1])) /\ Cardinality(OfKind(r, j[1])) \in Nat
    <2> SUFFICES ASSUME NEW j
                 PROVE  /\ IsFiniteSet(N(j)) /\ Cardinality(N(j)) \in Nat
                        /\ IsFiniteSet(OfKind(r, j[1])) /\ Cardinality(OfKind(r, j[1])) \in Nat
      OBVIOUS
    <2>1. N(j) \in SUBSET Held(r) /\ OfKind(r, j[1]) \in SUBSET Held(r)
      BY DEF OfKind
    <2> QED
      BY <2>1, SeqOf
  <1>3. ASSUME NEW j \in Held(f) \ Held(r), f[j].seq >= f[k].seq
        PROVE  j[1] # k[1] /\ j \in KindVictims(f, j[1], c)
    <2>0. Cardinality(N(j)) \in Nat /\ Cardinality(OfKind(r, j[1])) \in Nat
      BY <1>2
    <2>1. Cardinality(N(j)) >= c
      BY <1>3
    <2>2. j[1] # k[1]
      <3> SUFFICES ASSUME j[1] = k[1] PROVE FALSE
        OBVIOUS
      <3>1. k \notin N(j) /\ k \in OfKind(r, j[1]) /\ k[1] \in Kinds
        BY <1>1, <1>3 DEF OfKind
      <3>2. Cardinality(N(j) \cup {k}) = Cardinality(N(j)) + 1
        BY <1>2, <3>1, FS_AddElement
      <3>3. N(j) \cup {k} \subseteq OfKind(r, j[1])
        BY <3>1
      <3>4. Cardinality(N(j) \cup {k}) <= Cardinality(OfKind(r, j[1]))
        BY <1>2, <3>3, FS_Subset
      <3>5. Cardinality(OfKind(r, j[1])) <= c
        BY <3>1 DEF Within
      <3> QED
        BY <2>0, <2>1, <3>2, <3>4, <3>5
    <2> DEFINE F == From(f, OfKind(f, j[1]), j)
    <2>3. N(j) \cup {j} \subseteq F /\ j \notin N(j)
      BY <1>1, <1>3 DEF From, OfKind
    <2>4. F \in SUBSET Held(f)
      BY DEF From, OfKind
    <2>5. IsFiniteSet(F) /\ Cardinality(F) \in Nat
      BY <2>4, SeqOf
    <2>6. Cardinality(N(j) \cup {j}) = Cardinality(N(j)) + 1
      BY <1>2, <2>3, FS_AddElement
    <2>7. Cardinality(N(j) \cup {j}) <= Cardinality(F)
      BY <2>3, <2>5, FS_Subset
    <2>8. Cardinality(F) > c
      BY <2>0, <2>1, <2>5, <2>6, <2>7
    <2> QED
      BY <2>2, <2>8, <1>3 DEF KindVictims, OfKind
  <1>4. k \notin U
    <2> SUFFICES k \notin KindVictims(f, k[1], c)
      BY DEF KindVictims, OfKind
    <2> DEFINE F == From(f, OfKind(f, k[1]), k)
    <2>1. F \subseteq OfKind(r, k[1])
      BY <1>3 DEF From, OfKind
    <2>2. Cardinality(F) <= Cardinality(OfKind(r, k[1])) /\ Cardinality(F) \in Nat
      BY <1>2, <2>1, FS_Subset, FS_CardinalityType
    <2>3. Cardinality(OfKind(r, k[1])) <= c
      BY <1>1 DEF Within
    <2>4. Cardinality(OfKind(r, k[1])) \in Nat
      BY <1>2
    <2>5. ~(Cardinality(F) > c)
      BY <2>2, <2>3, <2>4
    <2> QED
      BY <2>5 DEF KindVictims
  <1>5. List(n) /\ Held(n) = Held(f) \ U /\ \A x \in Held(n) : n[x] = f[x]
    BY WithoutList
  <1> DEFINE H == From(n, Held(n), k) \cup ({None} \cap Held(n))
  <1>6. H \subseteq Held(r)
    <2> SUFFICES ASSUME NEW j \in H PROVE j \in Held(r)
      OBVIOUS
    <2>1. None \notin Held(n)
      BY StoreAssumption DEF Held, Keys
    <2>2. j \in Held(n) /\ n[j].seq >= n[k].seq
      BY <2>1 DEF From
    <2>3. j \in Held(f) /\ f[j].seq >= f[k].seq /\ j \notin U
      BY <1>4, <1>5, <2>2
    <2> QED
      BY <1>1, <1>3, <2>3
  <1>7. Bytes(n, H) <= Bytes(r, Held(r)) /\ Bytes(n, H) \in Nat /\ Bytes(r, Held(r)) \in Nat
    <2>1. \A x \in H : n[x] = r[x]
      BY <1>5, <1>6 DEF From
    <2> QED
      BY <1>6, <2>1, BytesLess
  <1>8. ~(Bytes(n, H) > StoreMax)
    BY <1>7, StoreAssumption DEF Within
  <1>9. k \notin ByteVictims(n, None)
    BY <1>8 DEF ByteVictims
  <1>10. TrimAll(f, c)[k] = n[k]
    BY <1>1, <1>9 DEF TrimAll, TrimBytes, Without
  <1> QED
    BY <1>4, <1>5, <1>10

-----------------------------------------------------------------------------
(* Lists made from lists. *)
LEMMA EmptyList == List(Empty) /\ Held(Empty) = {}
  <1>1. Held(Empty) = {}
    BY DEF Held, Empty
  <1> QED
    BY <1>1, FS_EmptySet DEF List, Empty

LEMMA ListWith ==
  ASSUME NEW m, List(m), NEW k \in Keys, NEW d \in Docs, d.size <= DocMax,
         NEW r \in [Keys -> Docs \cup {None}], r[k] = d,
         \A j \in Keys : j # k => r[j] = m[j]
  PROVE  List(r) /\ Held(r) = Held(m) \cup {k}
  <1>1. d # None
    BY StoreAssumption DEF Docs
  <1>2. Held(r) = Held(m) \cup {k}
    BY <1>1 DEF Held
  <1>3. IsFiniteSet(Held(r))
    <2>1. IsFiniteSet(Held(m))
      BY DEF List
    <2>2. IsFiniteSet(Held(m) \cup {k})
      BY <2>1, FS_AddElement
    <2> QED
      BY <1>2, <2>2
  <1> QED
    BY <1>2, <1>3 DEF List, Held

LEMMA ListLess ==
  ASSUME NEW m, List(m), NEW k \in Keys,
         NEW r \in [Keys -> Docs \cup {None}], r[k] = None,
         \A j \in Keys : j # k => r[j] = m[j]
  PROVE  List(r) /\ Held(r) = Held(m) \ {k}
  <1>2. Held(r) = Held(m) \ {k}
    BY DEF Held
  <1>3. IsFiniteSet(Held(r))
    <2>1. IsFiniteSet(Held(m))
      BY DEF List
    <2>2. IsFiniteSet(Held(m) \ {k})
      BY <2>1, FS_RemoveElement
    <2> QED
      BY <1>2, <2>2
  <1> QED
    BY <1>2, <1>3 DEF List, Held

(* A list inside one within its limits is within them. *)
LEMMA WithinLess ==
  ASSUME NEW m, List(m), NEW r, List(r), NEW c \in Nat, Within(m, c),
         Held(r) \subseteq Held(m), \A x \in Held(r) : r[x] = m[x]
  PROVE  Within(r, c)
  <1>1. ASSUME NEW kind \in Kinds PROVE Cardinality(OfKind(r, kind)) <= c
    <2>1. OfKind(r, kind) \subseteq OfKind(m, kind) /\ OfKind(m, kind) \in SUBSET Held(m)
      BY DEF OfKind
    <2>2. IsFiniteSet(OfKind(m, kind)) /\ Cardinality(OfKind(m, kind)) \in Nat
      BY <2>1, SeqOf
    <2>3. /\ Cardinality(OfKind(r, kind)) <= Cardinality(OfKind(m, kind))
          /\ Cardinality(OfKind(r, kind)) \in Nat
      BY <2>1, <2>2, FS_Subset, FS_CardinalityType
    <2> QED
      BY <2>2, <2>3 DEF Within
  <1>2. Bytes(r, Held(r)) <= StoreMax
    <2>1. /\ Bytes(r, Held(r)) <= Bytes(m, Held(m))
          /\ Bytes(r, Held(r)) \in Nat /\ Bytes(m, Held(m)) \in Nat
      BY BytesLess
    <2> QED
      BY <2>1, StoreAssumption DEF Within
  <1> QED
    BY <1>1, <1>2 DEF Within

(* The last number is at least every number. *)
LEMMA LastIsLast ==
  ASSUME NEW m, List(m)
  PROVE  Last(m) \in Nat /\ \A k \in Held(m) : m[k].seq <= Last(m)
  <1> DEFINE S == {0} \cup {m[k].seq : k \in Held(m)}
             P(x) == x \in S /\ \A y \in S : x >= y
  <1>1. S \subseteq Nat
    BY DocTypes
  <1>2. \E x \in S : \A y \in S : x >= y
    <2>1. CASE Held(m) = {}
      BY <2>1
    <2>2. CASE Held(m) # {}
      <3> DEFINE f == [k \in Held(m) |-> m[k].seq]
      <3>1. IsFiniteSet(Held(m)) /\ f \in [Held(m) -> Nat]
        BY SeqOf
      <3>2. PICK t \in Held(m) : \A y \in Held(m) : f[y] <= f[t]
        BY <2>2, <3>1, Newest
      <3>3. m[t].seq \in S /\ m[t].seq \in Nat
        BY <1>1
      <3>4. \A y \in S : m[t].seq >= y
        BY <3>1, <3>2, <3>3
      <3> QED
        BY <3>3, <3>4
    <2> QED
      BY <2>1, <2>2
  <1>3. Last(m) \in S /\ \A y \in S : Last(m) >= y
    BY <1>2 DEF Last, Max
  <1>4. \A k \in Held(m) : m[k].seq \in S
    OBVIOUS
  <1> QED
    BY <1>1, <1>3, <1>4

(* What TypeOK says of the limits. *)
LEMMA TypeWithin == TypeOK => Within(mem, cap) /\ cap \in Nat /\ cap > 0
  <1> SUFFICES ASSUME TypeOK PROVE Within(mem, cap) /\ cap \in Nat /\ cap > 0
    OBVIOUS
  <1>1. cap \in Caps /\ Caps \subseteq Nat \ {0}
    BY StoreAssumption DEF TypeOK
  <1>2. Within(mem, cap)
    BY DEF TypeOK, Within
  <1> QED
    BY <1>1, <1>2

-----------------------------------------------------------------------------
(* An operation begins.  out is the list with what the client sent, m what is
   left of it after the trims. *)
LEMMA BeginStep ==
  ASSUME IInv, NEW k0 \in Keys \cup {None}, NEW out, NEW m,
         Begin(k0, out, m),
         UNCHANGED <<up, cap, files, tmp, dirty, faults, crashes>>,
         seq' \in Nat, seq' >= seq, writes' \in Nat, writes' >= writes,
         List(out), Distinct(out),
         \A k \in Held(out) : out[k].seq <= seq' /\ out[k].ver <= writes',
         \A k \in Keys : k # k0 => out[k] = mem[k],
         k0 # None => \A k \in Held(files) : k # k0 => out[k0].seq # files[k].seq,
         List(m), Within(m, cap), Held(m) \subseteq Held(out),
         \A k \in Held(m) : m[k] = out[k],
         k0 # None => k0 \in Held(m),
         \/ k0 = None
         \/ \A k \in Held(m), j \in Held(out) \ Held(m) :
               mem[k] = m[k] /\ out[j].seq >= out[k].seq =>
                 Cardinality({x \in OfKind(m, j[1]) : m[x].seq > out[j].seq}) >= cap
  PROVE  IInv'
  <1>1. /\ TypeOK /\ List(mem) /\ List(files) /\ List(before)
        /\ Written(mem) /\ Written(files) /\ SeqOrder /\ Crossed
        /\ StepInv /\ DiskInv
    BY DEF IInv
  <1>2. /\ up /\ saving = None /\ gone = {}
        /\ before' = mem /\ mem' = m /\ saving' = k0
        /\ gone' = {j \in Keys : out[j] # None /\ m[j] = None}
    BY DEF Begin, Busy
  <1>3. gone' = Held(out) \ Held(m) /\ k0 \notin gone'
    <2>1. gone' = Held(out) \ Held(m)
      BY <1>2 DEF Held
    <2>2. None \notin Held(out)
      BY StoreAssumption DEF Held, Keys
    <2> QED
      BY <2>1, <2>2
  <1>4. \A k \in Keys : k \notin gone' /\ k # k0 => m[k] = mem[k]
    BY <1>2, <1>3 DEF Held
  <1>5. \A k \in gone' : k \in Keys /\ m[k] = None /\ out[k] = mem[k] /\ mem[k] # None
    BY <1>2, <1>3
  <1>6. TypeOK'
    <2>1. mem' \in [Keys -> Docs \cup {None}] /\ before' \in [Keys -> Docs \cup {None}]
      BY <1>1, <1>2 DEF List
    <2>2. gone' \subseteq Keys /\ saving' \in Keys \cup {None}
      BY <1>2
    <2>3. saving' # None => mem'[saving'] # None
      BY <1>2 DEF Held
    <2>4. /\ \A kind \in Kinds : Cardinality(OfKind(mem', kind)) <= cap'
          /\ Bytes(mem', Held(mem')) <= StoreMax
      BY <1>2 DEF Within
    <2> QED
      BY <1>1, <2>1, <2>2, <2>3, <2>4 DEF TypeOK
  <1>7. List(mem)' /\ List(files)' /\ List(before)'
    BY <1>1, <1>2 DEF List
  <1>8. Written(mem)' /\ Written(files)'
    <2>1. \A k \in Held(files) : files[k].ver <= writes'
      <3>1. \A k \in Held(files) : files[k].ver \in Nat
        BY <1>1, DocTypes
      <3> QED
        BY <1>1, <3>1 DEF Written, TypeOK
    <2> QED
      BY <1>2, <2>1 DEF Written
  <1>9. SeqOrder'
    <2>1. Distinct(mem)' /\ Below(mem)'
      BY <1>2 DEF Distinct, Below
    <2>2. Distinct(files)'
      BY <1>1 DEF Distinct, SeqOrder
    <2>3. Below(files)'
      <3>1. \A k \in Held(files) : files[k].seq \in Nat
        BY <1>1, DocTypes
      <3> QED
        BY <1>1, <1>2, <3>1 DEF Below, SeqOrder, TypeOK
    <2> QED
      BY <2>1, <2>2, <2>3 DEF SeqOrder
  <1>10. Crossed'
    <2> SUFFICES ASSUME NEW j \in Held(m), NEW k \in Held(files), j # k
                 PROVE  m[j].seq # files[k].seq
      BY <1>2 DEF Crossed
    <2>1. CASE j = k0
      BY <2>1, StoreAssumption DEF Held, Keys
    <2>2. CASE j # k0
      <3>1. m[j] = mem[j] /\ j \in Held(mem)
        BY <1>3, <1>4, <2>2 DEF Held
      <3> QED
        BY <1>1, <3>1 DEF Crossed
    <2> QED
      BY <2>1, <2>2
  <1>11. StepInv'
    <2>1. saving' # None => mem'[saving'] # None
      BY <1>2 DEF Held
    <2> QED
      BY <1>2, <1>4, <1>5, <2>1 DEF StepInv
  <1>12. DiskInv'
    <2> SUFFICES ASSUME NEW k \in Keys \ dirty
                 PROVE  files[k] = IF k = k0 \/ k \in gone' THEN mem[k] ELSE m[k]
      BY <1>2 DEF DiskInv
    <2>1. k # None
      BY StoreAssumption DEF Keys
    <2>2. files[k] = mem[k]
      BY <1>1, <1>2, <2>1 DEF DiskInv
    <2> QED
      BY <1>4, <2>2
  <1>13. RoomInv'
    <2>1. Within(before, cap)'
      <3>1. Within(mem, cap)
        BY <1>1, TypeWithin
      <3> QED
        BY <1>2, <3>1 DEF Within
    <2>2. CASE k0 = None
      <3>1. Full' = mem
        <4>1. \A k \in Keys : (IF k \in gone' THEN before'[k] ELSE mem'[k]) = mem[k]
          BY <1>2, <1>4, <2>2, StoreAssumption DEF Keys
        <4>2. mem = [k \in Keys |-> mem[k]]
          BY <1>1 DEF List
        <4> QED
          BY <4>1, <4>2 DEF Full
      <3>2. Within(mem, cap)
        BY <1>1, TypeWithin
      <3>3. Within(Full, cap)'
        BY <3>1, <3>2 DEF Within
      <3> QED
        BY <2>1, <3>3 DEF RoomInv
    <2>3. CASE k0 # None
      <3>1. Justified'
        <4> SUFFICES ASSUME NEW k \in Untouched', NEW j \in gone',
                            before'[j].seq >= before'[k].seq
                     PROVE  Cardinality(NewerOf(j)') >= cap'
          BY DEF Justified
        <4>1. k \in Keys /\ mem[k] # None /\ mem[k] = m[k]
          BY <1>2 DEF Untouched
        <4>2. k \in Held(m) /\ out[k] = m[k]
          BY <4>1 DEF Held
        <4>3. j \in Held(out) \ Held(m) /\ out[j] = mem[j]
          BY <1>3, <1>5
        <4>4. out[j].seq >= out[k].seq
          BY <1>2, <4>1, <4>2, <4>3
        <4>5. Cardinality({x \in OfKind(m, j[1]) : m[x].seq > out[j].seq}) >= cap
          BY <2>3, <4>1, <4>2, <4>3, <4>4
        <4>6. NewerOf(j)' = {x \in OfKind(m, j[1]) : m[x].seq > out[j].seq}
          BY <1>2, <4>3 DEF NewerOf
        <4> QED
          BY <4>5, <4>6
      <3> QED
        BY <2>1, <3>1 DEF RoomInv
    <2> QED
      BY <2>2, <2>3
  <1> QED
    BY <1>6, <1>7, <1>8, <1>9, <1>10, <1>11, <1>12, <1>13 DEF IInv

LEMMA PutStep ==
  ASSUME IInv, NEW k \in Keys, NEW size \in Sizes, Put(k, size)
  PROVE  IInv'
  <1> DEFINE d == [seq |-> seq + 1, size |-> size, ver |-> writes + 1]
             put == [mem EXCEPT ![k] = d]
             V == KindVictims(put, k[1], cap)
             m == TrimBytes(Without(put, V), k)
  <1>1. /\ TypeOK /\ List(mem) /\ List(files) /\ Written(mem) /\ SeqOrder
        /\ cap \in Nat /\ cap > 0 /\ Within(mem, cap) /\ seq \in Nat /\ writes \in Nat
    BY TypeWithin DEF IInv, TypeOK
  <1>2. /\ Begin(k, put, m) /\ seq' = seq + 1 /\ writes' = writes + 1 /\ size <= DocMax
        /\ UNCHANGED <<up, cap, files, tmp, dirty, faults, crashes>>
    BY DEF Put, Trim
  <1>3. d \in Docs /\ d.size <= DocMax /\ d.seq = seq + 1 /\ d.ver = writes + 1 /\ d # None
    BY <1>1, <1>2, StoreAssumption DEF Docs
  <1> HIDE DEF d
  <1>0. /\ put \in [Keys -> Docs \cup {None}] /\ put[k] = d
        /\ \A j \in Keys : j # k => put[j] = mem[j]
    BY <1>1, <1>3 DEF List
  <1> HIDE DEF put
  <1>4. /\ List(put) /\ Held(put) = Held(mem) \cup {k} /\ put[k] = d
        /\ \A j \in Keys : j # k => put[j] = mem[j]
    BY <1>0, <1>1, <1>3, ListWith
  <1>5. \A j \in Held(mem) : j \in Keys /\ mem[j].seq <= seq /\ mem[j].seq \in Nat
                             /\ mem[j].ver <= writes /\ mem[j].ver \in Nat
    BY <1>1, DocTypes DEF SeqOrder, Below, Written
  <1>6. Distinct(put)
    BY <1>1, <1>3, <1>4, <1>5 DEF Distinct, SeqOrder
  <1>7. \A j \in Held(put) : put[j].seq <= seq' /\ put[j].ver <= writes'
    BY <1>1, <1>2, <1>3, <1>4, <1>5
  <1>8. \A j \in Held(files) : j # k => put[k].seq # files[j].seq
    <2>1. \A j \in Held(files) : files[j].seq \in Nat
      BY <1>1, DocTypes
    <2>2. up
      BY <1>2 DEF Begin
    <2> QED
      BY <1>1, <1>3, <1>4, <2>1, <2>2 DEF SeqOrder, Below
  <1>9. k \notin V
    <2>1. From(put, OfKind(put, k[1]), k) = {k}
      <3>1. \A j \in Held(put) : j # k => put[j].seq \in Nat /\ put[j].seq <= seq
        BY <1>4, <1>5
      <3> QED
        BY <1>1, <1>3, <1>4, <3>1 DEF From, OfKind
    <2>2. Cardinality(From(put, OfKind(put, k[1]), k)) = 1
      BY <2>1, FS_Singleton
    <2> QED
      BY <1>1, <2>2 DEF KindVictims
  <1>10. \A kind \in Kinds : \/ KindVictims(put, kind, cap) \subseteq V
                             \/ Cardinality(OfKind(put, kind)) <= cap
    <2> SUFFICES ASSUME NEW kind \in Kinds, kind # k[1]
                 PROVE  Cardinality(OfKind(put, kind)) <= cap
      OBVIOUS
    <2>1. OfKind(put, kind) = OfKind(mem, kind)
      BY <1>4 DEF OfKind
    <2> QED
      BY <1>1, <2>1 DEF Within
  <1>11. /\ List(m) /\ Within(m, cap) /\ Held(m) \subseteq Held(put)
         /\ \A j \in Held(m) : m[j] = put[j]
         /\ k \in Held(m)
    BY <1>1, <1>4, <1>9, <1>10, TrimmedList
  <1>12. \A x \in V : x \in KindVictims(put, x[1], cap) /\ KindVictims(put, x[1], cap) \subseteq V
    BY DEF KindVictims, OfKind
  <1>13. ASSUME NEW i \in Held(m), NEW j \in Held(put) \ Held(m),
                mem[i] = m[i], put[j].seq >= put[i].seq
         PROVE  Cardinality({x \in OfKind(m, j[1]) : m[x].seq > put[j].seq}) >= cap
    <2>1. i # k
      <3> SUFFICES ASSUME mem[k] = d PROVE FALSE
        BY <1>4, <1>11, <1>13
      <3>1. k \in Held(mem)
        BY <1>3 DEF Held
      <3> QED
        BY <1>1, <1>3, <1>5, <3>1
    <2> QED
      BY <1>1, <1>4, <1>6, <1>12, <1>13, <2>1, GoneForCap
  <1>14. seq' \in Nat /\ seq' >= seq /\ writes' \in Nat /\ writes' >= writes
    BY <1>1, <1>2
  <1> HIDE DEF m
  <1> QED
    BY <1>2, <1>4, <1>6, <1>7, <1>8, <1>11, <1>13, <1>14, BeginStep

LEMMA UpdateStep ==
  ASSUME IInv, NEW k \in Keys, NEW size \in Sizes, Update(k, size)
  PROVE  IInv'
  <1> DEFINE d == [mem[k] EXCEPT !.size = size, !.ver = writes + 1]
             put == [mem EXCEPT ![k] = d]
             n == Without(put, {})
             m == TrimBytes(put, k)
  <1>1. /\ TypeOK /\ List(mem) /\ List(files) /\ Written(mem) /\ SeqOrder /\ Crossed
        /\ cap \in Nat /\ cap > 0 /\ Within(mem, cap) /\ seq \in Nat /\ writes \in Nat
    BY TypeWithin DEF IInv, TypeOK
  <1>2. /\ Begin(k, put, m) /\ seq' = seq /\ writes' = writes + 1 /\ size <= DocMax
        /\ UNCHANGED <<up, cap, files, tmp, dirty, faults, crashes>>
        /\ k \in Held(mem)
    BY DEF Update, Held
  <1>3. d \in Docs /\ d.size <= DocMax /\ d.seq = mem[k].seq /\ d.ver = writes + 1
    <2>1. mem[k] \in Docs
      BY <1>1, <1>2, DocTypes
    <2>2. size \in Nat /\ writes + 1 \in Nat
      BY <1>1, StoreAssumption
    <2> DEFINE e == [mem[k] EXCEPT !.size = size]
    <2>3. e \in Docs /\ e.size = size /\ e.seq = mem[k].seq
      BY <2>1, <2>2 DEF Docs
    <2>4. d = [e EXCEPT !.ver = writes + 1]
      OBVIOUS
    <2> HIDE DEF e, d
    <2> QED
      BY <1>2, <2>2, <2>3, <2>4 DEF Docs
  <1> HIDE DEF d
  <1>0. /\ put \in [Keys -> Docs \cup {None}] /\ put[k] = d
        /\ \A j \in Keys : j # k => put[j] = mem[j]
    BY <1>1, <1>3 DEF List
  <1> HIDE DEF put
  <1>4. /\ List(put) /\ Held(put) = Held(mem) \cup {k} /\ put[k] = d
        /\ \A j \in Keys : j # k => put[j] = mem[j]
    BY <1>0, <1>1, <1>3, ListWith
  <1>5. \A j \in Held(mem) : j \in Keys /\ mem[j].seq <= seq /\ mem[j].seq \in Nat
                             /\ mem[j].ver <= writes /\ mem[j].ver \in Nat
    BY <1>1, DocTypes DEF SeqOrder, Below, Written
  <1>6. \A j \in Held(put) : j \in Held(mem) /\ put[j].seq = mem[j].seq
    BY <1>2, <1>3, <1>4, <1>5
  <1>7. Distinct(put)
    BY <1>1, <1>6 DEF Distinct, SeqOrder
  <1>8. \A j \in Held(put) : put[j].seq <= seq' /\ put[j].ver <= writes'
    BY <1>1, <1>2, <1>3, <1>4, <1>5, <1>6
  <1>9. \A j \in Held(files) : j # k => put[k].seq # files[j].seq
    BY <1>1, <1>2, <1>3, <1>4 DEF Crossed
  <1>10. n = put
    BY <1>4 DEF Without, List
  <1>11. \A kind \in Kinds : \/ KindVictims(put, kind, cap) \subseteq {}
                             \/ Cardinality(OfKind(put, kind)) <= cap
    <2> SUFFICES ASSUME NEW kind \in Kinds
                 PROVE  Cardinality(OfKind(put, kind)) <= cap
      OBVIOUS
    <2>1. OfKind(put, kind) = OfKind(mem, kind)
      BY <1>2, <1>4 DEF OfKind
    <2> QED
      BY <1>1, <2>1 DEF Within
  <1>12. m = TrimBytes(Without(put, {}), k)
    BY <1>10
  <1> HIDE DEF n, m
  <1>13. /\ List(m) /\ Within(m, cap) /\ Held(m) \subseteq Held(put)
         /\ \A j \in Held(m) : m[j] = put[j]
         /\ k \in Held(m)
    BY <1>1, <1>4, <1>11, <1>12, TrimmedList
  <1>14. ASSUME NEW i \in Held(m), NEW j \in Held(put) \ Held(m),
                mem[i] = m[i], put[j].seq >= put[i].seq
         PROVE  Cardinality({x \in OfKind(m, j[1]) : m[x].seq > put[j].seq}) >= cap
    <2>1. i # k
      <3> SUFFICES ASSUME mem[k] = d PROVE FALSE
        BY <1>4, <1>13, <1>14
      <3> QED
        BY <1>1, <1>2, <1>3, <1>5
    <2>2. \A x \in {} : x \in KindVictims(put, x[1], cap) /\ KindVictims(put, x[1], cap) \subseteq {}
      OBVIOUS
    <2> QED
      BY <1>1, <1>4, <1>7, <1>12, <1>14, <2>1, <2>2, GoneForCap
  <1>15. seq' \in Nat /\ seq' >= seq /\ writes' \in Nat /\ writes' >= writes
    BY <1>1, <1>2
  <1> QED
    BY <1>2, <1>4, <1>7, <1>8, <1>9, <1>13, <1>14, <1>15, BeginStep

LEMMA DeleteStep ==
  ASSUME IInv, NEW k \in Keys, Delete(k)
  PROVE  IInv'
  <1> DEFINE m == Without(mem, {k})
  <1>1. /\ TypeOK /\ List(mem) /\ Written(mem) /\ SeqOrder
        /\ cap \in Nat /\ Within(mem, cap) /\ seq \in Nat /\ writes \in Nat
    BY TypeWithin DEF IInv, TypeOK
  <1>2. /\ Begin(None, mem, m) /\ seq' = seq /\ writes' = writes
        /\ UNCHANGED <<up, cap, files, tmp, dirty, faults, crashes>>
    BY DEF Delete
  <1>3. List(m) /\ Held(m) = Held(mem) \ {k} /\ \A j \in Held(m) : m[j] = mem[j]
    BY <1>1, WithoutList
  <1>4. Within(m, cap)
    BY <1>1, <1>3, WithinLess
  <1>5. \A j \in Held(mem) : mem[j].seq <= seq' /\ mem[j].ver <= writes'
    BY <1>1, <1>2 DEF SeqOrder, Below, Written
  <1>6. Distinct(mem)
    BY <1>1 DEF SeqOrder
  <1>7. seq' \in Nat /\ seq' >= seq /\ writes' \in Nat /\ writes' >= writes
    BY <1>1, <1>2
  <1> HIDE DEF m
  <1> QED
    BY <1>1, <1>2, <1>3, <1>4, <1>5, <1>6, <1>7, BeginStep

-----------------------------------------------------------------------------
(* The steps on disk leave the list alone. *)
ListSame == UNCHANGED <<up, cap, mem, before, seq, writes, crashes>>

LEMMA SameList ==
  ASSUME IInv, ListSame
  PROVE  /\ List(mem)' /\ List(before)' /\ Written(mem)'
         /\ Distinct(mem)' /\ Below(mem)'
         /\ \A kind \in Kinds : Cardinality(OfKind(mem', kind)) <= cap'
         /\ Bytes(mem', Held(mem')) <= StoreMax
  <1>1. mem' = mem /\ before' = before /\ seq' = seq /\ writes' = writes /\ cap' = cap
    BY DEF ListSame
  <1>2. List(mem)' /\ List(before)'
    BY <1>1 DEF IInv, List
  <1>3. Written(mem)' /\ Distinct(mem)' /\ Below(mem)'
    BY <1>1 DEF IInv, SeqOrder, Written, Distinct, Below
  <1> QED
    BY <1>1, <1>2, <1>3 DEF IInv, TypeOK

(* Files that are as they were. *)
LEMMA SameFiles ==
  ASSUME IInv, ListSame, files' = files
  PROVE  List(files)' /\ Written(files)' /\ SeqOrder' /\ Crossed'
  <1>1. mem' = mem /\ seq' = seq /\ writes' = writes /\ up' = up
    BY DEF ListSame
  <1>2. List(files)' /\ Written(files)'
    BY <1>1 DEF IInv, List, Written
  <1>3. SeqOrder'
    BY <1>1, SameList DEF IInv, SeqOrder, Distinct, Below
  <1>4. Crossed'
    BY <1>1 DEF IInv, Crossed
  <1> QED
    BY <1>2, <1>3, <1>4

LEMMA SameRoom ==
  ASSUME IInv, ListSame, gone' = gone, saving' \in {saving, None}
  PROVE  RoomInv'
  <1>1. mem' = mem /\ before' = before /\ cap' = cap
    BY DEF ListSame
  <1>2. saving' # None => Within(before, cap)'
    BY <1>1 DEF IInv, RoomInv, Within
  <1>3. CASE Justified
    <2>1. Justified'
      BY <1>1, <1>3 DEF Justified, Untouched, NewerOf
    <2> QED
      BY <1>2, <2>1 DEF RoomInv
  <1>4. CASE Within(Full, cap)
    <2>1. Full' = Full
      BY <1>1 DEF Full
    <2>2. Within(Full, cap)'
      BY <1>1, <1>4, <2>1 DEF Within
    <2> QED
      BY <1>2, <2>2 DEF RoomInv
  <1> QED
    BY <1>3, <1>4 DEF IInv, RoomInv

LEMMA WriteTmpStep ==
  ASSUME IInv, WriteTmp
  PROVE  IInv'
  <1>1. /\ ListSame /\ files' = files /\ saving' = saving /\ gone' = gone
        /\ dirty' = dirty /\ faults' = faults
        /\ saving # None /\ tmp' = tmp \cup {saving}
    BY DEF WriteTmp, ListSame
  <1>2. mem' = mem /\ before' = before /\ up' = up
    BY <1>1 DEF ListSame
  <1>3. TypeOK'
    BY <1>1, SameList DEF IInv, TypeOK, ListSame
  <1>4. StepInv' /\ DiskInv'
    BY <1>1, <1>2 DEF IInv, StepInv, DiskInv
  <1> QED
    BY <1>1, <1>3, <1>4, SameList, SameFiles, SameRoom DEF IInv

LEMMA RenameStep ==
  ASSUME IInv, Rename
  PROVE  IInv'
  <1>1. /\ ListSame /\ saving' = None /\ gone' = gone /\ faults' = faults
        /\ files' = [files EXCEPT ![saving] = mem[saving]]
        /\ dirty' = dirty \ {saving} /\ tmp' = tmp \ {saving} /\ saving \in tmp
    BY DEF Rename, ListSame
  <1>2. mem' = mem /\ before' = before /\ up' = up /\ writes' = writes /\ seq' = seq
    BY <1>1 DEF ListSame
  <1>3. saving \in Keys /\ saving # None
    BY <1>1, StoreAssumption DEF IInv, TypeOK, Keys
  <1>4. saving \in Held(mem) /\ saving \notin gone
    BY <1>3 DEF IInv, StepInv, Held
  <1>5. mem[saving] \in Docs /\ mem[saving].size <= DocMax /\ List(mem) /\ List(files)
    BY <1>4 DEF IInv, List, Held
  <1>6. /\ files' \in [Keys -> Docs \cup {None}] /\ files'[saving] = mem[saving]
        /\ \A j \in Keys : j # saving => files'[j] = files[j]
    BY <1>1, <1>3, <1>5 DEF List
  <1>7. List(files') /\ Held(files') = Held(files) \cup {saving}
    BY <1>3, <1>5, <1>6, ListWith
  <1>8. \A j \in Held(files') : j \in Keys
    BY DEF Held
  <1>9. Written(files)'
    BY <1>2, <1>4, <1>6, <1>7, <1>8 DEF IInv, Written
  <1>10. Distinct(files)'
    <2> SUFFICES ASSUME NEW i \in Held(files'), NEW j \in Held(files'), i # j
                 PROVE  files'[i].seq # files'[j].seq
      BY DEF Distinct
    <2>1. CASE i = saving
      BY <1>4, <1>6, <1>7, <1>8, <2>1 DEF IInv, Crossed
    <2>2. CASE j = saving
      BY <1>4, <1>6, <1>7, <1>8, <2>2 DEF IInv, Crossed
    <2>3. CASE i # saving /\ j # saving
      BY <1>6, <1>7, <1>8, <2>3 DEF IInv, SeqOrder, Distinct
    <2> QED
      BY <2>1, <2>2, <2>3
  <1>11. (up => Below(files))'
    BY <1>2, <1>4, <1>6, <1>7, <1>8 DEF IInv, SeqOrder, Below
  <1>12. SeqOrder'
    BY <1>1, <1>10, <1>11, SameList DEF SeqOrder
  <1>13. Crossed'
    <2> SUFFICES ASSUME NEW i \in Held(mem), NEW j \in Held(files'), i # j
                 PROVE  mem[i].seq # files'[j].seq
      BY <1>2 DEF Crossed
    <2>1. CASE j = saving
      BY <1>4, <1>6, <2>1 DEF IInv, SeqOrder, Distinct
    <2>2. CASE j # saving
      BY <1>6, <1>7, <1>8, <2>2 DEF IInv, Crossed
    <2> QED
      BY <2>1, <2>2
  <1>14. TypeOK'
    BY <1>1, <1>2, <1>7, SameList DEF IInv, TypeOK, ListSame, List
  <1>15. StepInv'
    BY <1>1, <1>2 DEF IInv, StepInv
  <1>16. DiskInv'
    <2> SUFFICES ASSUME up, NEW k \in Keys \ dirty'
                 PROVE  files'[k] = IF k \in gone THEN before[k] ELSE mem[k]
      <3>1. \A k \in Keys : k # None
        BY StoreAssumption DEF Keys
      <3> QED
        BY <1>1, <1>2, <3>1 DEF DiskInv
    <2>1. CASE k = saving
      BY <1>4, <1>6, <2>1
    <2>2. CASE k # saving
      BY <1>1, <1>6, <2>2 DEF IInv, DiskInv
    <2> QED
      BY <2>1, <2>2
  <1> QED
    BY <1>1, <1>7, <1>9, <1>12, <1>13, <1>14, <1>15, <1>16, SameList, SameRoom DEF IInv

LEMMA WriteFailsStep ==
  ASSUME IInv, WriteFails
  PROVE  IInv'
  <1>1. /\ ListSame /\ saving' = None /\ gone' = gone /\ files' = files
        /\ faults' = faults + 1 /\ saving # None
        /\ dirty' = dirty \cup {saving} /\ tmp' = tmp \ {saving}
    BY DEF WriteFails, ListSame
  <1>2. mem' = mem /\ before' = before /\ up' = up
    BY <1>1 DEF ListSame
  <1>3. TypeOK'
    BY <1>1, SameList DEF IInv, TypeOK, ListSame
  <1>4. StepInv'
    BY <1>1, <1>2 DEF IInv, StepInv
  <1>5. DiskInv'
    <2>1. \A k \in Keys : k # None
      BY StoreAssumption DEF Keys
    <2> QED
      BY <1>1, <1>2, <2>1 DEF IInv, DiskInv
  <1> QED
    BY <1>1, <1>3, <1>4, <1>5, SameList, SameFiles, SameRoom DEF IInv

(* One of the documents out of the list is done with. *)
LEMMA RoomLess ==
  ASSUME IInv, ListSame, saving' = None, NEW k \in gone, gone' = gone \ {k}
  PROVE  RoomInv'
  <1>1. mem' = mem /\ before' = before /\ cap' = cap
    BY DEF ListSame
  <1>2. CASE Justified
    <2>1. Justified'
      BY <1>1, <1>2 DEF Justified, Untouched, NewerOf
    <2> QED
      BY <2>1 DEF RoomInv
  <1>3. CASE Within(Full, cap)
    <2>1. List(mem) /\ List(before) /\ k \in Keys /\ mem[k] = None
      BY DEF IInv, TypeOK, StepInv
    <2>2. Full \in [Keys -> Docs \cup {None}]
      BY <2>1 DEF Full, List
    <2>3. Held(Full) \subseteq Held(mem) \cup Held(before)
      BY DEF Full, Held
    <2>4. IsFiniteSet(Held(Full))
      <3>1. IsFiniteSet(Held(mem) \cup Held(before))
        BY <2>1, FS_Union DEF List
      <3> QED
        BY <2>3, <3>1, FS_Subset
    <2>5. \A j \in Held(Full) : Full[j].size <= DocMax
      BY <2>1 DEF Full, Held, List
    <2>6. List(Full)
      BY <2>2, <2>4, <2>5 DEF List
    <2>7. /\ Full' \in [Keys -> Docs \cup {None}] /\ Full'[k] = None
          /\ \A j \in Keys : j # k => Full'[j] = Full[j]
      BY <1>1, <2>1 DEF Full, List
    <2>8. List(Full') /\ Held(Full') = Held(Full) \ {k}
      BY <2>1, <2>6, <2>7, ListLess
    <2>9. \A j \in Held(Full') : Full'[j] = Full[j]
      BY <2>7, <2>8 DEF Held
    <2>10. cap \in Nat
      BY TypeWithin DEF IInv
    <2>11. Within(Full', cap)
      BY <1>3, <2>6, <2>8, <2>9, <2>10, WithinLess
    <2>12. Within(Full, cap)'
      BY <1>1, <2>11 DEF Within
    <2> QED
      BY <2>12 DEF RoomInv
  <1> QED
    BY <1>2, <1>3 DEF IInv, RoomInv

LEMMA UnsaveStep ==
  ASSUME IInv, NEW k \in Keys, Unsave(k)
  PROVE  IInv'
  <1>1. /\ ListSame /\ saving = None /\ saving' = None /\ k \in gone /\ gone' = gone \ {k}
        /\ files' = [files EXCEPT ![k] = None] /\ dirty' = dirty \ {k}
        /\ tmp' = tmp /\ faults' = faults
    BY DEF Unsave, ListSame
  <1>2. mem' = mem /\ before' = before /\ up' = up /\ writes' = writes /\ seq' = seq
    BY <1>1 DEF ListSame
  <1>3. mem[k] = None /\ List(files)
    BY <1>1 DEF IInv, StepInv
  <1>4. /\ files' \in [Keys -> Docs \cup {None}] /\ files'[k] = None
        /\ \A j \in Keys : j # k => files'[j] = files[j]
    BY <1>1, <1>3 DEF List
  <1>5. List(files') /\ Held(files') = Held(files) \ {k}
    BY <1>3, <1>4, ListLess
  <1>6. \A j \in Held(files') : j \in Held(files) /\ files'[j] = files[j]
    BY <1>4, <1>5 DEF Held
  <1>7. Written(files)' /\ Distinct(files)' /\ (up => Below(files))'
    BY <1>2, <1>6 DEF IInv, Written, SeqOrder, Distinct, Below
  <1>8. SeqOrder'
    BY <1>1, <1>7, SameList DEF SeqOrder
  <1>9. Crossed'
    BY <1>2, <1>6 DEF IInv, Crossed
  <1>10. TypeOK'
    BY <1>1, <1>2, <1>5, SameList DEF IInv, TypeOK, ListSame, List
  <1>11. StepInv'
    BY <1>1, <1>2 DEF IInv, StepInv
  <1>12. DiskInv'
    <2>1. \A j \in Keys : j # None
      BY StoreAssumption DEF Keys
    <2> QED
      BY <1>1, <1>2, <1>3, <1>4, <2>1 DEF IInv, DiskInv
  <1> QED
    BY <1>1, <1>5, <1>7, <1>8, <1>9, <1>10, <1>11, <1>12, SameList, RoomLess DEF IInv

LEMMA UnsaveFailsStep ==
  ASSUME IInv, NEW k \in Keys, UnsaveFails(k)
  PROVE  IInv'
  <1>1. /\ ListSame /\ saving = None /\ saving' = None /\ k \in gone /\ gone' = gone \ {k}
        /\ files' = files /\ dirty' = dirty \cup {k}
        /\ tmp' = tmp /\ faults' = faults + 1
    BY DEF UnsaveFails, ListSame
  <1>2. mem' = mem /\ before' = before /\ up' = up
    BY <1>1 DEF ListSame
  <1>3. TypeOK'
    BY <1>1, SameList DEF IInv, TypeOK, ListSame
  <1>4. StepInv'
    BY <1>1, <1>2 DEF IInv, StepInv
  <1>5. DiskInv'
    BY <1>1, <1>2 DEF IInv, DiskInv
  <1> QED
    BY <1>1, <1>3, <1>4, <1>5, SameList, SameFiles, RoomLess DEF IInv

LEMMA CrashStep ==
  ASSUME IInv, Crash
  PROVE  IInv'
  <1>1. /\ up' = FALSE /\ mem' = Empty /\ before' = Empty /\ seq' = 0
        /\ saving' = None /\ gone' = {} /\ crashes' = crashes + 1
        /\ UNCHANGED <<cap, files, tmp, dirty, writes, faults>>
    BY DEF Crash
  <1>2. List(mem') /\ Held(mem') = {}
    BY <1>1, EmptyList
  <1>3. Within(mem', cap)
    <2>1. Within(mem, cap) /\ cap \in Nat /\ List(mem)
      BY TypeWithin DEF IInv
    <2> QED
      BY <1>2, <2>1, WithinLess
  <1>4. List(before)' /\ List(files)' /\ Written(files)' /\ Distinct(files)'
    <2>1. List(before')
      BY <1>1, EmptyList
    <2> QED
      BY <1>1, <2>1 DEF IInv, List, Written, SeqOrder, Distinct
  <1>5. Written(mem)' /\ SeqOrder' /\ Crossed'
    BY <1>1, <1>2, <1>4 DEF Written, SeqOrder, Distinct, Below, Crossed
  <1>6. TypeOK'
    <2>1. /\ \A kind \in Kinds : Cardinality(OfKind(mem', kind)) <= cap'
          /\ Bytes(mem', Held(mem')) <= StoreMax
      BY <1>1, <1>3 DEF Within
    <2>2. mem' \in [Keys -> Docs \cup {None}] /\ before' \in [Keys -> Docs \cup {None}]
      BY <1>1 DEF Empty
    <2>3. /\ cap \in Caps /\ files \in [Keys -> Docs \cup {None}]
          /\ tmp \subseteq Keys /\ dirty \subseteq Keys
          /\ writes \in Nat /\ faults \in Nat /\ crashes + 1 \in Nat
      BY DEF IInv, TypeOK
    <2> QED
      BY <1>1, <2>1, <2>2, <2>3 DEF TypeOK
  <1>7. StepInv' /\ DiskInv' /\ RoomInv'
    BY <1>1 DEF StepInv, DiskInv, RoomInv, Justified
  <1> QED
    BY <1>2, <1>4, <1>5, <1>6, <1>7 DEF IInv

LEMMA OpenStep ==
  ASSUME IInv, NEW c \in Caps, Open(c)
  PROVE  IInv'
  <1> DEFINE V == UNION {KindVictims(files, kind, c) : kind \in Kinds}
             r == TrimBytes(Without(files, V), None)
  <1>1. /\ ~up /\ up' = TRUE /\ cap' = c /\ tmp' = {} /\ seq' = Last(files)
        /\ mem' = r /\ before' = files /\ gone' = Held(files) \ Held(r) /\ dirty' = {}
        /\ UNCHANGED <<files, saving, writes, faults, crashes>>
    BY DEF Open, TrimAll
  <1>2. saving = None /\ saving' = None
    BY <1>1 DEF IInv, StepInv
  <1>3. /\ TypeOK /\ List(files) /\ Written(files) /\ Distinct(files) /\ c \in Nat
    BY StoreAssumption DEF IInv, SeqOrder
  <1>4. /\ List(r) /\ Within(r, c) /\ Held(r) \subseteq Held(files)
        /\ \A k \in Held(r) : r[k] = files[k]
    <2>1. \A kind \in Kinds : \/ KindVictims(files, kind, c) \subseteq V
                              \/ Cardinality(OfKind(files, kind)) <= c
      OBVIOUS
    <2> HIDE DEF V
    <2> QED
      BY <1>3, <2>1, TrimmedList
  <1>5. \A x \in V : x \in KindVictims(files, x[1], c) /\ KindVictims(files, x[1], c) \subseteq V
    BY DEF KindVictims, OfKind
  <1>6. None \notin Keys /\ \A k \in Held(files) : k \in Keys
    BY StoreAssumption DEF Held, Keys
  <1>7. ASSUME NEW k \in Held(r), NEW j \in Held(files) \ Held(r), files[j].seq >= files[k].seq
        PROVE  Cardinality({x \in OfKind(r, j[1]) : r[x].seq > files[j].seq}) >= c
    <2>1. k # None
      BY <1>4, <1>6
    <2> HIDE DEF V
    <2> QED
      BY <1>3, <1>5, <1>7, <2>1, GoneForCap
  <1> HIDE DEF r, V
  <1>8. Last(files) \in Nat /\ \A k \in Held(files) : files[k].seq <= Last(files)
    BY <1>3, LastIsLast
  <1>9. TypeOK'
    <2>1. /\ \A kind \in Kinds : Cardinality(OfKind(mem', kind)) <= cap'
          /\ Bytes(mem', Held(mem')) <= StoreMax
      BY <1>1, <1>4 DEF Within
    <2>2. mem' \in [Keys -> Docs \cup {None}] /\ before' \in [Keys -> Docs \cup {None}]
      BY <1>1, <1>3, <1>4 DEF List
    <2>3. gone' \subseteq Keys
      BY <1>1, <1>6
    <2> QED
      BY <1>1, <1>2, <1>3, <1>8, <2>1, <2>2, <2>3 DEF TypeOK
  <1>10. List(mem)' /\ List(files)' /\ List(before)'
    BY <1>1, <1>3, <1>4 DEF List
  <1>11. Written(mem)' /\ Written(files)'
    BY <1>1, <1>3, <1>4 DEF Written
  <1>12. SeqOrder'
    BY <1>1, <1>3, <1>4, <1>8 DEF SeqOrder, Distinct, Below
  <1>13. Crossed'
    BY <1>1, <1>3, <1>4 DEF Crossed, Distinct
  <1>14. StepInv'
    BY <1>1, <1>2 DEF StepInv, Held
  <1>15. DiskInv'
    <2> SUFFICES ASSUME NEW k \in Keys, k \notin gone' PROVE files[k] = r[k]
      BY <1>1 DEF DiskInv
    <2> QED
      BY <1>1, <1>4 DEF Held
  <1>16. Justified'
    <2> SUFFICES ASSUME NEW k \in Untouched', NEW j \in gone', before'[j].seq >= before'[k].seq
                 PROVE  Cardinality(NewerOf(j)') >= cap'
      BY DEF Justified
    <2>1. k \in Held(r)
      BY <1>1 DEF Untouched, Held
    <2>2. Cardinality({x \in OfKind(r, j[1]) : r[x].seq > files[j].seq}) >= c
      BY <1>1, <1>7, <2>1
    <2>3. NewerOf(j)' = {x \in OfKind(r, j[1]) : r[x].seq > files[j].seq}
      BY <1>1 DEF NewerOf
    <2> QED
      BY <1>1, <2>2, <2>3
  <1>17. RoomInv'
    BY <1>2, <1>16 DEF RoomInv
  <1> QED
    BY <1>9, <1>10, <1>11, <1>12, <1>13, <1>14, <1>15, <1>17 DEF IInv

LEMMA InitInv == Init => IInv
  <1> SUFFICES ASSUME Init PROVE IInv
    OBVIOUS
  <1>1. /\ up = FALSE /\ cap \in Caps /\ mem = Empty /\ files = Empty /\ before = Empty
        /\ seq = 0 /\ tmp = {} /\ saving = None /\ gone = {} /\ dirty = {}
        /\ writes = 0 /\ faults = 0 /\ crashes = 0
    BY DEF Init
  <1>2. List(mem) /\ List(files) /\ List(before) /\ Held(mem) = {} /\ Held(files) = {}
    BY <1>1, EmptyList
  <1>3. TypeOK
    <2>1. mem \in [Keys -> Docs \cup {None}] /\ files \in [Keys -> Docs \cup {None}]
          /\ before \in [Keys -> Docs \cup {None}]
      BY <1>2 DEF List
    <2>2. cap \in Nat
      BY <1>1, StoreAssumption
    <2>3. ASSUME NEW kind \in Kinds PROVE Cardinality(OfKind(mem, kind)) <= cap
      <3>1. OfKind(mem, kind) = {}
        BY <1>2 DEF OfKind
      <3> QED
        BY <2>2, <3>1, FS_EmptySet
    <2>4. Bytes(mem, Held(mem)) <= StoreMax
      <3>1. UNION {{k} \X (1 .. mem[k].size) : k \in {}} = {}
        OBVIOUS
      <3> QED
        BY <1>2, <3>1, FS_EmptySet, StoreAssumption DEF Bytes
    <2> QED
      BY <1>1, <2>1, <2>3, <2>4 DEF TypeOK
  <1>4. Written(mem) /\ Written(files) /\ SeqOrder /\ Crossed
    BY <1>2 DEF Written, SeqOrder, Distinct, Below, Crossed
  <1>5. StepInv /\ DiskInv /\ RoomInv
    BY <1>1 DEF StepInv, DiskInv, RoomInv, Justified
  <1> QED
    BY <1>2, <1>3, <1>4, <1>5 DEF IInv

LEMMA StutterStep ==
  ASSUME IInv, UNCHANGED vars
  PROVE  IInv'
  <1>1. /\ ListSame /\ files' = files /\ saving' = saving /\ gone' = gone
        /\ dirty' = dirty /\ faults' = faults /\ tmp' = tmp
    BY DEF vars, ListSame
  <1>2. mem' = mem /\ before' = before /\ up' = up
    BY <1>1 DEF ListSame
  <1>3. TypeOK'
    BY <1>1, SameList DEF IInv, TypeOK, ListSame
  <1>4. StepInv' /\ DiskInv'
    BY <1>1, <1>2 DEF IInv, StepInv, DiskInv
  <1> QED
    BY <1>1, <1>3, <1>4, SameList, SameFiles, SameRoom DEF IInv

LEMMA StepKeeps == IInv /\ [Next]_vars => IInv'
  <1> SUFFICES ASSUME IInv, [Next]_vars PROVE IInv'
    OBVIOUS
  <1>1. ASSUME NEW k \in Keys, NEW size \in Sizes, Put(k, size) PROVE IInv'
    BY <1>1, PutStep
  <1>2. ASSUME NEW k \in Keys, NEW size \in Sizes, Update(k, size) PROVE IInv'
    BY <1>2, UpdateStep
  <1>3. ASSUME NEW k \in Keys, Delete(k) PROVE IInv'
    BY <1>3, DeleteStep
  <1>4. ASSUME NEW k \in Keys, Unsave(k) PROVE IInv'
    BY <1>4, UnsaveStep
  <1>5. ASSUME NEW k \in Keys, UnsaveFails(k) PROVE IInv'
    BY <1>5, UnsaveFailsStep
  <1>6. CASE WriteTmp
    BY <1>6, WriteTmpStep
  <1>7. CASE Rename
    BY <1>7, RenameStep
  <1>8. CASE WriteFails
    BY <1>8, WriteFailsStep
  <1>9. CASE Crash
    BY <1>9, CrashStep
  <1>10. ASSUME NEW c \in Caps, Open(c) PROVE IInv'
    BY <1>10, OpenStep
  <1>11. CASE UNCHANGED vars
    BY <1>11, StutterStep
  <1> QED
    BY <1>1, <1>2, <1>3, <1>4, <1>5, <1>6, <1>7, <1>8, <1>9, <1>10, <1>11 DEF Next

LEMMA Invariance == Spec => []IInv
  BY InitInv, StepKeeps, PTL DEF Spec

-----------------------------------------------------------------------------
(* A server that has a failed write or removal behind it on no key, and is
   between the steps of an operation: what the next start makes of the files
   (trim and trim_bytes in srv_store_open) keeps every document the operation
   leaves alone. *)
LEMMA RestartFinds ==
  ASSUME IInv, up, dirty = {}, NEW k \in Keys, before[k] # None, before[k] = mem[k]
  PROVE  TrimAll(files, cap)[k] = mem[k]
  <1>1. /\ List(mem) /\ List(files) /\ List(before) /\ StepInv /\ DiskInv /\ RoomInv
        /\ Within(mem, cap) /\ cap \in Nat
    BY TypeWithin DEF IInv
  <1>2. k \in Held(mem) /\ k \in Held(before) /\ k \notin gone /\ k \in Untouched
    BY <1>1 DEF Held, StepInv, Untouched
  <1>3. CASE saving # None
    (* Nothing of the operation has reached the disk. *)
    <2>1. \A j \in Keys : files[j] = before[j]
      BY <1>1, <1>3 DEF DiskInv, StepInv
    <2>2. Held(files) = Held(before) /\ \A j \in Held(before) : files[j] = before[j]
      BY <2>1 DEF Held
    <2>3. Within(before, cap)
      BY <1>1, <1>3 DEF RoomInv
    <2>4. TrimAll(files, cap)[k] = files[k]
      BY <1>1, <1>2, <2>2, <2>3, Found
    <2> QED
      BY <2>1, <2>4
  <1>4. CASE saving = None
    <2>1. \A j \in Keys : files[j] = IF j \in gone THEN before[j] ELSE mem[j]
      <3>1. None \notin Keys
        BY StoreAssumption DEF Keys
      <3> QED
        BY <1>1, <1>4, <3>1 DEF DiskInv
    <2>2. files[k] = mem[k]
      BY <1>2, <2>1
    <2>3. CASE Within(Full, cap)
      <3>1. files = Full
        BY <1>1, <2>1 DEF Full, List
      <3>2. Within(files, cap)
        BY <2>3, <3>1
      <3>3. k \in Held(files)
        BY <1>2, <2>2 DEF Held
      <3> QED
        BY <1>1, <2>2, <3>2, <3>3, Found
    <2>4. CASE Justified
      <3>1. Held(mem) \subseteq Held(files) /\ \A x \in Held(mem) : files[x] = mem[x]
        BY <1>1, <2>1 DEF StepInv, Held
      <3>2. ASSUME NEW j \in Held(files) \ Held(mem), files[j].seq >= files[k].seq
            PROVE  Cardinality({x \in OfKind(mem, j[1]) : mem[x].seq > files[j].seq}) >= cap
        <4>1. j \in gone /\ files[j] = before[j]
          BY <2>1 DEF Held
        <4>2. Cardinality(NewerOf(j)) >= cap
          BY <1>2, <2>2, <2>4, <3>2, <4>1 DEF Justified
        <4> QED
          BY <4>1, <4>2 DEF NewerOf
      <3>3. TrimAll(files, cap)[k] = files[k]
        BY <1>1, <1>2, <3>1, <3>2, Found
      <3> QED
        BY <2>2, <3>3
    <2> QED
      BY <1>1, <2>3, <2>4 DEF RoomInv
  <1> QED
    BY <1>3, <1>4

LEMMA InvDurable == IInv => Durable
  <1> SUFFICES ASSUME IInv, up
               PROVE  /\ ~Busy => \A k \in Keys \ dirty : files[k] = mem[k]
                      /\ dirty = {} =>
                           /\ \A k \in Keys : before[k] # None /\ before[k] = mem[k]
                                              => TrimAll(files, cap)[k] = mem[k]
                           /\ \A k \in Keys : files[k] \in {before[k], mem[k]}
    BY DEF Durable
  <1>1. None \notin Keys
    BY StoreAssumption DEF Keys
  <1>2. ~Busy => \A k \in Keys \ dirty : files[k] = mem[k]
    BY <1>1 DEF Busy, IInv, DiskInv
  <1>3. dirty = {} => \A k \in Keys : files[k] \in {before[k], mem[k]}
    BY DEF IInv, DiskInv
  <1> QED
    BY <1>2, <1>3, RestartFinds

(* The types, what is being written is in the list, and both limits (cap
   documents of each kind, SRV_STORE_MAX bytes) hold after every operation. *)
THEOREM TypeCorrect == Spec => []TypeOK
  <1>1. IInv => TypeOK
    BY DEF IInv
  <1> QED
    BY <1>1, Invariance, PTL

(* The numbers that order the documents are distinct and below the next one,
   in the list and on disk, through stops, kills and failed writes. *)
THEOREM NumbersAreAnOrder == Spec => []SeqOrder
  <1>1. IInv => SeqOrder
    BY DEF IInv
  <1> QED
    BY <1>1, Invariance, PTL

(* Between operations the files are the list, but for the keys a write or a
   removal failed on; and a kill at any step of any operation, with no such
   failure, leaves each document as before or as after the operation and loses
   none that the operation leaves alone. *)
THEOREM StoreIsDurable == Spec => []Durable
  BY Invariance, InvDurable, PTL

=============================================================================
