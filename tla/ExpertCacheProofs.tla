-------------------------- MODULE ExpertCacheProofs -------------------------
(***************************************************************************)
(* Proofs about ExpertCache, for any layers, experts, slots, requests,     *)
(* reads ahead and, but where it is said, failing reads.                   *)
(***************************************************************************)
EXTENDS ExpertCache, SequenceTheorems, FiniteSetTheorems, TLAPS

Distinct(q) == \A i, j \in 1 .. Len(q) : q[i] = q[j] => i = j
Before(q, x, y) == \E i, j \in 1 .. Len(q) : i < j /\ q[i] = x /\ q[j] = y

Choosing == at \in {"hits", "settle", "loads", "reload"}
Serving == Choosing \/ at \in {"start", "begun"}

(* The types, by what goes together. *)
Sets == [reads : SUBSET Reads, layer : Layers, inflight : BOOLEAN]
Calls == [layer : Layers, ids : Seq(Experts), got : Seq(Slots \cup {None}),
          ready : SUBSET Nat, rest : Seq(Experts), many : BOOLEAN, i : Nat]

MapT ==
  /\ where \in [Keys -> Slots \cup {None}] /\ key \in [Slots -> Keys \cup {None}]
  /\ lru \in Seq(Slots) /\ NSlots \in SlotCounts
  /\ llist \in [Layers -> Seq(Slots)] /\ filled \in 0 .. NSlots

PassT ==
  cur_layer \in Layers /\ pass_asked \in 0 .. (NSlots + 1) /\ pass_larger \in BOOLEAN

ReadT ==
  /\ used \subseteq Slots /\ content \in [Slots -> Keys \cup {None}]
  /\ jobs \subseteq Reads /\ ring \subseteq Reads
  /\ pf \in [Parities -> Sets] /\ pf_flag \subseteq Slots

FlagT ==
  /\ pending \in BOOLEAN /\ batch_rc \in {0, -1} /\ via_ring \in BOOLEAN
  /\ lost \in BOOLEAN /\ warm_stop \in BOOLEAN /\ warm_over \in BOOLEAN
  /\ faults \in 0 .. MaxFaults

CallT ==
  /\ at \in {"idle", "hits", "settle", "loads", "reload", "start",
             "begun", "again", "pfloop", "pfdrop", "djoin", "freed"}
  /\ api_lock \in {"free", "caller"} /\ call \in Calls
  /\ lease \subseteq (Slots \cup {None}) \X Keys /\ warm \in Seq(Keys)

(* Where the call is in its loops, and who has the lock. *)
CallInv ==
  /\ Choosing => call.i \in 1 .. Len(call.ids)
  /\ at = "hits" => Len(call.got) = call.i - 1
  /\ at = "settle" => call.i = 1
  /\ Serving /\ at # "hits" => Len(call.got) = Len(call.ids) /\ Len(call.ids) >= 1
  /\ at = "pfloop" => call.i >= 1
  /\ at = "again" => call.rest # <<>>
  /\ api_lock = "free" <=> at \in {"idle", "again", "djoin", "freed"}

(* The map, its inverse, the count and the lists. *)
Full == {s \in Slots : key[s] # None}

MapInv ==
  /\ \A k \in Keys, s \in Slots : where[k] = s <=> key[s] = k
  /\ filled = Cardinality(Full) /\ Distinct(lru) /\ Full \subseteq Range(lru)
  /\ \A l \in Layers : /\ Distinct(llist[l])
                       /\ Range(llist[l]) = {s \in Slots : key[s] # None /\ key[s][1] = l}

MapOK == MapT /\ MapInv

(* The reads ahead: each set's slots are its own and flagged, and hold the
   experts they are read for or, the set having failed, none. *)
Ours(p) == SlotsOf(pf[p].reads)
Listing(p) == at = "pfloop" /\ p = Ahead
LayerOf(p) == IF Listing(p) THEN call.layer ELSE pf[p].layer
Lost(p) == \E r \in pf[p].reads : key[r[1]] = None

FlagInv ==
  /\ \A s \in Slots : s \in pf_flag <=> \E p \in Parities : s \in Ours(p)
  /\ pf_flag \subseteq Range(lru)
  /\ \A p, q \in Parities : p # q => Ours(p) \cap Ours(q) = {}

SetInv ==
  \A p \in Parities :
    /\ \A r \in pf[p].reads :
         /\ r[2][1] = LayerOf(p) /\ r[2][1] % 2 = p
         /\ key[r[1]] \in {None, r[2]}
         /\ Lost(p) => key[r[1]] = None
    /\ pf[p].inflight \/ Listing(p) => ~Lost(p)
    /\ pf[p].inflight => pf[p].reads # {}

(* What a request has found so far is stamped, and its own. *)
Asked(j) == <<call.layer, call.ids[j]>>

GotInv ==
  /\ used \subseteq Range(lru)
  /\ Serving =>
       \A j \in 1 .. Len(call.got) :
          IF call.got[j] = None THEN where[Asked(j)] \in used \cup {None}
          ELSE call.got[j] \in used /\ key[call.got[j]] = Asked(j)
  /\ at \in {"loads", "reload"} => \A j \in 1 .. (call.i - 1) : call.got[j] # None
  /\ at \in {"start", "begun"} => \A j \in 1 .. Len(call.got) : call.got[j] # None
  /\ at = "begun" => ~lost

(* What the sets of reads ahead are to a request, and to the next one's. *)
AheadInv ==
  /\ Serving => \A p \in Parities : pf[p].inflight => pf[p].layer > call.layer
  /\ at = "reload" => pf_flag = {}
  /\ \A p \in Parities : Listing(p) => Ours(p) \cap used = {}

(* There is a slot for each of the experts still to be found. *)
Todo == {j \in 1 .. Len(call.ids) : \/ at = "hits" /\ j >= call.i
                                    \/ j \in 1 .. Len(call.got) /\ call.got[j] = None}

CountInv ==
  /\ Serving => Cardinality(used) + Cardinality(Todo) + Len(call.rest) <= NSlots
  /\ at = "again" => used # {} /\ Cardinality(used) + Len(call.rest) <= NSlots

(* A set that failed leaves a stamped slot that is not its own, and a slot is
   free of reads ahead wherever one is empty. *)
Outside(p) == \E s \in used : s \notin Ours(p)
AllHeld == Range(lru) \subseteq pf_flag

RoomInv ==
  /\ \A p \in Parities : Lost(p) /\ ~Choosing => Outside(p)
  /\ filled < NSlots /\ AllHeld =>
       /\ Choosing
       /\ \A p \in Parities : Lost(p) =>
            /\ pf[p].layer <= call.layer
            /\ at \in {"loads", "reload"} => pf[p].layer = call.layer

Types == PassT /\ ReadT /\ FlagT /\ CallT
IInv == /\ MapOK /\ Types /\ CallInv /\ FlagInv /\ SetInv
        /\ GotInv /\ AheadInv /\ CountInv /\ RoomInv

(* No read fails; and where there is a background filling, which voids the
   stamps, the slots given are kept over no further request. *)
Unfailing ==
  /\ MaxFaults = 0
  /\ WarmOrder # <<>> => /\ ~GpuAhead
                         /\ \A n \in SlotCounts : \A q \in Asks(n) : Len(q) <= Chunk

(* Reads, and the bytes. *)
Coming == Flying \cup UNION {pf[p].reads : p \in {q \in Parities : Listing(q)}}

ReadInv ==
  /\ \A r \in jobs \cup ring : r[1] \in used /\ key[r[1]] = r[2]
  /\ jobs # {} => at \in {"loads", "reload", "start", "begun"}
  /\ ring # {} => at = "begun" /\ via_ring
  /\ pending => at = "begun" /\ ~via_ring /\ jobs # {}
  /\ at = "begun" /\ ~pending => jobs = {}
  /\ \A p \in Parities : ~Lost(p)
  /\ at = "freed" => warm_over /\ \A p \in Parities : ~pf[p].inflight

BytesInv ==
  /\ \A s \in Slots : key[s] # None => content[s] = key[s] \/ <<s, key[s]>> \in Coming
  /\ Serving => \A j \in call.ready : /\ j \in 1 .. Len(call.got) /\ call.got[j] # None
                                      /\ call.got[j] \notin SlotsOf(jobs \cup ring)

LeaseInv ==
  /\ \A q \in lease : /\ q[1] \in Slots /\ key[q[1]] = q[2]
                      /\ q[1] \notin SlotsOf(Coming)
  /\ WarmOrder = <<>> => SlotsOf(lease) \subseteq used /\ warm = <<>>
  /\ WarmOrder # <<>> =>
       /\ call.rest = <<>> /\ at # "again"
       /\ lease # {} => at = "idle"

Kept == SlotsOf(lease) \cup IF Serving THEN used ELSE {}

OrderInv ==
  WarmOrder # <<>> =>
    \A x, y \in Range(lru) : x \in Kept /\ key[y] = None => Before(lru, x, y)

CopyInv ==
  copy # None =>
    /\ content = copy /\ jobs = {} /\ ring = {} /\ warm_over
    /\ \A p \in Parities : pf[p].reads = {}
    /\ \A k \in Keys : where[k] # None

NInv == faults = 0 /\ ReadInv /\ BytesInv /\ LeaseInv /\ OrderInv /\ CopyInv

-----------------------------------------------------------------------------
(* Numbers: a set of them has a first and, if it is bounded, a last. *)
LEMMA First ==
  ASSUME NEW S \in SUBSET Nat, S # {}
  PROVE  \E x \in S : \A y \in S : x <= y
  <1>1. PICK x \in S : \A y \in S : <<y, x>> \notin OpToRel(<, Nat)
    BY NatLessThanWellFounded, WFMin
  <1>2. \A y \in S : ~(y < x)
    BY <1>1 DEF OpToRel
  <1> QED
    BY <1>2

LEMMA Last ==
  ASSUME NEW n \in Nat, NEW S \in SUBSET (1 .. n), S # {}
  PROVE  \E x \in S : \A y \in S : y <= x
  <1> DEFINE T == {n - x : x \in S}
  <1>1. T \in SUBSET Nat /\ T # {}
    <2>1. \A x \in S : n - x \in Nat
      OBVIOUS
    <2> QED
      BY <2>1
  <1>2. PICK t \in T : \A y \in T : t <= y
    BY <1>1, First
  <1>3. PICK x \in S : t = n - x
    BY <1>2
  <1>4. ASSUME NEW y \in S
        PROVE  y <= x
    <2>1. t <= n - y
      BY <1>2
    <2> QED
      BY <1>3, <2>1
  <1> QED
    BY <1>4

-----------------------------------------------------------------------------
(* Lists.  Of the numbers of a finite set each is the n-th for one n. *)
UpTo(L, i) == {j \in L : j <= i}

LEMMA Ranks ==
  ASSUME NEW m \in Nat, NEW L \in SUBSET (1 .. m)
  PROVE  /\ IsFiniteSet(L) /\ Cardinality(L) \in Nat
         /\ \A i \in L : Cardinality(UpTo(L, i)) \in 1 .. Cardinality(L)
         /\ \A i, j \in L : i < j => Cardinality(UpTo(L, i)) < Cardinality(UpTo(L, j))
         /\ \A n \in 1 .. Cardinality(L) : \E i \in L : Cardinality(UpTo(L, i)) = n
  <1>1. IsFiniteSet(L) /\ Cardinality(L) \in Nat
    <2>1. IsFiniteSet(1 .. m)
      BY FS_Interval
    <2> QED
      BY <2>1, FS_Subset, FS_CardinalityType
  <1>2. \A i \in L : /\ IsFiniteSet(UpTo(L, i)) /\ Cardinality(UpTo(L, i)) \in Nat
                     /\ Cardinality(UpTo(L, i)) <= Cardinality(L)
    <2>1. \A i \in L : UpTo(L, i) \in SUBSET L
      BY DEF UpTo
    <2> QED
      BY <1>1, <2>1, FS_Subset, FS_CardinalityType
  <1>3. \A i \in L : Cardinality(UpTo(L, i)) # 0
    <2>1. \A i \in L : UpTo(L, i) # {}
      BY DEF UpTo
    <2> QED
      BY <1>2, <2>1, FS_EmptySet
  <1>4. ASSUME NEW i \in L, NEW j \in L, i < j
        PROVE  Cardinality(UpTo(L, i)) < Cardinality(UpTo(L, j))
    <2>1. UpTo(L, i) \in SUBSET UpTo(L, j) /\ UpTo(L, i) # UpTo(L, j)
      <3>1. \A x \in L : x <= i => x <= j
        BY <1>4
      <3>2. j \in UpTo(L, j) /\ j \notin UpTo(L, i)
        BY <1>4 DEF UpTo
      <3> QED
        BY <3>1, <3>2 DEF UpTo
    <2>2. /\ Cardinality(UpTo(L, i)) <= Cardinality(UpTo(L, j))
          /\ Cardinality(UpTo(L, j)) # Cardinality(UpTo(L, i))
      BY <1>2, <2>1, FS_Subset
    <2> QED
      BY <1>2, <2>2
  <1>5. \A n \in 1 .. Cardinality(L) : \E i \in L : Cardinality(UpTo(L, i)) = n
    <2> DEFINE f == [i \in L |-> Cardinality(UpTo(L, i))]
               T == 1 .. Cardinality(L)
    <2>1. f \in [L -> T]
      BY <1>1, <1>2, <1>3
    <2>2. \A i, j \in L : f[i] = f[j] => i = j
      <3> SUFFICES ASSUME NEW i \in L, NEW j \in L, i # j
                   PROVE  f[i] # f[j]
        OBVIOUS
      <3>1. i < j \/ j < i
        OBVIOUS
      <3> QED
        BY <1>2, <1>4, <3>1
    <2>3. f \in Injection(L, T)
      BY <2>1, <2>2 DEF Injection, IsInjective
    <2>4. IsFiniteSet(T) /\ Cardinality(T) = Cardinality(L)
      BY <1>1, FS_Interval
    <2> HIDE DEF f, T
    <2>5. f \in Surjection(L, T)
      BY <2>3, <2>4, FS_Injection
    <2> USE DEF f, T
    <2> QED
      BY <2>5 DEF Surjection
  <1> QED
    BY <1>1, <1>2, <1>3, <1>4, <1>5

(* A list with slots unlinked: the others, once each, in their order. *)
LEMMA WithoutIs ==
  ASSUME NEW T, NEW q \in Seq(T), Distinct(q), NEW S, NEW r, r = Without(q, S)
  PROVE  /\ r \in Seq(T) /\ Distinct(r) /\ Len(r) \in Nat
         /\ \A x : x \in Range(r) <=> x \in Range(q) /\ x \notin S
         /\ \A x, y : Before(q, x, y) /\ x \notin S /\ y \notin S => Before(r, x, y)
  <1> DEFINE L == {i \in 1 .. Len(q) : q[i] \notin S}
             N == Cardinality(L)
             Nth(n) == CHOOSE i \in L : Cardinality(UpTo(L, i)) = n
  <1>1. Len(q) \in Nat /\ DOMAIN q = 1 .. Len(q) /\ L \in SUBSET (1 .. Len(q))
    BY LenProperties
  <1>2. r = [n \in 1 .. N |-> q[Nth(n)]]
    BY <1>1 DEF Without, UpTo
  <1>3. /\ N \in Nat
        /\ \A i \in L : Cardinality(UpTo(L, i)) \in 1 .. N
        /\ \A i, j \in L : i < j => Cardinality(UpTo(L, i)) < Cardinality(UpTo(L, j))
        /\ \A n \in 1 .. N : \E i \in L : Cardinality(UpTo(L, i)) = n
    BY <1>1, Ranks
  <1>4. \A n \in 1 .. N : Nth(n) \in L /\ Cardinality(UpTo(L, Nth(n))) = n
    BY <1>3
  <1> HIDE DEF Nth
  <1>5. \A i \in L : \E n \in 1 .. N : Nth(n) = i
    <2> SUFFICES ASSUME NEW i \in L
                 PROVE  \E n \in 1 .. N : Nth(n) = i
      OBVIOUS
    <2>1. PICK n \in 1 .. N : n = Cardinality(UpTo(L, i))
      BY <1>3
    <2>2. PICK a \in L : a = Nth(n) /\ Cardinality(UpTo(L, a)) = n
      BY <1>4
    <2>3. ~(i < a) /\ ~(a < i)
      BY <1>3, <2>1, <2>2
    <2>4. i = a
      BY <1>1, <2>3
    <2> QED
      BY <2>2, <2>4
  <1>6. \A m, n \in 1 .. N : m < n => Nth(m) < Nth(n)
    <2> SUFFICES ASSUME NEW m \in 1 .. N, NEW n \in 1 .. N, m < n
                 PROVE  Nth(m) < Nth(n)
      OBVIOUS
    <2>1. PICK a \in L : a = Nth(m) /\ Cardinality(UpTo(L, a)) = m
      BY <1>4
    <2>2. PICK b \in L : b = Nth(n) /\ Cardinality(UpTo(L, b)) = n
      BY <1>4
    <2>3. ~(b < a) /\ b # a
      BY <1>3, <2>1, <2>2
    <2>4. a < b
      BY <1>1, <2>3
    <2> QED
      BY <2>1, <2>2, <2>4
  <1>7. \A i \in L : i \in 1 .. Len(q) /\ q[i] \in T /\ q[i] \notin S
    BY ElementOfSeq
  <1>8. \A i \in 1 .. Len(q) : q[i] \notin S => i \in L
    OBVIOUS
  <1> HIDE DEF L, N
  <1>9. r \in Seq(T) /\ Len(r) = N /\ DOMAIN r = 1 .. N /\ \A n \in 1 .. N : r[n] = q[Nth(n)]
    <2>1. r \in [1 .. N -> T]
      BY <1>2, <1>4, <1>7
    <2> QED
      BY <1>2, <1>3, <2>1, IsASeq, LenProperties
  <1>10. Distinct(r)
    <2> SUFFICES ASSUME NEW i \in 1 .. N, NEW j \in 1 .. N, r[i] = r[j], i # j
                 PROVE  FALSE
      BY <1>9 DEF Distinct
    <2>1. Nth(i) = Nth(j)
      BY <1>4, <1>7, <1>9 DEF Distinct
    <2>2. i < j \/ j < i
      BY <1>3
    <2>3. Nth(i) \in Int
      BY <1>4, <1>7
    <2> QED
      BY <1>6, <2>1, <2>2, <2>3
  <1>11. ASSUME NEW x
         PROVE  x \in Range(r) <=> x \in Range(q) /\ x \notin S
    <2>1. x \in Range(r) => x \in Range(q) /\ x \notin S
      BY <1>1, <1>4, <1>7, <1>9 DEF Range
    <2>2. ASSUME x \in Range(q), x \notin S
          PROVE  x \in Range(r)
      <3>1. PICK i \in 1 .. Len(q) : x = q[i]
        BY <1>1, <2>2 DEF Range
      <3>2. i \in L
        BY <1>8, <2>2, <3>1
      <3>3. PICK n \in 1 .. N : Nth(n) = i
        BY <1>5, <3>2
      <3> QED
        BY <1>9, <3>1, <3>3 DEF Range
    <2> QED
      BY <2>1, <2>2
  <1>12. ASSUME NEW x, NEW y, Before(q, x, y), x \notin S, y \notin S
         PROVE  Before(r, x, y)
    <2>1. PICK a \in 1 .. Len(q), b \in 1 .. Len(q) : a < b /\ q[a] = x /\ q[b] = y
      BY <1>12 DEF Before
    <2>2. a \in L /\ b \in L
      BY <1>8, <1>12, <2>1
    <2>3. PICK m \in 1 .. N : Nth(m) = a
      BY <1>5, <2>2
    <2>4. PICK n \in 1 .. N : Nth(n) = b
      BY <1>5, <2>2
    <2>5. ~(n < m)
      BY <1>6, <2>1, <2>3, <2>4
    <2>6. m # n
      BY <2>1, <2>3, <2>4
    <2>7. m < n
      BY <1>3, <2>5, <2>6
    <2> QED
      BY <1>9, <2>1, <2>3, <2>4, <2>7 DEF Before
  <1> QED
    BY <1>3, <1>9, <1>10, <1>11, <1>12

(* How many a list that holds none twice holds. *)
LEMMA Counted ==
  ASSUME NEW T, NEW q \in Seq(T)
  PROVE  /\ IsFiniteSet(Range(q)) /\ Len(q) \in Nat /\ Range(q) \in SUBSET T
         /\ Distinct(q) <=> Cardinality(Range(q)) = Len(q)
  <1>1. Len(q) \in Nat /\ DOMAIN q = 1 .. Len(q) /\ Range(q) \in SUBSET T
    BY LenProperties, RangeOfSeq
  <1>2. IsFiniteSet(1 .. Len(q)) /\ Cardinality(1 .. Len(q)) = Len(q)
    BY <1>1, FS_Interval
  <1>3. q \in Surjection(1 .. Len(q), Range(q))
    <2>1. q \in [1 .. Len(q) -> Range(q)]
      BY <1>1, LenProperties DEF Range
    <2> QED
      BY <1>1, <2>1 DEF Surjection, Range
  <1>4. Distinct(q) <=> q \in Injection(1 .. Len(q), Range(q))
    BY <1>1, <1>3 DEF Distinct, Injection, IsInjective, Surjection
  <1> QED
    BY <1>1, <1>2, <1>3, <1>4, FS_Surjection

LEMMA FrontIs ==
  ASSUME NEW T, NEW q \in Seq(T), Distinct(q), NEW s \in T, NEW r, r = Front(q, s)
  PROVE  /\ r \in Seq(T) /\ Distinct(r) /\ Range(r) = Range(q) \cup {s}
         /\ s \in Range(q) => Len(r) = Len(q)
         /\ \A x, y \in Range(q) : y # s /\ (x = s \/ Before(q, x, y)) => Before(r, x, y)
  <1>1. PICK w : w = Without(q, {s})
    OBVIOUS
  <1>2. /\ w \in Seq(T) /\ Distinct(w) /\ Len(w) \in Nat
        /\ \A x : x \in Range(w) <=> x \in Range(q) /\ x # s
        /\ \A x, y : Before(q, x, y) /\ x # s /\ y # s => Before(w, x, y)
    BY <1>1, WithoutIs
  <1>3. <<s>> \in Seq(T) /\ Len(<<s>>) = 1 /\ <<s>>[1] = s
    OBVIOUS
  <1>4. r = <<s>> \o w
    BY <1>1 DEF Front
  <1>5. /\ r \in Seq(T) /\ Len(r) = Len(w) + 1
        /\ \A i \in 1 .. (Len(w) + 1) : r[i] = IF i <= 1 THEN s ELSE w[i - 1]
    BY <1>2, <1>3, <1>4, ConcatProperties
  <1>6. r[1] = s /\ \A i \in 1 .. Len(w) : r[i + 1] = w[i] /\ i + 1 \in 1 .. Len(r)
    BY <1>2, <1>5
  <1>7. \A i \in 1 .. Len(r) : i = 1 \/ (i - 1 \in 1 .. Len(w) /\ r[i] = w[i - 1])
    BY <1>2, <1>5
  <1>8. DOMAIN r = 1 .. Len(r) /\ DOMAIN w = 1 .. Len(w) /\ 1 \in 1 .. Len(r)
    BY <1>2, <1>5, LenProperties
  <1>9. \A i \in 1 .. Len(w) : w[i] # s
    BY <1>2, <1>8 DEF Range
  <1>10. Distinct(r)
    <2> SUFFICES ASSUME NEW i \in 1 .. Len(r), NEW j \in 1 .. Len(r), r[i] = r[j]
                 PROVE  i = j
      BY DEF Distinct
    <2>1. CASE i = 1 \/ j = 1
      BY <1>6, <1>7, <1>9, <2>1
    <2>2. CASE i # 1 /\ j # 1
      <3>1. i - 1 \in 1 .. Len(w) /\ j - 1 \in 1 .. Len(w) /\ w[i - 1] = w[j - 1]
        BY <1>7, <2>2
      <3>2. i - 1 = j - 1
        BY <1>2, <3>1 DEF Distinct
      <3>3. i \in Int /\ j \in Int
        BY <1>2, <1>5
      <3> QED
        BY <3>2, <3>3
    <2> QED
      BY <2>1, <2>2
  <1>11. Range(r) = Range(q) \cup {s}
    <2>1. ASSUME NEW x \in Range(r)
          PROVE  x \in Range(q) \cup {s}
      <3>1. PICK i \in 1 .. Len(r) : x = r[i]
        BY <1>8 DEF Range
      <3>2. x = s \/ x \in Range(w)
        BY <1>6, <1>7, <1>8, <3>1 DEF Range
      <3> QED
        BY <1>2, <3>2
    <2>2. s \in Range(r)
      BY <1>6, <1>8 DEF Range
    <2>3. ASSUME NEW x \in Range(w)
          PROVE  x \in Range(r)
      <3>1. PICK i \in 1 .. Len(w) : x = w[i]
        BY <1>8 DEF Range
      <3>2. r[i + 1] = x /\ i + 1 \in DOMAIN r
        BY <1>6, <1>8, <3>1
      <3> QED
        BY <3>2 DEF Range
    <2> QED
      BY <1>2, <2>1, <2>2, <2>3
  <1>12. s \in Range(q) => Len(r) = Len(q)
    <2>1. Cardinality(Range(r)) = Len(r) /\ Cardinality(Range(q)) = Len(q)
      BY <1>5, <1>10, Counted
    <2> QED
      BY <1>11, <2>1
  <1>13. ASSUME NEW x \in Range(q), NEW y \in Range(q), y # s, x = s \/ Before(q, x, y)
         PROVE  Before(r, x, y)
    <2>1. CASE x = s
      <3>1. y \in Range(w)
        BY <1>2, <1>13
      <3>2. PICK i \in 1 .. Len(w) : y = w[i]
        BY <1>8, <3>1 DEF Range
      <3>3. r[i + 1] = y /\ i + 1 \in 1 .. Len(r) /\ 1 < i + 1
        BY <1>2, <1>6, <3>2
      <3> QED
        BY <1>6, <1>8, <2>1, <3>3 DEF Before
    <2>2. CASE x # s
      <3>1. Before(w, x, y)
        BY <1>2, <1>13, <2>2
      <3>2. PICK i \in 1 .. Len(w), j \in 1 .. Len(w) : i < j /\ w[i] = x /\ w[j] = y
        BY <3>1 DEF Before
      <3>3. /\ r[i + 1] = x /\ r[j + 1] = y
            /\ i + 1 \in 1 .. Len(r) /\ j + 1 \in 1 .. Len(r)
        BY <1>6, <3>2
      <3>4. i + 1 < j + 1
        BY <1>2, <3>2
      <3> QED
        BY <3>3, <3>4 DEF Before
    <2> QED
      BY <2>1, <2>2
  <1> QED
    BY <1>5, <1>10, <1>11, <1>12, <1>13

LEMMA BackIs ==
  ASSUME NEW T, NEW q \in Seq(T), Distinct(q), NEW s \in T, NEW r, r = Back(q, s)
  PROVE  /\ r \in Seq(T) /\ Distinct(r) /\ Range(r) = Range(q) \cup {s}
         /\ s \in Range(q) => Len(r) = Len(q)
         /\ \A x, y \in Range(q) : x # s /\ (y = s \/ Before(q, x, y)) => Before(r, x, y)
  <1>1. PICK w : w = Without(q, {s})
    OBVIOUS
  <1>2. /\ w \in Seq(T) /\ Distinct(w) /\ Len(w) \in Nat
        /\ \A x : x \in Range(w) <=> x \in Range(q) /\ x # s
        /\ \A x, y : Before(q, x, y) /\ x # s /\ y # s => Before(w, x, y)
    BY <1>1, WithoutIs
  <1>3. r = Append(w, s)
    BY <1>1 DEF Back
  <1>4. PICK n \in Nat : n = Len(w)
    BY <1>2
  <1>5. r \in Seq(T) /\ Len(r) = n + 1 /\ r[n + 1] = s /\ \A i \in 1 .. n : r[i] = w[i]
    BY <1>2, <1>3, <1>4, AppendProperties
  <1>6. /\ \A i \in 1 .. n : i \in 1 .. Len(r) /\ i < n + 1
        /\ \A i \in 1 .. Len(r) : i = n + 1 \/ i \in 1 .. n
        /\ n + 1 \in 1 .. Len(r)
    BY <1>5
  <1>7. DOMAIN r = 1 .. Len(r) /\ DOMAIN w = 1 .. n
    BY <1>2, <1>4, <1>5, LenProperties
  <1>8. \A i \in 1 .. n : w[i] # s
    BY <1>2, <1>7 DEF Range
  <1>9. Distinct(r)
    <2> SUFFICES ASSUME NEW i \in 1 .. Len(r), NEW j \in 1 .. Len(r), r[i] = r[j]
                 PROVE  i = j
      BY DEF Distinct
    <2>1. CASE i = n + 1 \/ j = n + 1
      BY <1>5, <1>6, <1>8, <2>1
    <2>2. CASE i \in 1 .. n /\ j \in 1 .. n
      BY <1>2, <1>4, <1>5, <2>2 DEF Distinct
    <2> QED
      BY <1>6, <2>1, <2>2
  <1>10. Range(r) = Range(q) \cup {s}
    <2>1. ASSUME NEW x \in Range(r)
          PROVE  x \in Range(q) \cup {s}
      <3>1. PICK i \in 1 .. Len(r) : x = r[i]
        BY <1>7 DEF Range
      <3>2. x = s \/ x \in Range(w)
        BY <1>5, <1>6, <1>7, <3>1 DEF Range
      <3> QED
        BY <1>2, <3>2
    <2>2. s \in Range(r)
      BY <1>5, <1>6, <1>7 DEF Range
    <2>3. ASSUME NEW x \in Range(w)
          PROVE  x \in Range(r)
      <3>1. PICK i \in 1 .. n : x = w[i]
        BY <1>7 DEF Range
      <3>2. r[i] = x /\ i \in DOMAIN r
        BY <1>5, <1>6, <1>7, <3>1
      <3> QED
        BY <3>2 DEF Range
    <2> QED
      BY <1>2, <2>1, <2>2, <2>3
  <1>11. s \in Range(q) => Len(r) = Len(q)
    <2>1. Cardinality(Range(r)) = Len(r) /\ Cardinality(Range(q)) = Len(q)
      BY <1>5, <1>9, Counted
    <2> QED
      BY <1>10, <2>1
  <1>12. ASSUME NEW x \in Range(q), NEW y \in Range(q), x # s, y = s \/ Before(q, x, y)
         PROVE  Before(r, x, y)
    <2>1. CASE y = s
      <3>1. x \in Range(w)
        BY <1>2, <1>12
      <3>2. PICK i \in 1 .. n : x = w[i]
        BY <1>7, <3>1 DEF Range
      <3>3. r[i] = x /\ i \in 1 .. Len(r) /\ i < n + 1
        BY <1>5, <1>6, <3>2
      <3> QED
        BY <1>5, <1>6, <2>1, <3>3 DEF Before
    <2>2. CASE y # s
      <3>1. Before(w, x, y)
        BY <1>2, <1>12, <2>2
      <3>2. PICK i \in 1 .. n, j \in 1 .. n : i < j /\ w[i] = x /\ w[j] = y
        BY <1>4, <3>1 DEF Before
      <3>3. r[i] = x /\ r[j] = y /\ i \in 1 .. Len(r) /\ j \in 1 .. Len(r)
        BY <1>5, <1>6, <3>2
      <3> QED
        BY <3>2, <3>3 DEF Before
    <2> QED
      BY <2>1, <2>2
  <1> QED
    BY <1>5, <1>9, <1>10, <1>11, <1>12

-----------------------------------------------------------------------------
(* The constants, and what a cache's list of slots says of them. *)
LEMMA Constants ==
  /\ NLayers \in Nat \ {0} /\ MaxFaults \in Nat /\ Chunk \in Nat \ {0}
  /\ IsFiniteSet(Slots) /\ IsFiniteSet(Keys) /\ None \notin Slots /\ None \notin Keys
  /\ \A l \in Layers : l \in Nat
  /\ \A n \in SlotCounts : n \in Nat /\ n >= 1 /\ n <= Len(SlotOrder)
  /\ SlotOrder \in Seq(Slots) /\ Len(SlotOrder) \in Nat /\ Distinct(SlotOrder)
  /\ \A n \in SlotCounts : \A q \in Asks(n) : q \in Seq(Experts) /\ Len(q) \in 1 .. n
  /\ WarmOrder \in Seq(Keys)
  <1>1. SlotOrder \in Seq(Slots) /\ Cardinality(Slots) = Len(SlotOrder)
    BY CacheAssumption
  <1>2. IsFiniteSet(Slots) /\ Len(SlotOrder) \in Nat /\ Distinct(SlotOrder)
    BY <1>1, Counted DEF Slots
  <1>3. NLayers \in Nat \ {0} /\ IsFiniteSet(Experts)
    BY CacheAssumption
  <1>4. IsFiniteSet(Layers)
    <2>1. 0 \in Int /\ NLayers - 1 \in Int
      BY <1>3
    <2> QED
      BY <2>1, FS_Interval DEF Layers
  <1>5. IsFiniteSet(Keys)
    BY <1>3, <1>4, FS_Product DEF Keys
  <1>6. \A l \in Layers : l \in Nat
    BY <1>3 DEF Layers
  <1>7. \A n \in SlotCounts : n \in Nat /\ n >= 1 /\ n <= Len(SlotOrder)
    BY <1>2, CacheAssumption
  <1> QED
    BY <1>1, <1>2, <1>3, <1>5, <1>6, <1>7, CacheAssumption

LEMMA ListIs ==
  ASSUME MapOK
  PROVE  /\ NSlots \in Nat /\ NSlots >= 1 /\ NSlots = Cardinality(Range(lru))
         /\ Range(lru) \subseteq Slots /\ Range(lru) # {} /\ IsFiniteSet(Range(lru))
         /\ \A l \in Layers : Range(llist[l]) \subseteq Range(lru)
         /\ \A s \in Slots : key[s] # None => s \in Range(lru) /\ key[s] \in Keys
         /\ IsFiniteSet(Full)
  <1>1. NSlots \in SlotCounts /\ lru \in Seq(Slots) /\ Distinct(lru) /\ Full \in SUBSET Range(lru)
    BY DEF MapOK, MapT, MapInv
  <1>2. NSlots \in Nat /\ NSlots >= 1
    BY <1>1, Constants
  <1>3. /\ IsFiniteSet(Range(lru)) /\ Cardinality(Range(lru)) = NSlots
        /\ Range(lru) \subseteq Slots
    BY <1>1, Counted DEF NSlots
  <1>4. Range(lru) # {}
    BY <1>2, <1>3, FS_EmptySet
  <1>5. \A s \in Slots : key[s] # None => s \in Range(lru) /\ key[s] \in Keys
    BY DEF MapOK, MapT, MapInv, Full
  <1>6. \A l \in Layers : Range(llist[l]) \subseteq Range(lru)
    BY <1>5 DEF MapOK, MapInv
  <1>7. IsFiniteSet(Full)
    BY <1>1, <1>3, FS_Subset
  <1> QED
    BY <1>2, <1>3, <1>4, <1>5, <1>6, <1>7

(* The slot to reuse: one that may go if there is one, the last of the list
   while the cache is not full. *)
LEMMA LastFreeIs ==
  ASSUME NEW q \in Seq(Slots), NEW u, NEW v, v = LastFree(q, u)
  PROVE  /\ v = None => \A x \in Range(q) : x \in u \/ x \in pf_flag
         /\ v # None => /\ v \in Range(q) /\ v \notin u /\ v \notin pf_flag
                        /\ \A x \in Range(q) : x \notin u /\ x \notin pf_flag =>
                             x = v \/ Before(q, x, v)
  <1> DEFINE free == {i \in DOMAIN q : q[i] \notin u /\ q[i] \notin pf_flag}
  <1>1. Len(q) \in Nat /\ DOMAIN q = 1 .. Len(q) /\ \A i \in 1 .. Len(q) : q[i] \in Slots
    BY LenProperties, ElementOfSeq
  <1>2. CASE free = {}
    <2>1. v = None
      BY <1>2 DEF LastFree
    <2> QED
      BY <1>2, <2>1 DEF Range
  <1>3. CASE free # {}
    <2>1. free \in SUBSET (1 .. Len(q))
      BY <1>1
    <2>2. PICK i : i = CHOOSE x \in free : \A y \in free : y <= x
      OBVIOUS
    <2>3. \E x \in free : \A y \in free : y <= x
      BY <1>1, <1>3, <2>1, Last
    <2>4. i \in free /\ \A j \in free : j <= i
      BY <2>2, <2>3
    <2>5. v = q[i]
      BY <1>3, <2>2 DEF LastFree
    <2>6. v \in Range(q) /\ v # None /\ v \notin u /\ v \notin pf_flag
      BY <1>1, <2>4, <2>5, Constants DEF Range
    <2>7. ASSUME NEW x \in Range(q), x \notin u, x \notin pf_flag
          PROVE  x = v \/ Before(q, x, v)
      <3>1. PICK j \in 1 .. Len(q) : x = q[j]
        BY <1>1 DEF Range
      <3>2. j <= i /\ i \in 1 .. Len(q)
        BY <1>1, <2>4, <2>7, <3>1
      <3>3. j = i \/ j < i
        BY <1>1, <3>2
      <3> QED
        BY <2>5, <3>1, <3>2, <3>3 DEF Before
    <2> QED
      BY <2>6, <2>7
  <1> QED
    BY <1>2, <1>3

LEMMA WantedIs ==
  ASSUME MapOK, PassT, NEW u, NEW v, v = WantedLatest(u), v # None
  PROVE  v \in Range(lru) /\ v \notin u /\ v \notin pf_flag
  <1> DEFINE Ago(d) == LastFree(llist[(cur_layer + NLayers - d) % NLayers], u)
             ds == {d \in Layers : Ago(d) # None}
  <1>1. ds # {} /\ v = Ago(CHOOSE d \in ds : \A x \in ds : d <= x)
    BY DEF WantedLatest
  <1>2. ds \in SUBSET Nat
    BY Constants
  <1> HIDE DEF Ago
  <1>3. PICK d : d = CHOOSE z \in ds : \A x \in ds : z <= x
    OBVIOUS
  <1>4. \E x \in ds : \A y \in ds : x <= y
    BY <1>1, <1>2, First
  <1>5. d \in Layers /\ v = Ago(d)
    BY <1>1, <1>3, <1>4
  <1>6. PICK l : l = (cur_layer + NLayers - d) % NLayers
    OBVIOUS
  <1>7. l \in Layers
    <2>1. NLayers \in Nat \ {0} /\ cur_layer + NLayers - d \in Int
      BY <1>5, Constants DEF PassT
    <2> QED
      BY <1>6, <2>1 DEF Layers
  <1>8. v = LastFree(llist[l], u)
    BY <1>5, <1>6 DEF Ago
  <1>9. llist[l] \in Seq(Slots)
    BY <1>7 DEF MapOK, MapT
  <1>10. v \in Range(llist[l]) /\ v \notin u /\ v \notin pf_flag
    BY <1>8, <1>9, LastFreeIs
  <1> QED
    BY <1>7, <1>10, ListIs

LEMMA VictimIs ==
  ASSUME MapOK, PassT, NEW u, NEW v, v = victim(u)
  PROVE  /\ v # None => v \in Range(lru) /\ v \in Slots /\ v \notin u /\ v \notin pf_flag
         /\ v = None => \A x \in Range(lru) : x \in u \/ x \in pf_flag
         /\ filled < NSlots /\ v # None =>
              \A x \in Range(lru) : x \notin u /\ x \notin pf_flag => x = v \/ Before(lru, x, v)
  <1>1. lru \in Seq(Slots) /\ NSlots \in Nat /\ filled \in Nat
    BY ListIs DEF MapOK, MapT
  <1>2. Range(lru) \subseteq Slots
    BY ListIs
  <1>3. CASE filled = NSlots /\ pass_larger /\ WantedLatest(u) # None
    <2>1. v = WantedLatest(u) /\ v # None
      BY <1>3 DEF victim
    <2>2. v \in Range(lru) /\ v \notin u /\ v \notin pf_flag
      BY <2>1, WantedIs
    <2> QED
      BY <1>1, <1>2, <1>3, <2>1, <2>2
  <1>4. CASE ~(filled = NSlots /\ pass_larger /\ WantedLatest(u) # None)
    <2>1. v = LastFree(lru, u)
      BY <1>4 DEF victim
    <2> QED
      BY <1>1, <1>2, <2>1, LastFreeIs
  <1> QED
    BY <1>3, <1>4

-----------------------------------------------------------------------------
(* A slot given to another expert. *)
PutIn(q, s, front) == IF front THEN Front(q, s) ELSE Back(q, s)

LEMMA PutIs ==
  ASSUME NEW q \in Seq(Slots), Distinct(q), NEW s \in Slots, NEW front \in BOOLEAN,
         NEW r, r = PutIn(q, s, front)
  PROVE  /\ r \in Seq(Slots) /\ Distinct(r) /\ Range(r) = Range(q) \cup {s}
         /\ s \in Range(q) => Len(r) = Len(q)
         /\ \A x, y \in Range(q) : front /\ y # s /\ (x = s \/ Before(q, x, y)) => Before(r, x, y)
         /\ \A x, y \in Range(q) : ~front /\ x # s /\ Before(q, x, y) => Before(r, x, y)
  <1>1. CASE front
    <2>1. r = Front(q, s)
      BY <1>1 DEF PutIn
    <2>2. /\ r \in Seq(Slots) /\ Distinct(r) /\ Range(r) = Range(q) \cup {s}
          /\ s \in Range(q) => Len(r) = Len(q)
          /\ \A x, y \in Range(q) : y # s /\ (x = s \/ Before(q, x, y)) => Before(r, x, y)
      BY <2>1, FrontIs
    <2> QED
      BY <1>1, <2>2
  <1>2. CASE ~front
    <2>1. r = Back(q, s)
      BY <1>2 DEF PutIn
    <2>2. /\ r \in Seq(Slots) /\ Distinct(r) /\ Range(r) = Range(q) \cup {s}
          /\ s \in Range(q) => Len(r) = Len(q)
          /\ \A x, y \in Range(q) : x # s /\ (y = s \/ Before(q, x, y)) => Before(r, x, y)
      BY <2>1, BackIs
    <2> QED
      BY <1>2, <2>2
  <1> QED
    BY <1>1, <1>2

Given1(s, k) ==
  /\ key' = [key EXCEPT ![s] = k] /\ where'[k] = s
  /\ \A j \in Keys : where'[j] \in {where[j], None, s} /\ (where'[j] = s => j = k)
  /\ NSlots' = NSlots /\ Range(lru)' = Range(lru)

LEMMA AssignKeeps ==
  ASSUME MapOK, NEW s \in Range(lru), NEW k \in Keys, where[k] = None,
         NEW front \in BOOLEAN, Assign(s, k, front)
  PROVE  /\ MapOK' /\ Given1(s, k) /\ filled' >= filled
         /\ \A x, y \in Range(lru) : front /\ y # s /\ (x = s \/ Before(lru, x, y)) => Before(lru', x, y)
         /\ \A x, y \in Range(lru) : ~front /\ x # s /\ Before(lru, x, y) => Before(lru', x, y)
  <1>1. PICK old : old = key[s]
    OBVIOUS
  <1>2. PICK away : away = IF old = None THEN llist
                           ELSE [llist EXCEPT ![old[1]] = Without(@, {s})]
    OBVIOUS
  <1>3. /\ key' = [key EXCEPT ![s] = k]
        /\ where' = [j \in Keys |-> IF j = k THEN s ELSE IF j = old THEN None ELSE where[j]]
        /\ filled' = IF old = None THEN filled + 1 ELSE filled
        /\ llist' = [away EXCEPT ![k[1]] = PutIn(@, s, front)]
        /\ lru' = PutIn(lru, s, front)
    BY <1>1, <1>2 DEF Assign, PutIn
  <1>4. /\ where \in [Keys -> Slots \cup {None}] /\ key \in [Slots -> Keys \cup {None}]
        /\ lru \in Seq(Slots) /\ NSlots \in SlotCounts /\ llist \in [Layers -> Seq(Slots)]
        /\ filled \in 0 .. NSlots
    BY DEF MapOK, MapT
  <1>5. /\ \A j \in Keys, t \in Slots : where[j] = t <=> key[t] = j
        /\ filled = Cardinality(Full) /\ Distinct(lru) /\ Full \subseteq Range(lru)
    BY DEF MapOK, MapInv
  <1>6. \A l \in Layers : /\ Distinct(llist[l])
                          /\ Range(llist[l]) = {t \in Slots : key[t] # None /\ key[t][1] = l}
    BY DEF MapOK, MapInv
  <1>7. /\ s \in Slots /\ None \notin Slots /\ None \notin Keys /\ NSlots \in Nat
        /\ IsFiniteSet(Full) /\ \A j \in Keys : j[1] \in Layers
    BY ListIs, Constants DEF Keys
  <1>8. old \in Keys \cup {None} /\ k # old
    BY <1>1, <1>4, <1>5, <1>7
  <1>9. /\ lru' \in Seq(Slots) /\ Distinct(lru') /\ Range(lru') = Range(lru)
        /\ Len(lru') = Len(lru)
        /\ \A x, y \in Range(lru) : front /\ y # s /\ (x = s \/ Before(lru, x, y)) => Before(lru', x, y)
        /\ \A x, y \in Range(lru) : ~front /\ x # s /\ Before(lru, x, y) => Before(lru', x, y)
    <2>1. PICK r : r = PutIn(lru, s, front)
      OBVIOUS
    <2>2. lru \in Seq(Slots) /\ Distinct(lru) /\ s \in Slots /\ s \in Range(lru)
      BY <1>4, <1>5, <1>7
    <2>3. /\ r \in Seq(Slots) /\ Distinct(r) /\ Range(r) = Range(lru) \cup {s}
          /\ s \in Range(lru) => Len(r) = Len(lru)
          /\ \A x, y \in Range(lru) : front /\ y # s /\ (x = s \/ Before(lru, x, y)) => Before(r, x, y)
          /\ \A x, y \in Range(lru) : ~front /\ x # s /\ Before(lru, x, y) => Before(r, x, y)
      BY <2>1, <2>2, PutIs
    <2>4. lru' = r
      BY <1>3, <2>1
    <2> QED
      BY <2>2, <2>3, <2>4
  <1>10. key' \in [Slots -> Keys \cup {None}] /\ where' \in [Keys -> Slots \cup {None}]
    BY <1>3, <1>4, <1>7
  <1>11. \A j \in Keys, t \in Slots : where'[j] = t <=> key'[t] = j
    <2> SUFFICES ASSUME NEW j \in Keys, NEW t \in Slots
                 PROVE  where'[j] = t <=> key'[t] = j
      OBVIOUS
    <2>1. where'[j] = IF j = k THEN s ELSE IF j = old THEN None ELSE where[j]
      BY <1>3
    <2>2. key'[t] = IF t = s THEN k ELSE key[t]
      BY <1>3, <1>4
    <2>3. where[j] = t <=> key[t] = j
      BY <1>5
    <2>4. j = old => where[j] = s
      BY <1>1, <1>5, <1>7
    <2> QED
      BY <1>1, <1>7, <2>1, <2>2, <2>3, <2>4
  <1>12. Full' = Full \cup {s}
    BY <1>3, <1>4, <1>7 DEF Full
  <1>13. filled' = Cardinality(Full') /\ filled' >= filled
    <2>1. s \in Full <=> old # None
      BY <1>1, <1>7 DEF Full
    <2>2. Cardinality(Full \cup {s}) = IF s \in Full THEN Cardinality(Full) ELSE Cardinality(Full) + 1
      BY <1>7, FS_AddElement
    <2> QED
      BY <1>3, <1>4, <1>5, <1>7, <1>12, <2>1, <2>2
  <1>14. Full' \in SUBSET Range(lru')
    BY <1>5, <1>9, <1>12
  <1>15. filled' \in 0 .. NSlots'
    <2>1. IsFiniteSet(Range(lru')) /\ Cardinality(Range(lru')) = NSlots' /\ NSlots' \in Nat
      BY <1>9, Counted DEF NSlots
    <2>2. Cardinality(Full') <= NSlots' /\ Cardinality(Full') \in Nat
      BY <1>14, <2>1, FS_Subset, FS_CardinalityType
    <2> QED
      BY <1>13, <2>1, <2>2
  <1>16. /\ away \in [Layers -> Seq(Slots)]
         /\ \A l \in Layers : /\ Distinct(away[l])
                              /\ \A t : t \in Range(away[l]) <=> t \in Range(llist[l]) /\ t # s
    <2>1. CASE old = None
      <3>1. \A l \in Layers : s \notin Range(llist[l])
        BY <1>1, <1>6, <2>1
      <3> QED
        BY <1>2, <1>4, <1>6, <2>1, <3>1
    <2>2. CASE old # None
      <3>1. PICK o \in Layers : o = old[1]
        BY <1>7, <1>8, <2>2
      <3>2. PICK w : w = Without(llist[o], {s})
        OBVIOUS
      <3>3. llist[o] \in Seq(Slots) /\ Distinct(llist[o])
        BY <1>4, <1>6
      <3>4. /\ w \in Seq(Slots) /\ Distinct(w)
            /\ \A t : t \in Range(w) <=> t \in Range(llist[o]) /\ t \notin {s}
        BY <3>2, <3>3, WithoutIs
      <3>5. away = [llist EXCEPT ![o] = w]
        BY <1>2, <2>2, <3>1, <3>2
      <3>6. \A l \in Layers : l # o => s \notin Range(llist[l])
        BY <1>1, <1>6, <3>1
      <3>7. away \in [Layers -> Seq(Slots)]
        BY <1>4, <3>4, <3>5
      <3>8. \A l \in Layers : away[l] = IF l = o THEN w ELSE llist[l]
        BY <1>4, <3>5
      <3> QED
        BY <1>6, <3>4, <3>6, <3>7, <3>8
    <2> QED
      BY <2>1, <2>2
  <1>17. PICK n \in Layers : n = k[1]
    BY <1>7
  <1>18. PICK z : z = PutIn(away[n], s, front)
    OBVIOUS
  <1>19. away[n] \in Seq(Slots) /\ Distinct(away[n])
    BY <1>16
  <1>20. z \in Seq(Slots) /\ Distinct(z) /\ Range(z) = Range(away[n]) \cup {s}
    BY <1>7, <1>18, <1>19, PutIs
  <1>21. llist' = [away EXCEPT ![n] = z]
    BY <1>3, <1>17, <1>18
  <1>22. llist' \in [Layers -> Seq(Slots)] /\ \A l \in Layers : llist'[l] = IF l = n THEN z ELSE away[l]
    BY <1>16, <1>20, <1>21
  <1>23. ASSUME NEW l \in Layers
         PROVE  /\ Distinct(llist'[l])
                /\ Range(llist'[l]) = {t \in Slots : key'[t] # None /\ key'[t][1] = l}
    <2>1. Distinct(llist'[l])
      BY <1>16, <1>20, <1>22
    <2>2. \A t : t \in Range(llist'[l]) <=> (t \in Range(llist[l]) /\ t # s) \/ (t = s /\ l = n)
      BY <1>16, <1>20, <1>22
    <2>3. \A t \in Slots : key'[t] = IF t = s THEN k ELSE key[t]
      BY <1>3, <1>4
    <2>4. \A t : t \in Range(llist[l]) <=> t \in Slots /\ key[t] # None /\ key[t][1] = l
      BY <1>6
    <2> QED
      BY <1>7, <1>17, <2>1, <2>2, <2>3, <2>4
  <1>24. MapT'
    BY <1>4, <1>9, <1>10, <1>15, <1>22 DEF MapT, NSlots
  <1>25. MapInv'
    BY <1>9, <1>11, <1>13, <1>14, <1>23 DEF MapInv
  <1>26. Given1(s, k)
    <2>1. key' = [key EXCEPT ![s] = k] /\ where'[k] = s
      BY <1>3
    <2>2. ASSUME NEW j \in Keys
          PROVE  where'[j] \in {where[j], None, s} /\ (where'[j] = s => j = k)
      <3>1. where'[j] = IF j = k THEN s ELSE IF j = old THEN None ELSE where[j]
        BY <1>3
      <3>2. where[j] = s => j = old
        BY <1>1, <1>5, <1>7
      <3> QED
        BY <1>7, <3>1, <3>2
    <2> QED
      BY <1>9, <2>1, <2>2 DEF Given1, NSlots
  <1> QED
    BY <1>9, <1>13, <1>24, <1>25, <1>26 DEF MapOK

-----------------------------------------------------------------------------
(* Reads waited for, and slots emptied. *)
LEMMA OursIs ==
  ASSUME NEW P
  PROVE  \A s : s \in SlotsOf(ReadsOf(P)) <=> \E p \in P : s \in Ours(p)
  BY DEF SlotsOf, ReadsOf, Ours

LEMMA OwnedIs ==
  ASSUME ReadT
  PROVE  \A p \in Parities :
           /\ pf[p].reads \in SUBSET Reads /\ pf[p].layer \in Layers /\ pf[p].inflight \in BOOLEAN
           /\ \A s : s \in Ours(p) <=> \E r \in pf[p].reads : r[1] = s
           /\ Ours(p) \in SUBSET Slots
           /\ \A r \in pf[p].reads : /\ r = <<r[1], r[2]>> /\ r[1] \in Slots /\ r[2] \in Keys
                                     /\ r[1] \in Ours(p)
  BY DEF ReadT, Sets, Reads, Ours, SlotsOf

LEMMA LandedIs ==
  ASSUME ReadT, NEW R \in SUBSET Reads, NEW D
  PROVE  Landed(R, D) \in [Slots -> Keys \cup {None}]
  <1> SUFFICES ASSUME NEW s \in Slots
               PROVE  Landed(R, D)[s] \in Keys \cup {None}
    BY DEF Landed
  <1>1. content[s] \in Keys \cup {None}
    BY DEF ReadT
  <1>2. ASSUME \E r \in R : r[1] = s
        PROVE  Landed(R, D)[s] \in Keys \cup {None}
    <2>1. PICK r : r = CHOOSE x \in R : x[1] = s
      OBVIOUS
    <2>2. r \in R
      BY <1>2, <2>1
    <2>3. r[2] \in Keys
      BY <2>2 DEF Reads
    <2>4. Landed(R, D)[s] = IF r \in D THEN r[2] ELSE None
      BY <1>2, <2>1 DEF Landed
    <2> QED
      BY <2>3, <2>4
  <1>3. ~(\E r \in R : r[1] = s) => Landed(R, D)[s] = content[s]
    BY DEF Landed
  <1> QED
    BY <1>1, <1>2, <1>3

Emptied(S) ==
  /\ key' = [s \in Slots |-> IF s \in S THEN None ELSE key[s]]
  /\ where' = [k \in Keys |-> IF where[k] \in S THEN None ELSE where[k]]
  /\ llist' = [l \in Layers |-> Without(llist[l], S)]
  /\ filled' = filled - Cardinality(S)

LEMMA EmptiedKeeps ==
  ASSUME MapOK, NEW S \in SUBSET Full, Emptied(S), lru' = lru
  PROVE  MapOK' /\ filled' <= filled /\ (S = {} => filled' = filled)
  <1>1. /\ where \in [Keys -> Slots \cup {None}] /\ key \in [Slots -> Keys \cup {None}]
        /\ lru \in Seq(Slots) /\ NSlots \in SlotCounts /\ llist \in [Layers -> Seq(Slots)]
        /\ filled \in 0 .. NSlots
    BY DEF MapOK, MapT
  <1>2. /\ \A j \in Keys, t \in Slots : where[j] = t <=> key[t] = j
        /\ filled = Cardinality(Full) /\ Distinct(lru) /\ Full \subseteq Range(lru)
    BY DEF MapOK, MapInv
  <1>3. \A l \in Layers : /\ Distinct(llist[l])
                          /\ Range(llist[l]) = {t \in Slots : key[t] # None /\ key[t][1] = l}
    BY DEF MapOK, MapInv
  <1>4. IsFiniteSet(Full) /\ None \notin Slots /\ None \notin Keys /\ NSlots \in Nat
    BY ListIs, Constants
  <1>5. S \subseteq Slots
    BY DEF Full
  <1>6. key' \in [Slots -> Keys \cup {None}] /\ where' \in [Keys -> Slots \cup {None}]
    BY <1>1 DEF Emptied
  <1>7. \A j \in Keys, t \in Slots : where'[j] = t <=> key'[t] = j
    <2> SUFFICES ASSUME NEW j \in Keys, NEW t \in Slots
                 PROVE  where'[j] = t <=> key'[t] = j
      OBVIOUS
    <2>1. where'[j] = IF where[j] \in S THEN None ELSE where[j]
      BY DEF Emptied
    <2>2. key'[t] = IF t \in S THEN None ELSE key[t]
      BY DEF Emptied
    <2> QED
      BY <1>2, <1>4, <2>1, <2>2
  <1>8. Full' = Full \ S
    BY <1>5 DEF Full, Emptied
  <1>9. /\ filled' = Cardinality(Full') /\ filled' \in 0 .. NSlots /\ filled' <= filled
        /\ S = {} => filled' = filled
    <2>1. Full \cap S = S /\ IsFiniteSet(S) /\ IsFiniteSet(Full \ S)
      BY <1>4, FS_Subset, FS_Difference
    <2>2. Cardinality(Full \ S) = Cardinality(Full) - Cardinality(S)
      BY <1>4, <2>1, FS_Difference
    <2>3. Cardinality(S) \in Nat /\ Cardinality(Full \ S) \in Nat
      BY <2>1, FS_CardinalityType
    <2>4. filled' = filled - Cardinality(S)
      BY DEF Emptied
    <2>5. S = {} => Cardinality(S) = 0
      BY FS_EmptySet
    <2> QED
      BY <1>1, <1>2, <1>4, <1>8, <2>2, <2>3, <2>4, <2>5
  <1>10. ASSUME NEW l \in Layers
         PROVE  /\ llist'[l] \in Seq(Slots) /\ Distinct(llist'[l])
                /\ Range(llist'[l]) = {t \in Slots : key'[t] # None /\ key'[t][1] = l}
    <2>1. PICK w : w = Without(llist[l], S)
      OBVIOUS
    <2>2. llist[l] \in Seq(Slots) /\ Distinct(llist[l])
      BY <1>1, <1>3
    <2>3. /\ w \in Seq(Slots) /\ Distinct(w)
          /\ \A t : t \in Range(w) <=> t \in Range(llist[l]) /\ t \notin S
      BY <2>1, <2>2, WithoutIs
    <2>4. llist'[l] = w
      BY <2>1 DEF Emptied
    <2>5. \A t \in Slots : key'[t] = IF t \in S THEN None ELSE key[t]
      BY DEF Emptied
    <2>6. \A t : t \in Range(llist[l]) <=> t \in Slots /\ key[t] # None /\ key[t][1] = l
      BY <1>3
    <2> QED
      BY <2>3, <2>4, <2>5, <2>6
  <1>11. llist' \in [Layers -> Seq(Slots)]
    <2>1. llist' = [l \in Layers |-> Without(llist[l], S)]
      BY DEF Emptied
    <2>2. \A l \in Layers : Without(llist[l], S) \in Seq(Slots)
      BY <1>10, <2>1
    <2> QED
      BY <2>1, <2>2
  <1>12. MapT'
    BY <1>1, <1>6, <1>9, <1>11 DEF MapT, NSlots
  <1>13. MapInv'
    BY <1>2, <1>7, <1>8, <1>9, <1>10 DEF MapInv
  <1> QED
    BY <1>9, <1>12, <1>13 DEF MapOK

(* What a wait for reads ahead does to the map and the bytes. *)
LEMMA CollectKeeps ==
  ASSUME MapOK, ReadT, FlagT, FlagInv, SetInv, NEW P \in SUBSET Parities, NEW F,
         pf_collect(P, F), lru' = lru, NEW S, S = SlotsOf(ReadsOf(F))
  PROVE  /\ MapOK' /\ Emptied(S) /\ S \in SUBSET Full
         /\ filled' <= filled /\ (S = {} => filled' = filled)
         /\ content' \in [Slots -> Keys \cup {None}] /\ faults' \in 0 .. MaxFaults
         /\ F \in SUBSET P /\ \A p \in F : pf[p].inflight
         /\ \A s : s \in S <=> \E p \in F : s \in Ours(p)
  <1>1. F \in SUBSET P /\ \A p \in F : pf[p].inflight
    BY DEF pf_collect
  <1>2. \A s : s \in S <=> \E p \in F : s \in Ours(p)
    BY OursIs
  <1>3. ASSUME NEW s \in S
        PROVE  s \in Full
    <2>1. PICK p \in F : s \in Ours(p)
      BY <1>2
    <2>2. p \in Parities /\ pf[p].inflight
      BY <1>1
    <2>3. PICK r \in pf[p].reads : r[1] = s
      BY <2>1, <2>2, OwnedIs
    <2>4. ~Lost(p)
      BY <2>2 DEF SetInv
    <2>5. s \in Slots /\ key[s] # None
      BY <2>2, <2>3, <2>4, OwnedIs DEF Lost
    <2> QED
      BY <2>5 DEF Full
  <1>4. Emptied(S)
    BY DEF pf_collect, Emptied
  <1>5. MapOK' /\ filled' <= filled /\ (S = {} => filled' = filled)
    BY <1>3, <1>4, EmptiedKeeps
  <1>6. content' \in [Slots -> Keys \cup {None}]
    <2>1. PICK due : due = {p \in P : pf[p].inflight}
      OBVIOUS
    <2>2. PICK R : R = ReadsOf(due)
      OBVIOUS
    <2>3. PICK D : D = ReadsOf(due \ F)
      OBVIOUS
    <2>4. R \in SUBSET Reads
      BY <2>1, <2>2, OwnedIs DEF ReadsOf
    <2>5. content' = Landed(R, D)
      BY <2>1, <2>2, <2>3 DEF pf_collect
    <2> QED
      BY <2>4, <2>5, LandedIs
  <1>7. faults' \in 0 .. MaxFaults
    <2>1. 0 \in Int /\ 1 \in Int /\ F \in SUBSET (0 .. 1)
      BY <1>1 DEF Parities
    <2>2. IsFiniteSet(F)
      BY <2>1, FS_Interval, FS_Subset
    <2>3. Cardinality(F) \in Nat
      BY <2>2, FS_CardinalityType
    <2>4. faults + Cardinality(F) <= MaxFaults /\ faults' = faults + Cardinality(F)
      BY DEF pf_collect
    <2> QED
      BY <2>3, <2>4, Constants DEF FlagT
  <1> QED
    BY <1>1, <1>2, <1>3, <1>4, <1>5, <1>6, <1>7

(* Slots forget what they were to hold only where their set was in flight. *)
Forgotten ==
  /\ \A s \in Slots : \/ key'[s] = key[s]
                      \/ /\ key'[s] = None
                         /\ \E p \in Parities : pf[p].inflight /\ s \in Ours(p)
  /\ \A k \in Keys : where'[k] \in {where[k], None}

LEMMA ForgottenIs ==
  ASSUME MapOK, NEW F \in SUBSET Parities, NEW S, Emptied(S), \A p \in F : pf[p].inflight,
         \A s : s \in S <=> \E p \in F : s \in Ours(p)
  PROVE  Forgotten
  <1>1. \A s \in Slots : key'[s] = IF s \in S THEN None ELSE key[s]
    BY DEF Emptied
  <1>2. \A k \in Keys : where'[k] = IF where[k] \in S THEN None ELSE where[k]
    BY DEF Emptied
  <1> QED
    BY <1>1, <1>2 DEF Forgotten

LEMMA SettleKeeps ==
  ASSUME MapOK, ReadT, FlagT, FlagInv, SetInv, NEW P \in SUBSET Parities, NEW F,
         pf_settle(P, F), lru' = lru, at # "pfloop",
         \A q \in Parities : q \notin P => ~Listing(q)'
  PROVE  /\ MapOK' /\ content' \in [Slots -> Keys \cup {None}] /\ faults' \in 0 .. MaxFaults
         /\ pf' \in [Parities -> Sets] /\ pf_flag' \subseteq Slots
         /\ FlagInv' /\ SetInv' /\ Forgotten
         /\ \A q \in Parities : pf'[q] = IF q \in P THEN NoSet ELSE pf[q]
         /\ \A q \in Parities : Lost(q)' => q \notin P /\ Lost(q)
         /\ \A s \in Slots : s \in pf_flag' <=> s \in pf_flag /\ \A p \in P : s \notin Ours(p)
         /\ Range(lru) \subseteq pf_flag' => /\ AllHeld /\ filled' = filled
                                             /\ \A p \in P : pf[p].reads = {}
  <1>1. PICK S : S = SlotsOf(ReadsOf(F))
    OBVIOUS
  <1>2. pf_collect(P, F)
    BY DEF pf_settle
  <1>3. /\ MapOK' /\ Emptied(S) /\ S \in SUBSET Full
        /\ filled' <= filled /\ (S = {} => filled' = filled)
        /\ content' \in [Slots -> Keys \cup {None}] /\ faults' \in 0 .. MaxFaults
        /\ F \in SUBSET P /\ \A p \in F : pf[p].inflight
        /\ \A s : s \in S <=> \E p \in F : s \in Ours(p)
    BY <1>1, <1>2, CollectKeeps
  <1>4. pf' = [p \in Parities |-> IF p \in P THEN NoSet ELSE pf[p]]
    BY DEF pf_settle
  <1>5. NoSet \in Sets
    BY Constants DEF NoSet, Sets, Layers
  <1>6. /\ pf' \in [Parities -> Sets]
        /\ \A q \in Parities : pf'[q] = IF q \in P THEN NoSet ELSE pf[q]
    BY <1>4, <1>5 DEF ReadT
  <1>7. NoSet.reads = {} /\ NoSet.inflight = FALSE
    BY DEF NoSet
  <1>8. \A s \in Slots : s \in pf_flag' <=> s \in pf_flag /\ \A p \in P : s \notin Ours(p)
    <2>1. pf_flag' = pf_flag \ SlotsOf(ReadsOf(P))
      BY DEF pf_settle
    <2> QED
      BY <2>1, OursIs
  <1>9. pf_flag' \subseteq pf_flag /\ pf_flag \subseteq Slots
    BY DEF pf_settle, ReadT
  <1>10. \A q \in Parities : Ours(q)' = IF q \in P THEN {} ELSE Ours(q)
    BY <1>6, <1>7 DEF Ours, SlotsOf
  <1>11. FlagInv'
    <2>1. \A s \in Slots : s \in pf_flag' <=> \E p \in Parities : s \in Ours(p)'
      BY <1>8, <1>10 DEF FlagInv
    <2>2. pf_flag' \subseteq Range(lru')
      BY <1>9 DEF FlagInv
    <2>3. \A p, q \in Parities : p # q => Ours(p)' \cap Ours(q)' = {}
      BY <1>10 DEF FlagInv
    <2> QED
      BY <2>1, <2>2, <2>3 DEF FlagInv
  <1>12. ASSUME NEW q \in Parities, q \notin P, NEW r \in pf[q].reads
         PROVE  key'[r[1]] = key[r[1]]
    <2>1. r[1] \in Slots /\ r[1] \in Ours(q)
      BY OwnedIs
    <2>2. r[1] \notin S
      BY <1>3, <1>12, <2>1 DEF FlagInv
    <2> QED
      BY <1>3, <2>1, <2>2 DEF Emptied
  <1>13. \A q \in Parities : Lost(q)' => q \notin P /\ Lost(q)
    BY <1>6, <1>7, <1>12 DEF Lost
  <1>14. SetInv'
    <2> SUFFICES ASSUME NEW p \in Parities
                 PROVE  /\ \A r \in pf'[p].reads :
                             /\ r[2][1] = LayerOf(p)' /\ r[2][1] % 2 = p
                             /\ key'[r[1]] \in {None, r[2]}
                             /\ Lost(p)' => key'[r[1]] = None
                        /\ pf'[p].inflight \/ Listing(p)' => ~Lost(p)'
                        /\ pf'[p].inflight => pf'[p].reads # {}
      BY DEF SetInv
    <2>1. CASE p \in P
      BY <1>6, <1>7, <1>13, <2>1
    <2>2. CASE p \notin P
      <3>1. pf'[p] = pf[p] /\ ~Listing(p)' /\ ~Listing(p)
        BY <1>6, <2>2 DEF Listing
      <3>2. LayerOf(p)' = LayerOf(p)
        BY <3>1 DEF LayerOf
      <3>3. /\ \A r \in pf[p].reads :
                 /\ r[2][1] = LayerOf(p) /\ r[2][1] % 2 = p
                 /\ key[r[1]] \in {None, r[2]}
                 /\ Lost(p) => key[r[1]] = None
            /\ pf[p].inflight => ~Lost(p)
            /\ pf[p].inflight => pf[p].reads # {}
        BY DEF SetInv
      <3> QED
        BY <1>12, <1>13, <2>2, <3>1, <3>2, <3>3
    <2> QED
      BY <2>1, <2>2
  <1>15. Forgotten
    BY <1>3, ForgottenIs
  <1>16. ASSUME Range(lru) \subseteq pf_flag'
         PROVE  AllHeld /\ filled' = filled /\ \A p \in P : pf[p].reads = {}
    <2>1. AllHeld
      BY <1>9, <1>16 DEF AllHeld
    <2>2. \A p \in P : Ours(p) = {}
      <3> SUFFICES ASSUME NEW p \in P, NEW s \in Ours(p)
                   PROVE  FALSE
        OBVIOUS
      <3>1. s \in Slots
        BY OwnedIs
      <3>2. s \in pf_flag /\ s \in Range(lru)
        BY <3>1 DEF FlagInv
      <3> QED
        BY <1>8, <1>16, <3>1, <3>2
    <2>3. \A p \in P : pf[p].reads = {}
      BY <2>2, OwnedIs
    <2>4. S = {}
      BY <1>3, <2>2
    <2> QED
      BY <1>3, <2>1, <2>3, <2>4
  <1> QED
    BY <1>3, <1>6, <1>8, <1>9, <1>11, <1>13, <1>14, <1>15, <1>16

-----------------------------------------------------------------------------
(* What steps leave alone. *)
Still ==
  /\ where' = where /\ key' = key /\ lru' = lru /\ llist' = llist /\ filled' = filled
  /\ used' = used /\ pf' = pf /\ pf_flag' = pf_flag
  /\ cur_layer' = cur_layer /\ pass_asked' = pass_asked /\ pass_larger' = pass_larger

LEMMA CallFields ==
  ASSUME CallT
  PROVE  /\ call.layer \in Layers /\ call.ids \in Seq(Experts) /\ call.got \in Seq(Slots \cup {None})
         /\ call.ready \in SUBSET Nat /\ call.rest \in Seq(Experts) /\ call.many \in BOOLEAN
         /\ call.i \in Nat /\ Len(call.ids) \in Nat /\ Len(call.got) \in Nat /\ Len(call.rest) \in Nat
         /\ DOMAIN call.ids = 1 .. Len(call.ids) /\ DOMAIN call.got = 1 .. Len(call.got)
         /\ \A j \in 1 .. Len(call.ids) : Asked(j) \in Keys
         /\ \A j \in 1 .. Len(call.got) : call.got[j] \in Slots \cup {None}
  <1>1. call \in Calls
    BY DEF CallT
  <1>2. /\ call.layer \in Layers /\ call.ids \in Seq(Experts) /\ call.got \in Seq(Slots \cup {None})
        /\ call.ready \in SUBSET Nat /\ call.rest \in Seq(Experts) /\ call.many \in BOOLEAN
        /\ call.i \in Nat
    BY <1>1 DEF Calls
  <1>3. /\ Len(call.ids) \in Nat /\ Len(call.got) \in Nat /\ Len(call.rest) \in Nat
        /\ DOMAIN call.ids = 1 .. Len(call.ids) /\ DOMAIN call.got = 1 .. Len(call.got)
    BY <1>2, LenProperties
  <1>4. \A j \in 1 .. Len(call.ids) : call.ids[j] \in Experts
    BY <1>2, ElementOfSeq
  <1>5. \A j \in 1 .. Len(call.got) : call.got[j] \in Slots \cup {None}
    BY <1>2, ElementOfSeq
  <1> QED
    BY <1>2, <1>3, <1>4, <1>5 DEF Asked, Keys

LEMMA EndsIs ==
  ASSUME FlagT, NEW ok \in BOOLEAN, NEW may, Ends(ok, may)
  PROVE  faults' \in 0 .. MaxFaults
  BY Constants DEF FlagT, Ends

LEMMA MapStays ==
  ASSUME MapOK, PassT, Still
  PROVE  MapOK' /\ PassT' /\ NSlots' = NSlots
  BY DEF MapOK, MapT, MapInv, PassT, Full, NSlots, Still

LEMMA SetsStay ==
  ASSUME ReadT, FlagInv, SetInv, pf' = pf, pf_flag' = pf_flag, Range(lru)' = Range(lru),
         \A s \in pf_flag : key'[s] = key[s],
         \A p \in Parities : /\ Listing(p)' <=> Listing(p)
                             /\ LayerOf(p)' = LayerOf(p)
  PROVE  /\ FlagInv' /\ SetInv'
         /\ \A p \in Parities : Ours(p)' = Ours(p) /\ (Lost(p)' <=> Lost(p))
  <1>1. \A p \in Parities : Ours(p)' = Ours(p)
    BY DEF Ours, SlotsOf
  <1>2. \A p \in Parities : \A r \in pf[p].reads : key'[r[1]] = key[r[1]]
    BY OwnedIs DEF FlagInv
  <1>3. \A p \in Parities : Lost(p)' <=> Lost(p)
    BY <1>2 DEF Lost
  <1>4. FlagInv'
    BY <1>1 DEF FlagInv
  <1>5. SetInv'
    BY <1>2, <1>3 DEF SetInv
  <1> QED
    BY <1>1, <1>3, <1>4, <1>5

LEMMA RoomStays ==
  ASSUME MapOK, RoomInv, filled' = filled, Range(lru)' = Range(lru), NSlots' = NSlots, pf' = pf,
         pf_flag' = pf_flag, \A s \in used : s \in used',
         \A p \in Parities : Ours(p)' = Ours(p) /\ (Lost(p)' <=> Lost(p)),
         \/ /\ Choosing /\ Choosing' /\ call'.layer = call.layer
            /\ at' \in {"loads", "reload"} => at \in {"loads", "reload"}
         \/ ~Choosing /\ ~Choosing'
  PROVE  RoomInv'
  <1>1. AllHeld' <=> AllHeld
    BY DEF AllHeld
  <1>2. \A p \in Parities : Outside(p) => Outside(p)'
    BY DEF Outside
  <1>3. CASE /\ Choosing /\ Choosing' /\ call'.layer = call.layer
             /\ at' \in {"loads", "reload"} => at \in {"loads", "reload"}
    BY <1>1, <1>3 DEF RoomInv
  <1>4. CASE ~Choosing /\ ~Choosing'
    BY <1>1, <1>2, <1>4 DEF RoomInv
  <1> QED
    BY <1>3, <1>4

(* What Still keeps, whatever becomes of the reads of a request. *)
LEMMA StillKeeps ==
  ASSUME IInv, Still,
         \/ at' = at /\ call'.layer = call.layer
         \/ at # "pfloop" /\ at' # "pfloop" /\ ~Choosing /\ ~Choosing'
  PROVE  /\ MapOK' /\ PassT' /\ NSlots' = NSlots /\ FlagInv' /\ SetInv' /\ RoomInv'
         /\ \A p \in Parities : Ours(p)' = Ours(p) /\ (Lost(p)' <=> Lost(p))
  <1>1. MapOK' /\ PassT' /\ NSlots' = NSlots
    BY MapStays DEF IInv, Types
  <1>2. \A p \in Parities : (Listing(p)' <=> Listing(p)) /\ LayerOf(p)' = LayerOf(p)
    <2>1. CASE at' = at /\ call'.layer = call.layer
      BY <2>1 DEF Listing, LayerOf, Ahead, Still
    <2>2. CASE at # "pfloop" /\ at' # "pfloop"
      BY <2>2 DEF Listing, LayerOf, Still
    <2> QED
      BY <2>1, <2>2
  <1>3. /\ FlagInv' /\ SetInv'
        /\ \A p \in Parities : Ours(p)' = Ours(p) /\ (Lost(p)' <=> Lost(p))
    BY <1>2, SetsStay DEF IInv, Types, Still
  <1>4. RoomInv'
    <2>1. MapOK /\ RoomInv
      BY DEF IInv
    <2>2. /\ filled' = filled /\ Range(lru)' = Range(lru) /\ pf' = pf
          /\ pf_flag' = pf_flag /\ \A s \in used : s \in used'
      BY DEF Still
    <2>3. \/ /\ Choosing /\ Choosing' /\ call'.layer = call.layer
             /\ at' \in {"loads", "reload"} => at \in {"loads", "reload"}
          \/ ~Choosing /\ ~Choosing'
      BY DEF Choosing
    <2> QED
      BY <1>1, <1>3, <2>1, <2>2, <2>3, RoomStays
  <1> QED
    BY <1>1, <1>3, <1>4

LEMMA QuietKeeps ==
  ASSUME IInv, Still, at' = at, call' = call, lost' = lost, api_lock' = api_lock,
         ReadT', FlagT', CallT'
  PROVE  IInv'
  <1>1. /\ MapOK' /\ PassT' /\ NSlots' = NSlots /\ FlagInv' /\ SetInv' /\ RoomInv'
        /\ \A p \in Parities : Ours(p)' = Ours(p) /\ (Lost(p)' <=> Lost(p))
    BY StillKeeps
  <1>2. (Choosing' <=> Choosing) /\ (Serving' <=> Serving) /\ Todo' = Todo
    BY DEF Choosing, Serving, Todo
  <1>3. CallInv'
    BY <1>2 DEF IInv, CallInv
  <1>4. GotInv'
    BY <1>2 DEF IInv, GotInv, Still, Asked
  <1>5. AheadInv'
    BY <1>1, <1>2 DEF IInv, AheadInv, Still, Listing, Ahead
  <1>6. CountInv'
    BY <1>1, <1>2 DEF IInv, CountInv, Still
  <1> QED
    BY <1>1, <1>3, <1>4, <1>5, <1>6 DEF IInv, Types

LEMMA CoordReadKeeps ==
  ASSUME IInv, NEW ok \in BOOLEAN, NEW D, CoordRead(ok, D)
  PROVE  IInv'
  <1>1. /\ Still /\ at' = at /\ call' = call /\ lost' = lost /\ api_lock' = api_lock
        /\ lease' = lease /\ warm' = warm /\ warm_stop' = warm_stop /\ warm_over' = warm_over
        /\ ring' = ring /\ via_ring' = via_ring
    BY DEF CoordRead, Still, mapVars, passVars, callVars, warmVars
  <1>2. content' = Landed(jobs, D) /\ jobs' = {} /\ pending' = FALSE /\ batch_rc' \in {0, -1}
    BY DEF CoordRead
  <1>3. ReadT'
    <2>1. content' \in [Slots -> Keys \cup {None}]
      BY <1>2, LandedIs DEF IInv, Types, ReadT
    <2> QED
      BY <1>1, <1>2, <2>1 DEF IInv, Types, ReadT, Still
  <1>4. FlagT'
    <2>1. faults' \in 0 .. MaxFaults
      BY EndsIs DEF CoordRead, IInv, Types
    <2> QED
      BY <1>1, <1>2, <2>1 DEF IInv, Types, FlagT
  <1>5. CallT'
    BY <1>1 DEF IInv, Types, CallT
  <1> QED
    BY <1>1, <1>3, <1>4, <1>5, QuietKeeps

LEMMA AloneKeeps ==
  ASSUME IInv, resident \/ WarmEnd \/ WarmSkip
  PROVE  IInv'
  <1>1. /\ Still /\ at' = at /\ call' = call /\ lost' = lost /\ api_lock' = api_lock
        /\ lease' = lease /\ warm_stop' = warm_stop /\ content' = content
        /\ jobs' = jobs /\ ring' = ring /\ via_ring' = via_ring /\ pending' = pending
        /\ batch_rc' = batch_rc /\ faults' = faults
    BY DEF resident, WarmEnd, WarmSkip, Still, mapVars, passVars, callVars, readVars, batchVars
  <1>2. warm' \in Seq(Keys) /\ warm_over' \in BOOLEAN
    <2>1. warm \in Seq(Keys) /\ warm_over \in BOOLEAN
      BY DEF IInv, Types, CallT, FlagT
    <2>2. CASE resident
      BY <2>1, <2>2 DEF resident
    <2>3. CASE WarmEnd
      BY <2>1, <2>3 DEF WarmEnd
    <2>4. CASE WarmSkip
      <3>1. warm # <<>> /\ warm' = Tail(warm) /\ warm_over' = warm_over
        BY <2>4 DEF WarmSkip, Warming
      <3> QED
        BY <2>1, <3>1, HeadTailProperties
    <2> QED
      BY <2>2, <2>3, <2>4
  <1>3. ReadT'
    BY <1>1 DEF IInv, Types, ReadT, Still
  <1>4. FlagT'
    BY <1>1, <1>2 DEF IInv, Types, FlagT
  <1>5. CallT'
    BY <1>1, <1>2 DEF IInv, Types, CallT
  <1> QED
    BY <1>1, <1>3, <1>4, <1>5, QuietKeeps

LEMMA StartKeeps ==
  ASSUME IInv, NEW ok \in BOOLEAN, Start(ok)
  PROVE  IInv'
  <1>1. /\ Still /\ at = "start" /\ at' = "begun" /\ call' = call /\ api_lock' = api_lock
        /\ lease' = lease /\ warm' = warm /\ warm_stop' = warm_stop /\ warm_over' = warm_over
        /\ content' = content
    BY DEF Start, Goto, Still, mapVars, passVars, warmVars
  <1>2. /\ lost' = (None \in Range(call.got)) /\ via_ring' \in BOOLEAN /\ pending' \in BOOLEAN
        /\ batch_rc' \in {batch_rc, -1}
        /\ ring' \subseteq ring \cup jobs /\ jobs' \subseteq jobs
    BY DEF Start
  <1>3. faults' \in 0 .. MaxFaults
    <2>1. CASE via_ring'
      BY <2>1, EndsIs DEF Start, IInv, Types
    <2>2. CASE ~via_ring'
      BY <2>2 DEF Start, IInv, Types, FlagT
    <2> QED
      BY <2>1, <2>2
  <1>4. ~Choosing /\ ~Choosing' /\ Serving /\ Serving' /\ Todo' = Todo
    BY <1>1 DEF Choosing, Serving, Todo
  <1>5. /\ MapOK' /\ PassT' /\ NSlots' = NSlots /\ FlagInv' /\ SetInv' /\ RoomInv'
        /\ \A p \in Parities : Ours(p)' = Ours(p) /\ (Lost(p)' <=> Lost(p))
    BY <1>1, <1>4, StillKeeps
  <1>6. ReadT'
    BY <1>1, <1>2 DEF IInv, Types, ReadT, Still
  <1>7. FlagT'
    BY <1>1, <1>2, <1>3 DEF IInv, Types, FlagT
  <1>8. CallT'
    BY <1>1 DEF IInv, Types, CallT
  <1>9. CallInv'
    BY <1>1, <1>4 DEF IInv, CallInv
  <1>10. \A j \in 1 .. Len(call.got) : call.got[j] # None
    BY <1>1 DEF IInv, GotInv
  <1>11. ~lost'
    <2>1. DOMAIN call.got = 1 .. Len(call.got)
      BY CallFields DEF IInv, Types
    <2> QED
      BY <1>2, <1>10, <2>1 DEF Range
  <1>12. GotInv'
    BY <1>1, <1>4, <1>10, <1>11 DEF IInv, GotInv, Still, Asked
  <1>13. AheadInv'
    BY <1>1, <1>4 DEF IInv, AheadInv, Still, Listing
  <1>14. CountInv'
    BY <1>1, <1>4, <1>5 DEF IInv, CountInv, Still
  <1> QED
    BY <1>5, <1>6, <1>7, <1>8, <1>9, <1>12, <1>13, <1>14 DEF IInv, Types

LEMMA NoCallIs ==
  /\ NoCall \in Calls /\ NoCall.layer = 0 /\ Len(NoCall.got) = 0 /\ NoCall.ready = {}
  /\ NoCall.rest = <<>> /\ NoCall.i = 1
  <1>1. PICK none : none = <<>>
    OBVIOUS
  <1>2. /\ none \in Seq(Slots \cup {None}) /\ none \in Seq(Experts) /\ Len(none) = 0
        /\ {} \in SUBSET Nat /\ 1 \in Nat /\ FALSE \in BOOLEAN
    BY <1>1
  <1>3. NoCall = [layer |-> 0, ids |-> none, got |-> none, ready |-> {}, rest |-> none,
                  many |-> FALSE, i |-> 1]
    BY <1>1 DEF NoCall
  <1>4. 0 \in Layers
    BY Constants DEF Layers
  <1>5. NoCall \in Calls
    BY <1>2, <1>3, <1>4 DEF Calls
  <1>6. /\ NoCall.layer = 0 /\ NoCall.got = none /\ NoCall.ready = {}
        /\ NoCall.rest = none /\ NoCall.i = 1
    BY <1>3
  <1> QED
    BY <1>1, <1>2, <1>5, <1>6

LEMMA DoneIs ==
  ASSUME CallT, NEW a, Done(a)
  PROVE  /\ at' = a /\ call' \in Calls /\ call'.rest = <<>> /\ call'.layer = 0
  <1>1. call.many \in BOOLEAN
    BY CallFields
  <1>2. PICK c : c = [NoCall EXCEPT !.many = call.many]
    OBVIOUS
  <1>3. c \in Calls
    BY <1>1, <1>2, NoCallIs DEF Calls
  <1>4. c.layer = NoCall.layer /\ c.rest = NoCall.rest
    BY <1>2, NoCallIs DEF Calls
  <1>5. at' = a /\ call' = c
    BY <1>2 DEF Done
  <1> QED
    BY <1>3, <1>4, <1>5, NoCallIs

(* A step that ends a call, or comes between two. *)
LEMMA RestKeeps ==
  ASSUME IInv, Still, ReadT', FlagT', CallT', ~Choosing, at # "pfloop",
         at' \in {"idle", "again", "djoin", "freed"}, api_lock' = "free",
         at' = "again" => /\ call'.rest # <<>> /\ used # {}
                          /\ Cardinality(used) + Len(call'.rest) <= NSlots
  PROVE  IInv'
  <1>1. ~Choosing' /\ ~Serving' /\ at' # "pfloop"
    BY DEF Choosing, Serving
  <1>2. /\ MapOK' /\ PassT' /\ NSlots' = NSlots /\ FlagInv' /\ SetInv' /\ RoomInv'
    BY <1>1, StillKeeps
  <1>3. CallInv'
    BY <1>1 DEF CallInv
  <1>4. GotInv'
    BY <1>1 DEF IInv, GotInv, Still
  <1>5. AheadInv'
    BY <1>1 DEF AheadInv, Listing
  <1>6. CountInv'
    BY <1>1, <1>2 DEF CountInv, Still
  <1> QED
    BY <1>2, <1>3, <1>4, <1>5, <1>6 DEF IInv, Types

LEMMA ReturnKeeps ==
  ASSUME IInv, at = "begun", NEW rc, Return(rc), ring' \subseteq Reads,
         content' \in [Slots -> Keys \cup {None}], faults' \in 0 .. MaxFaults
  PROVE  IInv'
  <1>1. /\ Still /\ jobs' = jobs /\ pending' = pending /\ warm' = warm /\ warm_stop' = warm_stop
        /\ warm_over' = warm_over /\ batch_rc' = 0 /\ lost' = FALSE /\ via_ring' = FALSE
        /\ api_lock' = "free" /\ lease' \subseteq lease \cup Given
    BY DEF Return, Still, mapVars, passVars, warmVars
  <1>2. ~Choosing /\ Serving
    BY DEF Choosing, Serving
  <1>3. Len(call.got) = Len(call.ids) /\ Len(call.ids) >= 1
    BY <1>2 DEF IInv, CallInv
  <1>4. CallT
    BY DEF IInv, Types
  <1>5. Given \subseteq (Slots \cup {None}) \X Keys
    <2>1. \A j \in DOMAIN call.ids : call.got[j] \in Slots \cup {None} /\ Asked(j) \in Keys
      BY <1>3, <1>4, CallFields
    <2> QED
      BY <2>1 DEF Given, Asked
  <1>6. \/ at' = "again" /\ call' = call /\ call.rest # <<>>
        \/ at' = "idle" /\ call' \in Calls
    <2>1. CASE rc = 0 /\ call.rest # <<>>
      BY <2>1 DEF Return, Goto
    <2>2. CASE ~(rc = 0 /\ call.rest # <<>>)
      <3>1. Done("idle")
        BY <2>2 DEF Return
      <3> QED
        BY <1>4, <3>1, DoneIs
    <2> QED
      BY <2>1, <2>2
  <1>7. CallT'
    <2>1. at' \in {"idle", "again"} /\ call' \in Calls
      BY <1>4, <1>6 DEF CallT
    <2>2. lease' \subseteq (Slots \cup {None}) \X Keys
      BY <1>1, <1>4, <1>5 DEF CallT
    <2> QED
      BY <1>1, <1>4, <2>1, <2>2 DEF CallT
  <1>8. ReadT'
    BY <1>1 DEF IInv, Types, ReadT, Still
  <1>9. FlagT'
    BY <1>1 DEF IInv, Types, FlagT
  <1>10. used # {} /\ Cardinality(used) + Len(call.rest) <= NSlots
    <2>1. 1 \in 1 .. Len(call.got) /\ call.got[1] # None
      BY <1>3, <1>4, CallFields DEF IInv, GotInv
    <2>2. call.got[1] \in used
      BY <1>2, <2>1 DEF IInv, GotInv
    <2>3. IsFiniteSet(used) /\ IsFiniteSet(Todo)
      <3>1. used \in SUBSET Range(lru) /\ IsFiniteSet(Range(lru))
        BY ListIs DEF IInv, GotInv
      <3>2. Todo \in SUBSET (1 .. Len(call.ids)) /\ Len(call.ids) \in Int /\ 1 \in Int
        BY <1>4, CallFields DEF Todo
      <3>3. IsFiniteSet(1 .. Len(call.ids))
        BY <3>2, FS_Interval
      <3> QED
        BY <3>1, <3>2, <3>3, FS_Subset
    <2>4. Cardinality(used) \in Nat /\ Cardinality(Todo) \in Nat /\ Len(call.rest) \in Nat
      BY <1>4, <2>3, CallFields, FS_CardinalityType
    <2>5. Cardinality(used) + Cardinality(Todo) + Len(call.rest) <= NSlots /\ NSlots \in Nat
      BY <1>2, ListIs DEF IInv, CountInv
    <2> QED
      BY <2>2, <2>4, <2>5
  <1>11. at' = "again" => /\ call'.rest # <<>> /\ used # {}
                          /\ Cardinality(used) + Len(call'.rest) <= NSlots
    BY <1>6, <1>10
  <1>12. at' \in {"idle", "again", "djoin", "freed"}
    BY <1>6
  <1> QED
    BY <1>1, <1>2, <1>7, <1>8, <1>9, <1>11, <1>12, RestKeeps

LEMMA FinishKeeps ==
  ASSUME IInv, NEW ok \in BOOLEAN, NEW D, FinishRing(ok, D) \/ FinishPool
  PROVE  IInv'
  <1>1. at = "begun"
    BY DEF FinishRing, FinishPool
  <1>2. CASE FinishRing(ok, D)
    <2>1. PICK rc : rc = IF ok /\ batch_rc = 0 /\ ~lost THEN 0 ELSE -1
      OBVIOUS
    <2>2. Return(rc) /\ ring' = {} /\ content' = Landed(ring, D) /\ Ends(ok, MainFaults)
      BY <1>2, <2>1 DEF FinishRing
    <2>3. content' \in [Slots -> Keys \cup {None}] /\ faults' \in 0 .. MaxFaults
      BY <2>2, LandedIs, EndsIs DEF IInv, Types, ReadT
    <2>4. ring' \subseteq Reads
      BY <2>2
    <2> QED
      BY <1>1, <2>2, <2>3, <2>4, ReturnKeeps
  <1>3. CASE FinishPool
    <2>1. PICK rc : rc = IF batch_rc = 0 /\ ~lost THEN 0 ELSE -1
      OBVIOUS
    <2>2. Return(rc) /\ ring' = ring /\ content' = content /\ faults' = faults
      BY <1>3, <2>1 DEF FinishPool
    <2>3. /\ content' \in [Slots -> Keys \cup {None}] /\ faults' \in 0 .. MaxFaults
          /\ ring' \subseteq Reads
      BY <2>2 DEF IInv, Types, ReadT, FlagT
    <2> QED
      BY <1>1, <2>2, <2>3, ReturnKeeps
  <1> QED
    BY <1>2, <1>3

LEMMA DestroyKeeps ==
  ASSUME IInv, destroy
  PROVE  IInv'
  <1>1. /\ Still /\ at = "idle" /\ at' = "djoin" /\ call' = call /\ lease' = {}
        /\ api_lock = "free" /\ api_lock' = api_lock /\ lost' = lost /\ warm' = warm
        /\ warm_stop' = TRUE /\ warm_over' = warm_over /\ faults' = faults
        /\ content' = content /\ jobs' = jobs /\ ring' = ring
        /\ pending' = pending /\ batch_rc' = batch_rc /\ via_ring' = via_ring
    BY DEF destroy, Goto, Still, mapVars, passVars, readVars, batchVars
  <1>2. ReadT'
    BY <1>1 DEF IInv, Types, ReadT, Still
  <1>3. FlagT'
    BY <1>1 DEF IInv, Types, FlagT
  <1>4. CallT'
    BY <1>1 DEF IInv, Types, CallT
  <1>5. ~Choosing
    BY <1>1 DEF Choosing
  <1> QED
    BY <1>1, <1>2, <1>3, <1>4, <1>5, RestKeeps

-----------------------------------------------------------------------------
(* The loops over the experts asked for. *)
LEMMA AdvanceHit ==
  ASSUME CallT, call.i \in 1 .. Len(call.ids), Len(call.got) = call.i - 1,
         NEW s \in Slots \cup {None}, NEW next, Advance("hits", next, s)
  PROVE  /\ call' \in Calls /\ call'.layer = call.layer /\ call'.ids = call.ids
         /\ call'.rest = call.rest
         /\ at' = IF call.i = Len(call.ids) THEN next ELSE "hits"
         /\ call'.i = IF call.i = Len(call.ids) THEN 1 ELSE call.i + 1
         /\ Len(call'.got) = call.i /\ call'.got[call.i] = s
         /\ \A j \in 1 .. (call.i - 1) : call'.got[j] = call.got[j]
         /\ call'.ready = IF s # None THEN call.ready \cup {call.i} ELSE call.ready
  <1>1. PICK i : i = IF call.i = Len(call.ids) THEN 1 ELSE call.i + 1
    OBVIOUS
  <1>2. PICK got : got = Append(call.got, s)
    OBVIOUS
  <1>3. PICK ready : ready = IF s # None THEN call.ready \cup {call.i} ELSE call.ready
    OBVIOUS
  <1>4. call.got \in Seq(Slots \cup {None}) /\ call.i \in Nat /\ call.ready \in SUBSET Nat
    BY CallFields
  <1>5. i \in Nat /\ ready \in SUBSET Nat
    BY <1>1, <1>3, <1>4
  <1>6. /\ got \in Seq(Slots \cup {None}) /\ Len(got) = call.i /\ got[call.i] = s
        /\ \A j \in 1 .. (call.i - 1) : got[j] = call.got[j]
    <2>1. /\ got \in Seq(Slots \cup {None}) /\ Len(got) = Len(call.got) + 1
          /\ got[Len(call.got) + 1] = s /\ \A j \in 1 .. Len(call.got) : got[j] = call.got[j]
      BY <1>2, <1>4, AppendProperties
    <2>2. Len(call.got) + 1 = call.i
      BY <1>4
    <2> QED
      BY <2>1, <2>2
  <1>7. call' = [call EXCEPT !.i = i, !.got = got, !.ready = ready]
    BY <1>1, <1>2, <1>3 DEF Advance
  <1>8. /\ call' \in Calls /\ call'.layer = call.layer /\ call'.ids = call.ids
        /\ call'.rest = call.rest /\ call'.i = i /\ call'.got = got /\ call'.ready = ready
    <2>1. PICK c : c = [call EXCEPT !.i = i, !.got = got, !.ready = ready]
      OBVIOUS
    <2>2. /\ c \in Calls /\ c.layer = call.layer /\ c.ids = call.ids
          /\ c.rest = call.rest /\ c.i = i /\ c.got = got /\ c.ready = ready
      <3>1. call \in Calls
        BY DEF CallT
      <3>2. c \in Calls
        BY <1>5, <1>6, <2>1, <3>1 DEF Calls
      <3> QED
        BY <2>1, <3>1, <3>2 DEF Calls
    <2> QED
      BY <1>7, <2>1, <2>2
  <1>9. at' = IF call.i = Len(call.ids) THEN next ELSE "hits"
    BY DEF Advance
  <1> QED
    BY <1>1, <1>3, <1>6, <1>8, <1>9

LEMMA AdvanceLoad ==
  ASSUME CallT, call.i \in 1 .. Len(call.ids), Len(call.got) = Len(call.ids),
         NEW s \in Slots \cup {None}, NEW next, Advance("loads", next, s)
  PROVE  /\ call' \in Calls /\ call'.layer = call.layer /\ call'.ids = call.ids
         /\ call'.rest = call.rest
         /\ at' = IF call.i = Len(call.ids) THEN next ELSE "loads"
         /\ call'.i = IF call.i = Len(call.ids) THEN 1 ELSE call.i + 1
         /\ Len(call'.got) = Len(call.got)
         /\ \A j \in 1 .. Len(call.got) : call'.got[j] = IF j = call.i THEN s ELSE call.got[j]
         /\ call'.ready = call.ready
  <1>1. PICK i : i = IF call.i = Len(call.ids) THEN 1 ELSE call.i + 1
    OBVIOUS
  <1>2. PICK got : got = [call.got EXCEPT ![call.i] = s]
    OBVIOUS
  <1>3. call.got \in Seq(Slots \cup {None}) /\ call.i \in Nat /\ call.ready \in SUBSET Nat
    BY CallFields
  <1>4. i \in Nat
    BY <1>1, <1>3
  <1>5. /\ got \in Seq(Slots \cup {None}) /\ Len(got) = Len(call.got)
        /\ \A j \in 1 .. Len(call.got) : got[j] = IF j = call.i THEN s ELSE call.got[j]
    BY <1>2, <1>3, ExceptSeq
  <1>6. call' = [call EXCEPT !.i = i, !.got = got, !.ready = call.ready]
    BY <1>1, <1>2 DEF Advance
  <1>7. /\ call' \in Calls /\ call'.layer = call.layer /\ call'.ids = call.ids
        /\ call'.rest = call.rest /\ call'.i = i /\ call'.got = got /\ call'.ready = call.ready
    <2>1. PICK ready \in SUBSET Nat : ready = call.ready
      BY <1>3
    <2>2. PICK c : c = [call EXCEPT !.i = i, !.got = got, !.ready = ready]
      OBVIOUS
    <2>3. /\ c \in Calls /\ c.layer = call.layer /\ c.ids = call.ids
          /\ c.rest = call.rest /\ c.i = i /\ c.got = got /\ c.ready = ready
      <3>1. call \in Calls
        BY DEF CallT
      <3>2. c \in Calls
        BY <1>4, <1>5, <2>2, <3>1 DEF Calls
      <3> QED
        BY <2>2, <3>1, <3>2 DEF Calls
    <2>4. call' = c
      BY <1>6, <2>1, <2>2
    <2> QED
      BY <2>1, <2>3, <2>4
  <1>8. at' = IF call.i = Len(call.ids) THEN next ELSE "loads"
    BY DEF Advance
  <1> QED
    BY <1>1, <1>5, <1>7, <1>8

(* A slot moved to an end of its lists. *)
LEMMA MovedKeeps ==
  ASSUME MapOK, NEW s \in Slots, key[s] # None, NEW front \in BOOLEAN,
         lru' = PutIn(lru, s, front),
         llist' = [llist EXCEPT ![key[s][1]] = PutIn(@, s, front)],
         where' = where, key' = key, filled' = filled
  PROVE  /\ MapOK' /\ NSlots' = NSlots /\ Range(lru)' = Range(lru)
         /\ \A x, y \in Range(lru) : front /\ y # s /\ (x = s \/ Before(lru, x, y)) => Before(lru', x, y)
         /\ \A x, y \in Range(lru) : ~front /\ x # s /\ Before(lru, x, y) => Before(lru', x, y)
  <1>1. s \in Range(lru) /\ key[s] \in Keys
    BY ListIs
  <1>2. PICK n \in Layers : n = key[s][1]
    BY <1>1 DEF Keys
  <1>3. PICK r : r = PutIn(lru, s, front)
    OBVIOUS
  <1>4. PICK z : z = PutIn(llist[n], s, front)
    OBVIOUS
  <1>5. /\ lru \in Seq(Slots) /\ Distinct(lru) /\ llist \in [Layers -> Seq(Slots)]
        /\ \A l \in Layers : /\ Distinct(llist[l])
                             /\ Range(llist[l]) = {t \in Slots : key[t] # None /\ key[t][1] = l}
    BY DEF MapOK, MapT, MapInv
  <1>6. llist[n] \in Seq(Slots) /\ Distinct(llist[n]) /\ s \in Range(llist[n])
    BY <1>2, <1>5
  <1>7. /\ r \in Seq(Slots) /\ Distinct(r) /\ Range(r) = Range(lru) \cup {s}
        /\ s \in Range(lru) => Len(r) = Len(lru)
        /\ \A x, y \in Range(lru) : front /\ y # s /\ (x = s \/ Before(lru, x, y)) => Before(r, x, y)
        /\ \A x, y \in Range(lru) : ~front /\ x # s /\ Before(lru, x, y) => Before(r, x, y)
    BY <1>3, <1>5, PutIs
  <1>8. z \in Seq(Slots) /\ Distinct(z) /\ Range(z) = Range(llist[n]) \cup {s}
    BY <1>4, <1>6, PutIs
  <1>9. lru' = r /\ llist' = [llist EXCEPT ![n] = z]
    BY <1>2, <1>3, <1>4
  <1>10. llist' \in [Layers -> Seq(Slots)] /\ \A l \in Layers : llist'[l] = IF l = n THEN z ELSE llist[l]
    BY <1>5, <1>8, <1>9
  <1>11. \A l \in Layers : Distinct(llist'[l]) /\ Range(llist'[l]) = Range(llist[l])
    BY <1>5, <1>6, <1>8, <1>10
  <1>12. NSlots' = NSlots /\ Range(lru') = Range(lru)
    BY <1>1, <1>7, <1>9 DEF NSlots
  <1>13. MapT'
    BY <1>7, <1>9, <1>10, <1>12 DEF MapOK, MapT
  <1>14. MapInv'
    BY <1>5, <1>7, <1>9, <1>11, <1>12 DEF MapOK, MapInv, Full
  <1> QED
    BY <1>7, <1>9, <1>12, <1>13, <1>14 DEF MapOK

(* Counting: the experts still to be found, and the slots stamped. *)
LEMMA Finite ==
  ASSUME IInv
  PROVE  /\ IsFiniteSet(used) /\ Cardinality(used) \in Nat
         /\ IsFiniteSet(Todo) /\ Cardinality(Todo) \in Nat
         /\ Len(call.rest) \in Nat /\ NSlots \in Nat
  <1>1. used \in SUBSET Range(lru) /\ IsFiniteSet(Range(lru)) /\ NSlots \in Nat
    BY ListIs DEF IInv, GotInv
  <1>2. Todo \in SUBSET (1 .. Len(call.ids)) /\ Len(call.ids) \in Int /\ 1 \in Int
    BY CallFields DEF Todo, IInv, Types
  <1>3. IsFiniteSet(1 .. Len(call.ids))
    BY <1>2, FS_Interval
  <1>4. IsFiniteSet(used) /\ IsFiniteSet(Todo)
    BY <1>1, <1>2, <1>3, FS_Subset
  <1> QED
    BY <1>1, <1>4, CallFields, FS_CardinalityType DEF IInv, Types

LEMMA CountMoves ==
  ASSUME IInv, Serving, NEW i, Todo' \in SUBSET Todo, NSlots' = NSlots, call'.rest = call.rest,
         \/ used' = used
         \/ (\E s : used' = used \cup {s}) /\ i \in Todo /\ i \notin Todo'
  PROVE  Cardinality(used') + Cardinality(Todo') + Len(call'.rest) <= NSlots'
  <1>1. /\ IsFiniteSet(used) /\ Cardinality(used) \in Nat
        /\ IsFiniteSet(Todo) /\ Cardinality(Todo) \in Nat
        /\ Len(call.rest) \in Nat /\ NSlots \in Nat
    BY Finite
  <1>2. Cardinality(used) + Cardinality(Todo) + Len(call.rest) <= NSlots
    BY DEF IInv, CountInv
  <1>3. /\ IsFiniteSet(Todo') /\ Cardinality(Todo') \in Nat
        /\ Cardinality(Todo') <= Cardinality(Todo)
    BY <1>1, FS_Subset, FS_CardinalityType
  <1>4. CASE used' = used
    BY <1>1, <1>2, <1>3, <1>4
  <1>5. CASE (\E s : used' = used \cup {s}) /\ i \in Todo /\ i \notin Todo'
    <2>1. PICK s : used' = used \cup {s}
      BY <1>5
    <2>2. Cardinality(used') <= Cardinality(used) + 1 /\ Cardinality(used') \in Nat
      <3>1. PICK U : U = used \cup {s}
        OBVIOUS
      <3>2. IsFiniteSet(U) /\ Cardinality(U) = IF s \in used THEN Cardinality(used) ELSE Cardinality(used) + 1
        BY <1>1, <3>1, FS_AddElement
      <3>3. Cardinality(U) <= Cardinality(used) + 1 /\ Cardinality(U) \in Nat
        BY <1>1, <3>2
      <3> QED
        BY <2>1, <3>1, <3>3
    <2>3. Cardinality(Todo') <= Cardinality(Todo) - 1
      <3>1. PICK T : T = Todo \ {i}
        OBVIOUS
      <3>2. IsFiniteSet(T) /\ Cardinality(T) = Cardinality(Todo) - 1
        BY <1>1, <1>5, <3>1, FS_RemoveElement
      <3>3. Todo' \in SUBSET T
        BY <1>5, <3>1
      <3> QED
        BY <3>2, <3>3, FS_Subset
    <2> QED
      BY <1>1, <1>2, <1>3, <2>2, <2>3
  <1> QED
    BY <1>4, <1>5

LEMMA HitKeeps ==
  ASSUME IInv, Hit
  PROVE  IInv'
  <1>1. /\ at = "hits" /\ where' = where /\ key' = key /\ filled' = filled
        /\ cur_layer' = cur_layer /\ pass_asked' = pass_asked /\ pass_larger' = pass_larger
        /\ content' = content /\ jobs' = jobs /\ ring' = ring /\ pf' = pf /\ pf_flag' = pf_flag
        /\ pending' = pending /\ batch_rc' = batch_rc /\ via_ring' = via_ring
        /\ api_lock' = api_lock /\ lost' = lost /\ lease' = lease /\ faults' = faults
        /\ warm' = warm /\ warm_stop' = warm_stop /\ warm_over' = warm_over
    BY DEF Hit, passVars, readVars, batchVars, warmVars
  <1>2. MapOK /\ Types /\ PassT /\ ReadT /\ FlagT /\ CallT /\ CallInv /\ FlagInv /\ SetInv /\ RoomInv
    BY DEF IInv, Types
  <1>3. Choosing /\ Serving
    BY <1>1 DEF Choosing, Serving
  <1>4. PICK i \in Nat : i = call.i
    BY <1>2, CallFields
  <1>5. /\ i \in 1 .. Len(call.ids) /\ Len(call.got) = i - 1 /\ Asked(i) \in Keys
        /\ Len(call.ids) \in Nat
    BY <1>1, <1>2, <1>3, <1>4, CallFields DEF CallInv
  <1>6. PICK s : s = where[Asked(i)]
    OBVIOUS
  <1>7. /\ s \in Slots \cup {None}
        /\ s # None => s \in Slots /\ key[s] = Asked(i) /\ key[s] # None
    BY <1>2, <1>5, <1>6, Constants DEF MapOK, MapT, MapInv
  <1>8. /\ IF s = None THEN UNCHANGED <<lru, llist, used>> ELSE touch(s)
        /\ Advance("hits", "settle", s)
    BY <1>4, <1>6 DEF Hit, AskedKey, Asked
  <1>9. /\ call' \in Calls /\ call'.layer = call.layer /\ call'.ids = call.ids
        /\ call'.rest = call.rest
        /\ at' = IF i = Len(call.ids) THEN "settle" ELSE "hits"
        /\ call'.i = IF i = Len(call.ids) THEN 1 ELSE i + 1
        /\ Len(call'.got) = i /\ call'.got[i] = s
        /\ \A j \in 1 .. (i - 1) : call'.got[j] = call.got[j]
    BY <1>2, <1>4, <1>5, <1>7, <1>8, AdvanceHit
  <1>10. /\ MapOK' /\ NSlots' = NSlots /\ Range(lru)' = Range(lru)
         /\ used' = IF s = None THEN used ELSE used \cup {s}
    <2>1. CASE s = None
      <3>1. lru' = lru /\ llist' = llist /\ used' = used
        BY <1>8, <2>1
      <3> QED
        BY <1>1, <1>2, <2>1, <3>1 DEF MapOK, MapT, MapInv, Full, NSlots
    <2>2. CASE s # None
      <3>1. /\ lru' = PutIn(lru, s, TRUE) /\ used' = used \cup {s}
            /\ llist' = [llist EXCEPT ![key[s][1]] = PutIn(@, s, TRUE)]
        BY <1>8, <2>2 DEF touch, PutIn
      <3> QED
        BY <1>1, <1>2, <1>7, <2>2, <3>1, MovedKeeps
    <2> QED
      BY <2>1, <2>2
  <1>11. used' \subseteq Range(lru)' /\ used' \subseteq Slots /\ used \subseteq used'
    <2>1. used \subseteq Range(lru) /\ Range(lru) \subseteq Slots
      BY <1>2, ListIs DEF IInv, GotInv
    <2>2. s # None => s \in Range(lru)
      BY <1>2, <1>7, ListIs
    <2> QED
      BY <1>10, <2>1, <2>2
  <1>12. PassT' /\ FlagT'
    BY <1>1, <1>2, <1>10 DEF PassT, FlagT
  <1>13. ReadT'
    BY <1>1, <1>2, <1>11 DEF ReadT
  <1>14. CallT'
    BY <1>1, <1>2, <1>9 DEF CallT
  <1>15. Choosing' /\ Serving' /\ at' \in {"hits", "settle"}
    BY <1>9 DEF Choosing, Serving
  <1>16. CallInv'
    <2>1. api_lock' # "free"
      BY <1>1, <1>2 DEF CallInv
    <2>2. /\ call'.i \in 1 .. Len(call'.ids)
          /\ at' = "hits" => Len(call'.got) = call'.i - 1
          /\ at' = "settle" => call'.i = 1
          /\ at' # "hits" => Len(call'.got) = Len(call'.ids) /\ Len(call'.ids) >= 1
      BY <1>5, <1>9
    <2> QED
      BY <1>15, <2>1, <2>2 DEF CallInv
  <1>17. /\ FlagInv' /\ SetInv'
         /\ \A p \in Parities : Ours(p)' = Ours(p) /\ (Lost(p)' <=> Lost(p))
    <2>1. \A p \in Parities : (Listing(p)' <=> Listing(p)) /\ LayerOf(p)' = LayerOf(p)
      BY <1>1, <1>15 DEF Listing, LayerOf
    <2> QED
      BY <1>1, <1>2, <1>10, <2>1, SetsStay
  <1>18. RoomInv'
    BY <1>1, <1>2, <1>3, <1>9, <1>10, <1>11, <1>15, <1>17, RoomStays
  <1>19. GotInv'
    <2>1. ASSUME NEW j \in 1 .. i
          PROVE  IF call'.got[j] = None THEN where'[Asked(j)'] \in used' \cup {None}
                 ELSE call'.got[j] \in used' /\ key'[call'.got[j]] = Asked(j)'
      <3>1. Asked(j)' = Asked(j)
        BY <1>9 DEF Asked
      <3>2. CASE j = i
        BY <1>1, <1>6, <1>7, <1>9, <1>10, <3>1, <3>2
      <3>3. CASE j # i
        <4>1. j \in 1 .. (i - 1) /\ j \in 1 .. Len(call.got)
          BY <1>4, <1>5, <3>3
        <4>2. IF call.got[j] = None THEN where[Asked(j)] \in used \cup {None}
              ELSE call.got[j] \in used /\ key[call.got[j]] = Asked(j)
          BY <1>3, <4>1 DEF IInv, GotInv
        <4>3. call'.got[j] = call.got[j]
          BY <1>9, <4>1
        <4> QED
          BY <1>1, <1>11, <3>1, <4>2, <4>3
      <3> QED
        BY <3>2, <3>3
    <2> QED
      BY <1>9, <1>11, <1>15, <2>1 DEF GotInv
  <1>20. AheadInv'
    BY <1>1, <1>3, <1>9, <1>15 DEF IInv, AheadInv, Listing
  <1>21. CountInv'
    <2>1. i \in Todo
      BY <1>1, <1>4, <1>5 DEF Todo
    <2>2. ASSUME NEW j \in Todo'
          PROVE  j \in Todo /\ (s # None => j # i)
      <3>1. /\ j \in 1 .. Len(call.ids)
            /\ \/ at' = "hits" /\ j >= call'.i
               \/ j \in 1 .. i /\ call'.got[j] = None
        BY <1>9, <2>2 DEF Todo
      <3>2. CASE at' = "hits" /\ j >= call'.i
        <4>1. j >= i + 1
          BY <1>9, <1>15, <3>2
        <4> QED
          BY <1>1, <1>4, <3>1, <4>1 DEF Todo
      <3>3. CASE j \in 1 .. i /\ call'.got[j] = None
        <4>1. j = i \/ j \in 1 .. (i - 1)
          BY <1>4, <3>3
        <4>2. CASE j = i
          BY <1>9, <2>1, <3>3, <4>2
        <4>3. CASE j # i
          <5>1. j \in 1 .. Len(call.got) /\ call.got[j] = None
            BY <1>5, <1>9, <3>3, <4>1, <4>3
          <5> QED
            BY <3>1, <4>3, <5>1 DEF Todo
        <4> QED
          BY <4>2, <4>3
      <3> QED
        BY <3>1, <3>2, <3>3
    <2>3. \/ used' = used
          \/ (\E t : used' = used \cup {t}) /\ i \in Todo /\ i \notin Todo'
      BY <1>10, <2>1, <2>2
    <2>4. Todo' \in SUBSET Todo
      BY <2>2
    <2>5. Cardinality(used') + Cardinality(Todo') + Len(call'.rest) <= NSlots'
      BY <1>3, <1>9, <1>10, <2>3, <2>4, CountMoves
    <2> QED
      BY <1>15, <2>5 DEF CountInv
  <1> QED
    BY <1>10, <1>12, <1>13, <1>14, <1>16, <1>17, <1>18, <1>19, <1>20, <1>21 DEF IInv, Types

LEMMA EmptySlot ==
  ASSUME MapOK, filled < NSlots
  PROVE  \E e \in Range(lru) : e \in Slots /\ key[e] = None
  <1>1. /\ NSlots = Cardinality(Range(lru)) /\ Range(lru) \subseteq Slots /\ IsFiniteSet(Range(lru))
        /\ NSlots \in Nat
    BY ListIs
  <1>2. filled = Cardinality(Full) /\ Full \in SUBSET Range(lru)
    BY DEF MapOK, MapInv
  <1>3. Full # Range(lru)
    BY <1>1, <1>2
  <1> QED
    BY <1>1, <1>2, <1>3 DEF Full

(* The last of the experts found, a set that failed is another layer's. *)
LEMMA RoomFound ==
  ASSUME IInv, at = "loads", NEW g \in used, key[g] # None, key[g][1] = call.layer
  PROVE  (\A p \in Parities : Lost(p) => Outside(p)) /\ ~(filled < NSlots /\ AllHeld)
  <1>1. MapOK /\ ReadT /\ FlagInv /\ SetInv /\ RoomInv /\ g \in Range(lru) /\ g \in Slots
    BY ListIs DEF IInv, Types, GotInv
  <1>2. \A p \in Parities : Lost(p) => g \notin Ours(p)
    BY <1>1, OwnedIs DEF SetInv
  <1>3. ASSUME filled < NSlots, AllHeld
        PROVE  FALSE
    <2>1. PICK e \in Range(lru) : e \in Slots /\ key[e] = None
      BY <1>1, <1>3, EmptySlot
    <2>2. e \in pf_flag /\ g \in pf_flag
      BY <1>1, <1>3, <2>1 DEF AllHeld
    <2>3. PICK p \in Parities : e \in Ours(p)
      BY <1>1, <2>1, <2>2 DEF FlagInv
    <2>4. PICK q \in Parities : g \in Ours(q)
      BY <1>1, <2>2 DEF FlagInv
    <2>5. PICK r \in pf[p].reads : r[1] = e
      BY <1>1, <2>3, OwnedIs
    <2>6. PICK t \in pf[q].reads : t[1] = g
      BY <1>1, <2>4, OwnedIs
    <2>7. Lost(p)
      BY <2>1, <2>5 DEF Lost
    <2>8. pf[p].layer = call.layer
      BY <1>1, <1>3, <2>7 DEF RoomInv
    <2>9. r[2][1] = pf[p].layer /\ r[2][1] % 2 = p
      BY <1>1, <2>5 DEF SetInv, LayerOf, Listing
    <2>10. key[g] = t[2] /\ t[2][1] % 2 = q
      BY <1>1, <2>6 DEF SetInv
    <2>11. p = q
      BY <2>8, <2>9, <2>10
    <2> QED
      BY <1>2, <2>4, <2>7, <2>11
  <1> QED
    BY <1>2, <1>3 DEF Outside

LEMMA FoundKeeps ==
  ASSUME IInv, Found
  PROVE  IInv'
  <1>1. /\ Still /\ at = "loads" /\ content' = content /\ jobs' = jobs /\ ring' = ring
        /\ pending' = pending /\ batch_rc' = batch_rc /\ via_ring' = via_ring
        /\ api_lock' = api_lock /\ lost' = lost /\ lease' = lease /\ faults' = faults
        /\ warm' = warm /\ warm_stop' = warm_stop /\ warm_over' = warm_over
    BY DEF Found, Still, mapVars, passVars, readVars, batchVars, warmVars
  <1>2. MapOK /\ Types /\ PassT /\ ReadT /\ FlagT /\ CallT /\ CallInv /\ FlagInv /\ SetInv /\ RoomInv
    BY DEF IInv, Types
  <1>3. Choosing /\ Serving
    BY <1>1 DEF Choosing, Serving
  <1>4. PICK i \in Nat : i = call.i
    BY <1>2, CallFields
  <1>5. /\ i \in 1 .. Len(call.ids) /\ Len(call.got) = Len(call.ids) /\ Asked(i) \in Keys
        /\ Len(call.ids) \in Nat /\ call.got[i] \in Slots \cup {None}
    BY <1>1, <1>2, <1>3, <1>4, CallFields DEF CallInv
  <1>6. PICK s : s = IF call.got[i] # None THEN call.got[i] ELSE where[Asked(i)]
    OBVIOUS
  <1>7. Advance("loads", "start", s) /\ s # None
    BY <1>4, <1>6 DEF Found, AskedKey, Asked
  <1>8. s \in Slots /\ s \in used /\ key[s] = Asked(i)
    <2>1. IF call.got[i] = None THEN where[Asked(i)] \in used \cup {None}
          ELSE call.got[i] \in used /\ key[call.got[i]] = Asked(i)
      BY <1>3, <1>5 DEF IInv, GotInv
    <2>2. where[Asked(i)] \in Slots => key[where[Asked(i)]] = Asked(i)
      BY <1>2, <1>5 DEF MapOK, MapInv
    <2>3. where[Asked(i)] \in Slots \cup {None}
      BY <1>2, <1>5 DEF MapOK, MapT
    <2> QED
      BY <1>5, <1>6, <1>7, <2>1, <2>2, <2>3
  <1>9. /\ call' \in Calls /\ call'.layer = call.layer /\ call'.ids = call.ids
        /\ call'.rest = call.rest
        /\ at' = IF i = Len(call.ids) THEN "start" ELSE "loads"
        /\ call'.i = IF i = Len(call.ids) THEN 1 ELSE i + 1
        /\ Len(call'.got) = Len(call.got)
        /\ \A j \in 1 .. Len(call.got) : call'.got[j] = IF j = i THEN s ELSE call.got[j]
    BY <1>2, <1>4, <1>5, <1>7, <1>8, AdvanceLoad
  <1>10. MapOK' /\ PassT' /\ NSlots' = NSlots
    BY <1>1, <1>2, MapStays
  <1>11. FlagT'
    BY <1>1, <1>2 DEF FlagT
  <1>12. ReadT'
    BY <1>1, <1>2 DEF ReadT, Still
  <1>13. CallT'
    BY <1>1, <1>2, <1>9 DEF CallT
  <1>14. Serving' /\ at' \in {"loads", "start"} /\ (at' = "loads" => Choosing') /\ (at' = "start" => ~Choosing')
    BY <1>9 DEF Choosing, Serving
  <1>15. CallInv'
    <2>1. api_lock' # "free"
      BY <1>1, <1>2 DEF CallInv
    <2>2. /\ at' = "loads" => call'.i \in 1 .. Len(call'.ids)
          /\ Len(call'.got) = Len(call'.ids) /\ Len(call'.ids) >= 1
      BY <1>5, <1>9
    <2> QED
      BY <1>14, <2>1, <2>2 DEF CallInv, Choosing
  <1>16. /\ FlagInv' /\ SetInv'
         /\ \A p \in Parities : Ours(p)' = Ours(p) /\ (Lost(p)' <=> Lost(p))
    <2>1. \A p \in Parities : (Listing(p)' <=> Listing(p)) /\ LayerOf(p)' = LayerOf(p)
      BY <1>1, <1>14 DEF Listing, LayerOf, Still
    <2> QED
      BY <1>1, <1>2, <2>1, SetsStay DEF Still
  <1>17. RoomInv'
    <2>1. CASE at' = "loads"
      BY <1>1, <1>2, <1>3, <1>9, <1>10, <1>14, <1>16, <2>1, RoomStays DEF Still
    <2>2. CASE at' = "start"
      <3>1. (\A p \in Parities : Lost(p) => Outside(p)) /\ ~(filled < NSlots /\ AllHeld)
        <4>1. key[s] # None
          BY <1>5, <1>8, Constants
        <4>2. key[s][1] = call.layer
          BY <1>8 DEF Asked
        <4> QED
          BY <1>1, <1>8, <4>1, <4>2, RoomFound
      <3>2. (\A p \in Parities : Lost(p)' => Outside(p)')
        BY <1>1, <1>16, <3>1 DEF Outside, Still
      <3>3. ~(filled' < NSlots' /\ AllHeld')
        BY <1>1, <1>10, <3>1 DEF AllHeld, Still
      <3> QED
        BY <3>2, <3>3 DEF RoomInv
    <2> QED
      BY <1>14, <2>1, <2>2
  <1>18. GotInv'
    <2>1. ASSUME NEW j \in 1 .. Len(call.got)
          PROVE  IF call'.got[j] = None THEN where'[Asked(j)'] \in used' \cup {None}
                 ELSE call'.got[j] \in used' /\ key'[call'.got[j]] = Asked(j)'
      <3>1. Asked(j)' = Asked(j)
        BY <1>9 DEF Asked
      <3>2. IF call.got[j] = None THEN where[Asked(j)] \in used \cup {None}
            ELSE call.got[j] \in used /\ key[call.got[j]] = Asked(j)
        BY <1>3 DEF IInv, GotInv
      <3> QED
        BY <1>1, <1>7, <1>8, <1>9, <3>1, <3>2 DEF Still
    <2>2. \A j \in 1 .. (i - 1) : call.got[j] # None
      BY <1>1, <1>4 DEF IInv, GotInv
    <2>3. ASSUME NEW j \in 1 .. i
          PROVE  call'.got[j] # None
      <3>1. j \in 1 .. Len(call.got) /\ (j = i \/ j \in 1 .. (i - 1))
        BY <1>4, <1>5
      <3>2. call'.got[j] = IF j = i THEN s ELSE call.got[j]
        BY <1>9, <3>1
      <3> QED
        BY <1>7, <2>2, <3>1, <3>2
    <2>4. /\ at' = "loads" => \A j \in 1 .. (call'.i - 1) : call'.got[j] # None
          /\ at' = "start" => \A j \in 1 .. Len(call'.got) : call'.got[j] # None
      BY <1>4, <1>5, <1>9, <2>3
    <2>5. used' \subseteq Range(lru)'
      BY <1>1 DEF IInv, GotInv, Still
    <2> QED
      BY <1>9, <1>14, <2>1, <2>4, <2>5 DEF GotInv
  <1>19. AheadInv'
    BY <1>1, <1>3, <1>9, <1>14 DEF IInv, AheadInv, Listing, Still
  <1>20. CountInv'
    <2>1. Todo' \in SUBSET Todo
      BY <1>5, <1>7, <1>9, <1>14 DEF Todo
    <2>2. used' = used
      BY <1>1 DEF Still
    <2>3. Cardinality(used') + Cardinality(Todo') + Len(call'.rest) <= NSlots'
      BY <1>3, <1>9, <1>10, <2>1, <2>2, CountMoves
    <2> QED
      BY <1>14, <2>3 DEF CountInv
  <1> QED
    BY <1>10, <1>11, <1>12, <1>13, <1>15, <1>16, <1>17, <1>18, <1>19, <1>20 DEF IInv, Types

LEMMA MissFinds ==
  ASSUME IInv, Miss, NEW v, v = victim(used)
  PROVE  v # None
  <1>1. /\ at \in {"loads", "reload"} /\ call.got[call.i] = None
        /\ at = "loads" => victim(used) # None
    BY DEF Miss
  <1>2. MapOK /\ PassT /\ CallT /\ CallInv
    BY DEF IInv, Types
  <1>3. Choosing /\ Serving
    BY <1>1 DEF Choosing, Serving
  <1>4. PICK i \in Nat : i = call.i
    BY <1>2, CallFields
  <1>5. /\ i \in 1 .. Len(call.ids) /\ Len(call.got) = Len(call.ids) /\ Len(call.ids) \in Nat
        /\ call.got[i] = None
    BY <1>1, <1>2, <1>3, <1>4, CallFields DEF CallInv
  <1>6. i \in Todo
    BY <1>5 DEF Todo
  <1>7. CASE at = "loads"
    BY <1>1, <1>7
  <1>8. CASE at = "reload"
    <2>1. pf_flag = {}
      BY <1>8 DEF IInv, AheadInv
    <2>2. Cardinality(used) + Cardinality(Todo) + Len(call.rest) <= NSlots
      BY <1>3 DEF IInv, CountInv
    <2>3. Cardinality(Todo) # 0
      BY <1>6, Finite, FS_EmptySet
    <2>4. Cardinality(used) < NSlots
      BY <2>2, <2>3, Finite
    <2>5. NSlots = Cardinality(Range(lru)) /\ used \subseteq Range(lru)
      BY <1>2, ListIs DEF IInv, GotInv
    <2>6. Cardinality(used) # Cardinality(Range(lru))
      BY <2>4, <2>5, Finite
    <2>7. used # Range(lru)
      BY <2>6
    <2>8. PICK x \in Range(lru) : x \notin used
      BY <2>5, <2>7
    <2> QED
      BY <1>2, <2>1, <2>8, VictimIs
  <1> QED
    BY <1>1, <1>7, <1>8

LEMMA MissKeeps ==
  ASSUME IInv, Miss
  PROVE  IInv'
  <1>1. /\ at \in {"loads", "reload"} /\ call.got[call.i] = None /\ where[AskedKey] = None
        /\ at = "loads" => victim(used) # None
        /\ cur_layer' = cur_layer /\ pass_asked' = pass_asked /\ pass_larger' = pass_larger
        /\ content' = content /\ ring' = ring /\ pf' = pf /\ pf_flag' = pf_flag
        /\ pending' = pending /\ batch_rc' = batch_rc /\ via_ring' = via_ring
        /\ api_lock' = api_lock /\ lost' = lost /\ lease' = lease /\ faults' = faults
        /\ warm' = warm /\ warm_stop' = warm_stop /\ warm_over' = warm_over
    BY DEF Miss, passVars, batchVars, warmVars
  <1>2. MapOK /\ Types /\ PassT /\ ReadT /\ FlagT /\ CallT /\ CallInv /\ FlagInv /\ SetInv /\ RoomInv
    BY DEF IInv, Types
  <1>3. Choosing /\ Serving
    BY <1>1 DEF Choosing, Serving
  <1>4. PICK i \in Nat : i = call.i
    BY <1>2, CallFields
  <1>5. /\ i \in 1 .. Len(call.ids) /\ Len(call.got) = Len(call.ids) /\ Len(call.ids) \in Nat
        /\ call.got[i] = None
    BY <1>1, <1>2, <1>3, <1>4, CallFields DEF CallInv
  <1>6. PICK k \in Keys : k = Asked(i) /\ k = AskedKey
    BY <1>2, <1>4, <1>5, CallFields DEF Asked, AskedKey
  <1>7. PICK v : v = victim(used)
    OBVIOUS
  <1>8. i \in Todo
    BY <1>5 DEF Todo
  <1>9. v # None
    BY <1>7, MissFinds
  <1>10. v \in Range(lru) /\ v \in Slots /\ v \notin used /\ v \notin pf_flag
    BY <1>2, <1>7, <1>9, VictimIs
  <1>11. /\ Assign(v, k, TRUE) /\ used' = used \cup {v} /\ jobs' = jobs \cup {<<v, k>>}
         /\ Advance("loads", "start", v)
    BY <1>6, <1>7, <1>9 DEF Miss, load
  <1>12. MapOK' /\ Given1(v, k) /\ filled' >= filled
    BY <1>1, <1>2, <1>6, <1>10, <1>11, AssignKeeps
  <1>13. /\ NSlots' = NSlots /\ Range(lru)' = Range(lru) /\ key'[v] = k
         /\ \A s \in Slots : s # v => key'[s] = key[s]
         /\ \A j \in Keys : where'[j] \in {where[j], None, v}
    BY <1>2, <1>10, <1>12 DEF Given1, MapOK, MapT
  <1>14. /\ call' \in Calls /\ call'.layer = call.layer /\ call'.ids = call.ids
         /\ call'.rest = call.rest
         /\ at' = IF i = Len(call.ids) THEN "start" ELSE "loads"
         /\ call'.i = IF i = Len(call.ids) THEN 1 ELSE i + 1
         /\ Len(call'.got) = Len(call.got)
         /\ \A j \in 1 .. Len(call.got) : call'.got[j] = IF j = i THEN v ELSE call.got[j]
    BY <1>2, <1>4, <1>5, <1>10, <1>11, AdvanceLoad
  <1>15. PassT' /\ FlagT'
    BY <1>1, <1>2, <1>13 DEF PassT, FlagT
  <1>16. ReadT'
    BY <1>1, <1>2, <1>10, <1>11 DEF ReadT, Reads
  <1>17. CallT'
    BY <1>1, <1>2, <1>14 DEF CallT
  <1>18. Serving' /\ at' \in {"loads", "start"} /\ (at' = "loads" => Choosing') /\ (at' = "start" => ~Choosing')
    BY <1>14 DEF Choosing, Serving
  <1>19. CallInv'
    <2>1. api_lock' # "free"
      BY <1>1, <1>2 DEF CallInv
    <2>2. /\ at' = "loads" => call'.i \in 1 .. Len(call'.ids)
          /\ Len(call'.got) = Len(call'.ids) /\ Len(call'.ids) >= 1
      BY <1>5, <1>14
    <2> QED
      BY <1>18, <2>1, <2>2 DEF CallInv, Choosing
  <1>20. /\ FlagInv' /\ SetInv'
         /\ \A p \in Parities : Ours(p)' = Ours(p) /\ (Lost(p)' <=> Lost(p))
    <2>1. \A p \in Parities : (Listing(p)' <=> Listing(p)) /\ LayerOf(p)' = LayerOf(p)
      BY <1>1, <1>18 DEF Listing, LayerOf
    <2>2. \A s \in pf_flag : key'[s] = key[s]
      BY <1>2, <1>10, <1>13 DEF ReadT
    <2> QED
      BY <1>1, <1>2, <1>13, <2>1, <2>2, SetsStay
  <1>21. RoomInv'
    <2>1. \A p \in Parities : v \notin Ours(p)
      BY <1>2, <1>10 DEF FlagInv
    <2>2. \A p \in Parities : Outside(p)'
      BY <1>11, <1>20, <2>1 DEF Outside
    <2>3. ~AllHeld'
      BY <1>1, <1>10, <1>13 DEF AllHeld
    <2> QED
      BY <2>2, <2>3 DEF RoomInv
  <1>22. GotInv'
    <2>1. ASSUME NEW j \in 1 .. Len(call.got)
          PROVE  IF call'.got[j] = None THEN where'[Asked(j)'] \in used' \cup {None}
                 ELSE call'.got[j] \in used' /\ key'[call'.got[j]] = Asked(j)'
      <3>1. Asked(j)' = Asked(j) /\ Asked(j) \in Keys
        BY <1>2, <1>5, <1>14, CallFields DEF Asked
      <3>2. IF call.got[j] = None THEN where[Asked(j)] \in used \cup {None}
            ELSE call.got[j] \in used /\ key[call.got[j]] = Asked(j)
        BY <1>3 DEF IInv, GotInv
      <3>3. CASE j = i
        BY <1>6, <1>9, <1>11, <1>13, <1>14, <3>1, <3>3
      <3>4. CASE j # i /\ call.got[j] = None
        BY <1>11, <1>13, <1>14, <3>1, <3>2, <3>4
      <3>5. CASE j # i /\ call.got[j] # None
        <4>1. call.got[j] \in Slots /\ call.got[j] # v
          BY <1>2, <1>10, <3>2, <3>5, CallFields
        <4> QED
          BY <1>11, <1>13, <1>14, <3>1, <3>2, <3>5, <4>1
      <3> QED
        BY <3>3, <3>4, <3>5
    <2>2. \A j \in 1 .. (i - 1) : call.got[j] # None
      BY <1>1, <1>4 DEF IInv, GotInv
    <2>3. ASSUME NEW j \in 1 .. i
          PROVE  call'.got[j] # None
      <3>1. j \in 1 .. Len(call.got) /\ (j = i \/ j \in 1 .. (i - 1))
        BY <1>4, <1>5
      <3>2. call'.got[j] = IF j = i THEN v ELSE call.got[j]
        BY <1>14, <3>1
      <3> QED
        BY <1>9, <2>2, <3>1, <3>2
    <2>4. /\ at' = "loads" => \A j \in 1 .. (call'.i - 1) : call'.got[j] # None
          /\ at' = "start" => \A j \in 1 .. Len(call'.got) : call'.got[j] # None
      BY <1>4, <1>5, <1>14, <2>3
    <2>5. used' \subseteq Range(lru)'
      BY <1>10, <1>11, <1>13 DEF IInv, GotInv
    <2> QED
      BY <1>14, <1>18, <2>1, <2>4, <2>5 DEF GotInv
  <1>23. AheadInv'
    BY <1>1, <1>3, <1>14, <1>18 DEF IInv, AheadInv, Listing
  <1>24. CountInv'
    <2>1. Todo' \in SUBSET Todo /\ i \notin Todo'
      BY <1>5, <1>9, <1>14, <1>18 DEF Todo
    <2>2. \/ used' = used
          \/ (\E t : used' = used \cup {t}) /\ i \in Todo /\ i \notin Todo'
      BY <1>8, <1>11, <2>1
    <2>3. Cardinality(used') + Cardinality(Todo') + Len(call'.rest) <= NSlots'
      BY <1>3, <1>13, <1>14, <2>1, <2>2, CountMoves
    <2> QED
      BY <1>18, <2>3 DEF CountInv
  <1> QED
    BY <1>12, <1>15, <1>16, <1>17, <1>19, <1>20, <1>21, <1>22, <1>23, <1>24 DEF IInv, Types

-----------------------------------------------------------------------------
(* Reads ahead settled. *)
LEMMA GotStays ==
  ASSUME IInv, Serving, Forgotten, used' = used, call' = call, NEW j \in 1 .. Len(call.got)
  PROVE  IF call'.got[j] = None THEN where'[Asked(j)'] \in used' \cup {None}
         ELSE call'.got[j] \in used' /\ key'[call'.got[j]] = Asked(j)'
  <1>1. Asked(j)' = Asked(j)
    BY DEF Asked
  <1>2. CallT /\ ReadT /\ SetInv /\ CallInv
    BY DEF IInv, Types
  <1>3. Asked(j) \in Keys /\ call.got[j] \in Slots \cup {None}
    <2>1. j \in 1 .. Len(call.ids)
      <3>1. CASE at = "hits"
        <4>1. call.i \in 1 .. Len(call.ids) /\ Len(call.got) = call.i - 1
          BY <1>2, <3>1 DEF CallInv, Choosing
        <4> QED
          BY <1>2, <4>1, CallFields
      <3>2. CASE at # "hits"
        BY <1>2, <3>2 DEF CallInv
      <3> QED
        BY <3>1, <3>2
    <2> QED
      BY <1>2, <2>1, CallFields
  <1>4. IF call.got[j] = None THEN where[Asked(j)] \in used \cup {None}
        ELSE call.got[j] \in used /\ key[call.got[j]] = Asked(j)
    BY DEF IInv, GotInv
  <1>5. CASE call.got[j] = None
    BY <1>1, <1>3, <1>4, <1>5 DEF Forgotten
  <1>6. CASE call.got[j] # None
    <2>1. PICK g \in Slots : g = call.got[j]
      BY <1>3, <1>6
    <2>2. ASSUME NEW p \in Parities, pf[p].inflight, g \in Ours(p)
          PROVE  FALSE
      <3>1. PICK r \in pf[p].reads : r[1] = g
        BY <1>2, <2>2, OwnedIs
      <3>2. key[g] = Asked(j) /\ key[g] # None
        BY <1>3, <1>4, <1>6, <2>1, Constants
      <3>3. r[2] = Asked(j)
        BY <1>2, <3>1, <3>2 DEF SetInv
      <3>4. r[2][1] = pf[p].layer
        BY <1>2, <3>1 DEF SetInv, LayerOf, Listing, Serving, Choosing
      <3>5. pf[p].layer > call.layer
        BY <2>2 DEF IInv, AheadInv
      <3>6. pf[p].layer \in Nat /\ call.layer \in Nat
        BY <1>2, OwnedIs, CallFields, Constants
      <3> QED
        BY <3>3, <3>4, <3>5, <3>6 DEF Asked
    <2>3. key'[g] = key[g]
      BY <2>1, <2>2 DEF Forgotten
    <2> QED
      BY <1>1, <1>4, <1>6, <2>1, <2>3
  <1> QED
    BY <1>5, <1>6

LEMMA SettlesKeep ==
  ASSUME IInv, NEW F, SettlePast(F) \/ SettleAll(F)
  PROVE  IInv'
  <1>1. PICK P \in SUBSET Parities :
          /\ pf_settle(P, F)
          /\ \/ /\ at = "settle" /\ at' = "loads"
                /\ P = {p \in Parities : /\ pf[p].reads # {}
                                         /\ pf[p].layer \notin call.layer .. (call.layer + 1)}
             \/ at = "loads" /\ at' = "reload" /\ P = Parities
    <2>1. CASE SettlePast(F)
      BY <2>1 DEF SettlePast, Goto
    <2>2. CASE SettleAll(F)
      BY <2>2 DEF SettleAll, Goto
    <2> QED
      BY <2>1, <2>2
  <1>2. /\ call' = call /\ lru' = lru /\ used' = used
        /\ cur_layer' = cur_layer /\ pass_asked' = pass_asked /\ pass_larger' = pass_larger
        /\ jobs' = jobs /\ ring' = ring
        /\ pending' = pending /\ batch_rc' = batch_rc /\ via_ring' = via_ring
        /\ api_lock' = api_lock /\ lost' = lost /\ lease' = lease
        /\ warm' = warm /\ warm_stop' = warm_stop /\ warm_over' = warm_over
    BY DEF SettlePast, SettleAll, Goto, passVars, batchVars, warmVars
  <1>3. MapOK /\ Types /\ PassT /\ ReadT /\ FlagT /\ CallT /\ CallInv /\ FlagInv /\ SetInv /\ RoomInv
    BY DEF IInv, Types
  <1>4. Choosing /\ Serving /\ Choosing' /\ Serving' /\ Todo' = Todo
    BY <1>1, <1>2 DEF Choosing, Serving, Todo
  <1>5. \A q \in Parities : ~Listing(q) /\ ~Listing(q)'
    BY <1>1 DEF Listing
  <1>6. /\ MapOK' /\ content' \in [Slots -> Keys \cup {None}] /\ faults' \in 0 .. MaxFaults
        /\ pf' \in [Parities -> Sets] /\ pf_flag' \subseteq Slots
        /\ FlagInv' /\ SetInv' /\ Forgotten
        /\ \A q \in Parities : pf'[q] = IF q \in P THEN NoSet ELSE pf[q]
        /\ \A q \in Parities : Lost(q)' => q \notin P /\ Lost(q)
        /\ \A s \in Slots : s \in pf_flag' <=> s \in pf_flag /\ \A p \in P : s \notin Ours(p)
        /\ Range(lru) \subseteq pf_flag' => /\ AllHeld /\ filled' = filled
                                            /\ \A p \in P : pf[p].reads = {}
    BY <1>1, <1>2, <1>3, <1>5, SettleKeeps
  <1>7. PassT' /\ FlagT' /\ NSlots' = NSlots
    BY <1>2, <1>3, <1>6 DEF PassT, FlagT, NSlots
  <1>8. ReadT'
    BY <1>2, <1>3, <1>6 DEF ReadT
  <1>9. CallT'
    BY <1>1, <1>2, <1>3 DEF CallT
  <1>10. CallInv'
    BY <1>1, <1>2, <1>3, <1>4 DEF CallInv
  <1>11. GotInv'
    <2>1. \A j \in 1 .. Len(call'.got) :
            IF call'.got[j] = None THEN where'[Asked(j)'] \in used' \cup {None}
            ELSE call'.got[j] \in used' /\ key'[call'.got[j]] = Asked(j)'
      BY <1>2, <1>4, <1>6, GotStays
    <2>2. \A j \in 1 .. (call.i - 1) : call.got[j] # None
      BY <1>1, <1>3 DEF IInv, GotInv, CallInv
    <2>3. used' \subseteq Range(lru)'
      BY <1>2 DEF IInv, GotInv
    <2> QED
      BY <1>1, <1>2, <1>4, <2>1, <2>2, <2>3 DEF GotInv
  <1>12. AheadInv'
    <2>1. \A p \in Parities : pf'[p].inflight => pf'[p].layer > call'.layer
      BY <1>2, <1>4, <1>6 DEF IInv, AheadInv, NoSet
    <2>2. at' = "reload" => pf_flag' = {}
      BY <1>1, <1>3, <1>6 DEF FlagInv
    <2> QED
      BY <1>4, <1>5, <2>1, <2>2 DEF AheadInv
  <1>13. CountInv'
    BY <1>1, <1>2, <1>4, <1>7 DEF IInv, CountInv
  <1>14. RoomInv'
    <2>1. ASSUME filled' < NSlots', AllHeld', NEW p \in Parities, Lost(p)'
          PROVE  pf'[p].layer <= call'.layer /\ pf'[p].layer = call'.layer
      <3>1. AllHeld /\ filled' = filled /\ \A q \in P : pf[q].reads = {}
        BY <1>2, <1>6, <2>1 DEF AllHeld
      <3>2. p \notin P /\ Lost(p) /\ pf'[p] = pf[p]
        BY <1>6, <2>1
      <3>3. pf[p].reads # {}
        BY <3>2 DEF Lost
      <3>4. P # Parities
        BY <3>2
      <3>5. pf[p].layer \in call.layer .. (call.layer + 1)
        BY <1>1, <3>2, <3>3, <3>4
      <3>6. pf[p].layer <= call.layer
        BY <1>3, <1>7, <2>1, <3>1, <3>2 DEF RoomInv
      <3>7. pf[p].layer \in Nat /\ call.layer \in Nat
        BY <1>3, OwnedIs, CallFields, Constants
      <3> QED
        BY <1>2, <3>2, <3>5, <3>6, <3>7
    <2> QED
      BY <1>4, <2>1 DEF RoomInv
  <1> QED
    BY <1>6, <1>7, <1>8, <1>9, <1>10, <1>11, <1>12, <1>13, <1>14 DEF IInv, Types

LEMMA SettleOut ==
  ASSUME IInv, NEW P \in SUBSET Parities, NEW F, pf_settle(P, F), lru' = lru, used' = used,
         at \in {"idle", "pfdrop"}, at' \in {"idle", "pfloop"},
         \A q \in Parities : Listing(q)' => q \in P
  PROVE  /\ MapOK' /\ content' \in [Slots -> Keys \cup {None}] /\ faults' \in 0 .. MaxFaults
         /\ pf' \in [Parities -> Sets] /\ pf_flag' \subseteq Slots /\ NSlots' = NSlots
         /\ FlagInv' /\ SetInv' /\ GotInv' /\ AheadInv' /\ CountInv' /\ RoomInv'
  <1>1. MapOK /\ Types /\ PassT /\ ReadT /\ FlagT /\ CallT /\ CallInv /\ FlagInv /\ SetInv /\ RoomInv
    BY DEF IInv, Types
  <1>2. ~Choosing /\ ~Choosing' /\ ~Serving' /\ NSlots' = NSlots
    BY DEF Choosing, Serving, NSlots
  <1>3. /\ MapOK' /\ content' \in [Slots -> Keys \cup {None}] /\ faults' \in 0 .. MaxFaults
        /\ pf' \in [Parities -> Sets] /\ pf_flag' \subseteq Slots
        /\ FlagInv' /\ SetInv'
        /\ \A q \in Parities : pf'[q] = IF q \in P THEN NoSet ELSE pf[q]
        /\ \A q \in Parities : Lost(q)' => q \notin P /\ Lost(q)
        /\ Range(lru) \subseteq pf_flag' => AllHeld /\ filled' = filled
    BY <1>1, SettleKeeps
  <1>4. GotInv'
    BY <1>2 DEF IInv, GotInv
  <1>5. \A q \in Parities : Ours(q)' = IF q \in P THEN {} ELSE Ours(q)
    BY <1>3 DEF Ours, SlotsOf, NoSet
  <1>6. AheadInv'
    BY <1>2, <1>5 DEF AheadInv
  <1>7. CountInv'
    BY <1>2 DEF CountInv
  <1>8. RoomInv'
    <2>1. ASSUME NEW p \in Parities, Lost(p)'
          PROVE  Outside(p)'
      <3>1. p \notin P /\ Outside(p)
        BY <1>1, <1>2, <1>3, <2>1 DEF RoomInv
      <3> QED
        BY <1>5, <3>1 DEF Outside
    <2>2. ~(filled' < NSlots' /\ AllHeld')
      BY <1>1, <1>2, <1>3 DEF RoomInv, AllHeld
    <2> QED
      BY <2>1, <2>2 DEF RoomInv
  <1> QED
    BY <1>2, <1>3, <1>4, <1>6, <1>7, <1>8

LEMMA ParityIs ==
  \A l \in Layers : l % 2 \in Parities
  BY Constants DEF Parities

LEMMA PrefetchKeeps ==
  ASSUME IInv, NEW l \in Layers, NEW ids \in Asks(NSlots), NEW F, prefetch(l, ids, F)
  PROVE  IInv'
  <1>1. /\ at = "idle" /\ at' = "pfloop" /\ api_lock' = "caller" /\ pf_settle({l % 2}, F)
        /\ call' = [NoCall EXCEPT !.layer = l, !.ids = ids, !.many = call.many]
        /\ lease' \in {lease, {}} /\ lru' = lru /\ used' = used
        /\ cur_layer' = cur_layer /\ pass_asked' = pass_asked /\ pass_larger' = pass_larger
        /\ jobs' = jobs /\ ring' = ring
        /\ pending' = pending /\ batch_rc' = batch_rc /\ via_ring' = via_ring /\ lost' = lost
        /\ warm' = warm /\ warm_stop' = warm_stop /\ warm_over' = warm_over
    BY DEF prefetch, passVars, batchVars, warmVars
  <1>2. MapOK /\ Types /\ PassT /\ ReadT /\ FlagT /\ CallT /\ CallInv
    BY DEF IInv, Types
  <1>3. ids \in Seq(Experts)
    BY <1>2, Constants DEF MapOK, MapT
  <1>4. call' \in Calls /\ call'.layer = l /\ call'.i = 1
    <2>1. PICK c : c = [NoCall EXCEPT !.layer = l, !.ids = ids, !.many = call.many]
      OBVIOUS
    <2>2. call.many \in BOOLEAN
      BY <1>2, CallFields
    <2>3. c \in Calls
      BY <1>3, <2>1, <2>2, NoCallIs DEF Calls
    <2>4. c.layer = l /\ c.i = NoCall.i /\ c.rest = NoCall.rest
      BY <2>1, NoCallIs DEF Calls
    <2> QED
      BY <1>1, <2>1, <2>3, <2>4, NoCallIs
  <1>5. PICK P : P = {l % 2}
    OBVIOUS
  <1>6. P \in SUBSET Parities /\ \A q \in Parities : Listing(q)' => q \in P
    BY <1>4, <1>5, ParityIs DEF Listing, Ahead
  <1>7. /\ MapOK' /\ content' \in [Slots -> Keys \cup {None}] /\ faults' \in 0 .. MaxFaults
        /\ pf' \in [Parities -> Sets] /\ pf_flag' \subseteq Slots /\ NSlots' = NSlots
        /\ FlagInv' /\ SetInv' /\ GotInv' /\ AheadInv' /\ CountInv' /\ RoomInv'
    <2>1. pf_settle(P, F)
      BY <1>1, <1>5
    <2> QED
      BY <1>1, <1>6, <2>1, SettleOut
  <1>8. PassT' /\ FlagT'
    BY <1>1, <1>2, <1>7 DEF PassT, FlagT
  <1>9. ReadT'
    BY <1>1, <1>2, <1>7 DEF ReadT
  <1>10. CallT'
    BY <1>1, <1>2, <1>4 DEF CallT
  <1>11. CallInv'
    BY <1>1, <1>4 DEF CallInv, Choosing, Serving
  <1> QED
    BY <1>7, <1>8, <1>9, <1>10, <1>11 DEF IInv, Types

LEMMA PfDropKeeps ==
  ASSUME IInv, NEW F, PfDrop(F)
  PROVE  IInv'
  <1>1. /\ at = "pfdrop" /\ api_lock' = "free" /\ pf_settle({Ahead}, F) /\ Done("idle")
        /\ lease' = lease /\ lru' = lru /\ used' = used
        /\ cur_layer' = cur_layer /\ pass_asked' = pass_asked /\ pass_larger' = pass_larger
        /\ jobs' = jobs /\ ring' = ring
        /\ pending' = pending /\ batch_rc' = batch_rc /\ via_ring' = via_ring /\ lost' = lost
        /\ warm' = warm /\ warm_stop' = warm_stop /\ warm_over' = warm_over
    BY DEF PfDrop, passVars, batchVars, warmVars
  <1>2. MapOK /\ Types /\ PassT /\ ReadT /\ FlagT /\ CallT /\ CallInv
    BY DEF IInv, Types
  <1>3. at' = "idle" /\ call' \in Calls
    BY <1>1, <1>2, DoneIs
  <1>4. PICK P : P = {Ahead}
    OBVIOUS
  <1>5. P \in SUBSET Parities /\ \A q \in Parities : Listing(q)' => q \in P
    BY <1>2, <1>3, <1>4, ParityIs, CallFields DEF Listing, Ahead
  <1>6. /\ MapOK' /\ content' \in [Slots -> Keys \cup {None}] /\ faults' \in 0 .. MaxFaults
        /\ pf' \in [Parities -> Sets] /\ pf_flag' \subseteq Slots /\ NSlots' = NSlots
        /\ FlagInv' /\ SetInv' /\ GotInv' /\ AheadInv' /\ CountInv' /\ RoomInv'
    <2>1. pf_settle(P, F)
      BY <1>1, <1>4
    <2> QED
      BY <1>1, <1>3, <1>5, <2>1, SettleOut
  <1>7. PassT' /\ FlagT'
    BY <1>1, <1>2, <1>6 DEF PassT, FlagT
  <1>8. ReadT'
    BY <1>1, <1>2, <1>6 DEF ReadT
  <1>9. CallT'
    BY <1>1, <1>2, <1>3 DEF CallT
  <1>10. CallInv'
    BY <1>1, <1>3 DEF CallInv, Choosing, Serving
  <1> QED
    BY <1>6, <1>7, <1>8, <1>9, <1>10 DEF IInv, Types

-----------------------------------------------------------------------------
(* Reads ahead listed and submitted. *)
LEMMA PfSkipKeeps ==
  ASSUME IInv, PfSkip
  PROVE  IInv'
  <1>1. /\ Still /\ at = "pfloop" /\ at' = "pfloop" /\ call' = [call EXCEPT !.i = @ + 1]
        /\ content' = content /\ jobs' = jobs /\ ring' = ring
        /\ pending' = pending /\ batch_rc' = batch_rc /\ via_ring' = via_ring
        /\ api_lock' = api_lock /\ lost' = lost /\ lease' = lease /\ faults' = faults
        /\ warm' = warm /\ warm_stop' = warm_stop /\ warm_over' = warm_over
    BY DEF PfSkip, Still, mapVars, passVars, readVars, batchVars, warmVars
  <1>2. MapOK /\ Types /\ PassT /\ ReadT /\ FlagT /\ CallT /\ CallInv
    BY DEF IInv, Types
  <1>3. call' \in Calls /\ call'.layer = call.layer /\ call'.i = call.i + 1
    <2>1. call \in Calls /\ call.i \in Nat
      BY <1>2, CallFields DEF CallT
    <2>2. PICK n \in Nat : n = call.i + 1
      BY <2>1
    <2>3. PICK c : c = [call EXCEPT !.i = n]
      OBVIOUS
    <2>4. c \in Calls /\ c.layer = call.layer /\ c.i = n
      BY <2>1, <2>3 DEF Calls
    <2>5. call' = c
      BY <1>1, <2>2, <2>3
    <2> QED
      BY <2>2, <2>4, <2>5
  <1>4. /\ MapOK' /\ PassT' /\ NSlots' = NSlots /\ FlagInv' /\ SetInv' /\ RoomInv'
        /\ \A p \in Parities : Ours(p)' = Ours(p) /\ (Lost(p)' <=> Lost(p))
    BY <1>1, <1>3, StillKeeps
  <1>5. ~Choosing' /\ ~Serving'
    BY <1>1 DEF Choosing, Serving
  <1>6. FlagT'
    BY <1>1, <1>2 DEF FlagT
  <1>7. ReadT'
    BY <1>1, <1>2 DEF ReadT, Still
  <1>8. CallT'
    BY <1>1, <1>2, <1>3 DEF CallT
  <1>9. CallInv'
    <2>1. api_lock' # "free" /\ call.i \in Nat
      BY <1>1, <1>2, CallFields DEF CallInv
    <2> QED
      BY <1>1, <1>3, <1>5, <2>1 DEF CallInv
  <1>10. GotInv'
    BY <1>1, <1>5 DEF IInv, GotInv, Still
  <1>11. AheadInv'
    BY <1>1, <1>3, <1>4, <1>5 DEF IInv, AheadInv, Listing, Ahead, Still
  <1>12. CountInv'
    BY <1>1, <1>5 DEF CountInv
  <1> QED
    BY <1>4, <1>6, <1>7, <1>8, <1>9, <1>10, <1>11, <1>12 DEF IInv, Types

LEMMA PfTakeKeeps ==
  ASSUME IInv, PfTake
  PROVE  IInv'
  <1>1. /\ at = "pfloop" /\ PfGoOn /\ where[AskedKey] = None /\ at' = "pfloop"
        /\ call' = [call EXCEPT !.i = @ + 1] /\ used' = used
        /\ cur_layer' = cur_layer /\ pass_asked' = pass_asked /\ pass_larger' = pass_larger
        /\ content' = content /\ jobs' = jobs /\ ring' = ring
        /\ pending' = pending /\ batch_rc' = batch_rc /\ via_ring' = via_ring
        /\ api_lock' = api_lock /\ lost' = lost /\ lease' = lease /\ faults' = faults
        /\ warm' = warm /\ warm_stop' = warm_stop /\ warm_over' = warm_over
    BY DEF PfTake, passVars, batchVars, warmVars
  <1>2. /\ MapOK /\ Types /\ PassT /\ ReadT /\ FlagT /\ CallT /\ CallInv /\ FlagInv /\ SetInv
        /\ RoomInv /\ AheadInv
    BY DEF IInv, Types
  <1>3. call' \in Calls /\ call'.layer = call.layer /\ call'.i = call.i + 1
    <2>1. call \in Calls /\ call.i \in Nat
      BY <1>2, CallFields DEF CallT
    <2>2. PICK n \in Nat : n = call.i + 1
      BY <2>1
    <2>3. PICK c : c = [call EXCEPT !.i = n]
      OBVIOUS
    <2>4. c \in Calls /\ c.layer = call.layer /\ c.i = n
      BY <2>1, <2>3 DEF Calls
    <2>5. call' = c
      BY <1>1, <2>2, <2>3
    <2> QED
      BY <2>2, <2>4, <2>5
  <1>4. PICK v : v = victim(used)
    OBVIOUS
  <1>5. PICK k \in Keys : k = AskedKey /\ k[1] = call.layer
    <2>1. call.i \in 1 .. Len(call.ids)
      BY <1>1, <1>2, CallFields DEF PfGoOn, CallInv
    <2>2. Asked(call.i) \in Keys
      BY <1>2, <2>1, CallFields
    <2> QED
      BY <2>2 DEF Asked, AskedKey
  <1>6. PICK a \in Parities : a = Ahead /\ a = call.layer % 2
    BY <1>2, CallFields, ParityIs DEF Ahead
  <1>7. /\ v # None /\ Assign(v, k, FALSE) /\ pf_flag' = pf_flag \cup {v}
        /\ pf' = [pf EXCEPT ![a].reads = @ \cup {<<v, k>>}]
    BY <1>4, <1>5, <1>6 DEF PfTake
  <1>8. v \in Range(lru) /\ v \in Slots /\ v \notin used /\ v \notin pf_flag
    BY <1>2, <1>4, <1>7, VictimIs
  <1>9. MapOK' /\ Given1(v, k) /\ filled' >= filled
    BY <1>1, <1>2, <1>5, <1>7, <1>8, AssignKeeps
  <1>10. /\ NSlots' = NSlots /\ Range(lru)' = Range(lru) /\ key'[v] = k /\ k # None
         /\ \A s \in Slots : s # v => key'[s] = key[s]
    BY <1>2, <1>5, <1>8, <1>9, Constants DEF Given1, MapOK, MapT
  <1>11. PICK job \in Reads : job = <<v, k>> /\ job[1] = v /\ job[2] = k
    <2>1. <<v, k>> \in Reads
      BY <1>5, <1>8 DEF Reads
    <2>2. PICK job \in Reads : job = <<v, k>>
      BY <2>1
    <2>3. job[1] = v /\ job[2] = k
      BY <2>2
    <2> QED
      BY <2>2, <2>3
  <1>12. /\ pf' \in [Parities -> Sets]
         /\ \A q \in Parities : /\ pf'[q].reads = IF q = a THEN pf[q].reads \cup {job} ELSE pf[q].reads
                                /\ pf'[q].layer = pf[q].layer
                                /\ pf'[q].inflight <=> pf[q].inflight
    <2>1. pf \in [Parities -> Sets] /\ pf[a] \in Sets
      BY <1>2 DEF ReadT
    <2>2. PICK z : z = [pf[a] EXCEPT !.reads = @ \cup {job}]
      OBVIOUS
    <2>3. z \in Sets
      BY <2>1, <2>2 DEF Sets
    <2>4. z.reads = pf[a].reads \cup {job} /\ z.layer = pf[a].layer
      BY <2>1, <2>2 DEF Sets
    <2>5. z.inflight <=> pf[a].inflight
      BY <2>1, <2>2 DEF Sets
    <2>6. pf' = [pf EXCEPT ![a] = z]
      BY <1>7, <1>11, <2>2
    <2>7. pf' \in [Parities -> Sets] /\ \A q \in Parities : pf'[q] = IF q = a THEN z ELSE pf[q]
      BY <2>1, <2>3, <2>6
    <2> QED
      BY <2>4, <2>5, <2>7
  <1>13. ~Choosing /\ ~Choosing' /\ ~Serving'
    BY <1>1 DEF Choosing, Serving
  <1>14. PassT' /\ FlagT'
    BY <1>1, <1>2, <1>10 DEF PassT, FlagT
  <1>15. ReadT'
    BY <1>1, <1>2, <1>7, <1>8, <1>12 DEF ReadT
  <1>16. CallT'
    BY <1>1, <1>2, <1>3 DEF CallT
  <1>17. CallInv'
    <2>1. api_lock' # "free" /\ call.i \in Nat
      BY <1>1, <1>2, CallFields DEF CallInv
    <2> QED
      BY <1>1, <1>3, <1>13, <2>1 DEF CallInv
  <1>18. \A q \in Parities : Ours(q)' = IF q = a THEN Ours(q) \cup {v} ELSE Ours(q)
    BY <1>11, <1>12 DEF Ours, SlotsOf
  <1>19. \A q \in Parities : v \notin Ours(q)
    BY <1>2, <1>8 DEF FlagInv
  <1>20. FlagInv'
    <2>1. \A s \in Slots : s \in pf_flag' <=> \E p \in Parities : s \in Ours(p)'
      BY <1>2, <1>7, <1>18 DEF FlagInv
    <2>2. pf_flag' \subseteq Range(lru)'
      BY <1>2, <1>7, <1>8, <1>10 DEF FlagInv
    <2>3. \A p, q \in Parities : p # q => Ours(p)' \cap Ours(q)' = {}
      BY <1>2, <1>18, <1>19 DEF FlagInv
    <2> QED
      BY <2>1, <2>2, <2>3 DEF FlagInv
  <1>21. \A q \in Parities : \A r \in pf[q].reads : key'[r[1]] = key[r[1]] /\ r[1] \in Slots
    BY <1>2, <1>10, <1>19, OwnedIs
  <1>22. \A q \in Parities : Lost(q)' => Lost(q) /\ q # a
    <2>1. ~Lost(a)
      BY <1>1, <1>2, <1>6 DEF SetInv, Listing
    <2>2. ASSUME NEW q \in Parities, Lost(q)'
          PROVE  Lost(q)
      <3>1. PICK r \in pf'[q].reads : key'[r[1]] = None
        BY <2>2 DEF Lost
      <3>2. r \in pf[q].reads
        BY <1>10, <1>11, <1>12, <3>1
      <3> QED
        BY <1>21, <3>1, <3>2 DEF Lost
    <2> QED
      BY <2>1, <2>2
  <1>23. \A q \in Parities : /\ Listing(q) <=> q = a
                             /\ Listing(q)' <=> q = a
                             /\ LayerOf(q)' = LayerOf(q) /\ (q = a => LayerOf(q) = call.layer)
    BY <1>1, <1>3, <1>6, <1>12 DEF Listing, LayerOf, Ahead
  <1>24. SetInv'
    <2> SUFFICES ASSUME NEW p \in Parities
                 PROVE  /\ \A r \in pf'[p].reads :
                             /\ r[2][1] = LayerOf(p)' /\ r[2][1] % 2 = p
                             /\ key'[r[1]] \in {None, r[2]}
                             /\ Lost(p)' => key'[r[1]] = None
                        /\ pf'[p].inflight \/ Listing(p)' => ~Lost(p)'
                        /\ pf'[p].inflight => pf'[p].reads # {}
      BY DEF SetInv
    <2>1. /\ \A r \in pf[p].reads :
               /\ r[2][1] = LayerOf(p) /\ r[2][1] % 2 = p
               /\ key[r[1]] \in {None, r[2]}
               /\ Lost(p) => key[r[1]] = None
          /\ pf[p].inflight \/ Listing(p) => ~Lost(p)
          /\ pf[p].inflight => pf[p].reads # {}
      BY <1>2 DEF SetInv
    <2>2. ASSUME NEW r \in pf'[p].reads
          PROVE  /\ r[2][1] = LayerOf(p)' /\ r[2][1] % 2 = p
                 /\ key'[r[1]] \in {None, r[2]}
                 /\ Lost(p)' => key'[r[1]] = None
      <3>1. CASE r \in pf[p].reads
        BY <1>21, <1>22, <1>23, <2>1, <3>1
      <3>2. CASE r \notin pf[p].reads
        <4>1. p = a /\ r = job
          BY <1>12, <2>2, <3>2
        <4> QED
          BY <1>5, <1>6, <1>10, <1>11, <1>22, <1>23, <4>1
      <3> QED
        BY <3>1, <3>2
    <2>3. pf'[p].inflight \/ Listing(p)' => ~Lost(p)'
      BY <1>12, <1>22, <1>23, <2>1
    <2>4. pf'[p].inflight => pf'[p].reads # {}
      BY <1>12, <2>1
    <2> QED
      BY <2>2, <2>3, <2>4
  <1>25. GotInv'
    BY <1>1, <1>10, <1>13 DEF IInv, GotInv
  <1>26. AheadInv'
    <2>1. Ours(a) \cap used = {}
      BY <1>2, <1>23 DEF AheadInv
    <2> QED
      BY <1>1, <1>8, <1>13, <1>18, <1>23, <2>1 DEF AheadInv
  <1>27. CountInv'
    BY <1>1, <1>13 DEF CountInv
  <1>28. RoomInv'
    <2>1. \A p \in Parities : Lost(p)' => Outside(p)'
      BY <1>1, <1>2, <1>13, <1>18, <1>22 DEF RoomInv, Outside
    <2>2. ASSUME filled' < NSlots', AllHeld'
          PROVE  FALSE
      <3>1. filled < NSlots /\ filled' \in Nat /\ filled \in Nat /\ NSlots \in Nat
        <4>1. filled' \in Nat /\ filled \in Nat /\ NSlots \in Nat
          BY <1>2, <1>9, <1>10, ListIs DEF MapOK, MapT
        <4> QED
          BY <1>9, <1>10, <2>2, <4>1
      <3>2. \E e \in Range(lru) : e \in Slots /\ key'[e] = None
        <4>1. CASE key[v] = None
          <5>1. Full' = Full \cup {v} /\ v \notin Full
            BY <1>8, <1>10, <4>1 DEF Full
          <5>2. filled = Cardinality(Full) /\ filled' = Cardinality(Full') /\ IsFiniteSet(Full)
            BY <1>2, <1>9, ListIs DEF MapOK, MapInv
          <5>3. Full' # Range(lru)
            BY <1>2, <1>10, <2>2, <3>1, <5>2, ListIs
          <5>4. Full' \subseteq Range(lru)
            BY <1>9, <1>10 DEF MapOK, MapInv
          <5> QED
            BY <1>2, <5>3, <5>4, ListIs DEF Full
        <4>2. CASE key[v] # None
          <5>1. PICK e \in Range(lru) : e \in Slots /\ key[e] = None
            BY <1>2, <3>1, EmptySlot
          <5> QED
            BY <1>10, <4>2, <5>1
        <4> QED
          BY <4>1, <4>2
      <3>3. PICK e \in Range(lru) : e \in Slots /\ key'[e] = None
        BY <3>2
      <3>4. e \in pf_flag'
        BY <1>10, <2>2, <3>3 DEF AllHeld
      <3>5. e # v
        BY <1>10, <3>3
      <3>6. PICK q \in Parities : e \in Ours(q)
        BY <1>2, <1>7, <3>3, <3>4, <3>5 DEF FlagInv
      <3>7. Lost(q)
        BY <1>2, <1>10, <3>3, <3>5, <3>6, OwnedIs DEF Lost
      <3>8. q # a
        BY <1>2, <1>23, <3>7 DEF SetInv
      <3>9. PICK s \in used : s \notin Ours(q)
        BY <1>2, <1>13, <3>7 DEF RoomInv, Outside
      <3>10. s \in Range(lru) /\ s \in Slots
        BY <1>2, ListIs DEF IInv, GotInv
      <3>11. s \in pf_flag /\ s # v
        BY <1>7, <1>8, <1>10, <2>2, <3>10 DEF AllHeld
      <3>12. PICK p \in Parities : s \in Ours(p)
        BY <1>2, <3>10, <3>11 DEF FlagInv
      <3>13. p = a
        BY <3>8, <3>9, <3>12 DEF Parities
      <3> QED
        BY <1>2, <1>23, <3>12, <3>13 DEF AheadInv
    <2> QED
      BY <2>1, <2>2 DEF RoomInv
  <1> QED
    BY <1>9, <1>14, <1>15, <1>16, <1>17, <1>20, <1>24, <1>25, <1>26, <1>27, <1>28 DEF IInv, Types

LEMMA SubmittedKeeps ==
  ASSUME IInv, at = "pfloop", at' \in {"idle", "pfdrop"},
         where' = where, key' = key, lru' = lru, llist' = llist, filled' = filled,
         used' = used, pf_flag' = pf_flag,
         pf' \in [Parities -> Sets],
         \A q \in Parities : /\ pf'[q].reads = pf[q].reads
                             /\ q # Ahead => pf'[q].layer = pf[q].layer
                             /\ q = Ahead => pf[q].reads = {} \/ pf'[q].layer = call.layer
                             /\ pf'[q].inflight => /\ pf[q].reads # {}
                                                   /\ pf[q].inflight \/ q = Ahead
  PROVE  /\ MapOK' /\ NSlots' = NSlots /\ FlagInv' /\ SetInv' /\ GotInv' /\ AheadInv'
         /\ CountInv' /\ RoomInv'
  <1>1. /\ MapOK /\ Types /\ PassT /\ ReadT /\ FlagT /\ CallT /\ CallInv /\ FlagInv /\ SetInv
        /\ RoomInv /\ AheadInv
    BY DEF IInv, Types
  <1>2. MapOK' /\ NSlots' = NSlots
    BY <1>1 DEF MapOK, MapT, MapInv, Full, NSlots
  <1>3. ~Choosing /\ ~Choosing' /\ ~Serving' /\ \A p \in Parities : ~Listing(p)'
    BY DEF Choosing, Serving, Listing
  <1>4. \A p \in Parities : Ours(p)' = Ours(p) /\ (Lost(p)' <=> Lost(p))
    BY DEF Ours, SlotsOf, Lost
  <1>5. FlagInv'
    BY <1>1, <1>4 DEF FlagInv
  <1>6. SetInv'
    <2> SUFFICES ASSUME NEW p \in Parities
                 PROVE  /\ \A r \in pf'[p].reads :
                             /\ r[2][1] = LayerOf(p)' /\ r[2][1] % 2 = p
                             /\ key'[r[1]] \in {None, r[2]}
                             /\ Lost(p)' => key'[r[1]] = None
                        /\ pf'[p].inflight \/ Listing(p)' => ~Lost(p)'
                        /\ pf'[p].inflight => pf'[p].reads # {}
      BY DEF SetInv
    <2>1. /\ \A r \in pf[p].reads :
               /\ r[2][1] = LayerOf(p) /\ r[2][1] % 2 = p
               /\ key[r[1]] \in {None, r[2]}
               /\ Lost(p) => key[r[1]] = None
          /\ pf[p].inflight \/ Listing(p) => ~Lost(p)
      BY <1>1 DEF SetInv
    <2>2. pf[p].reads # {} => LayerOf(p)' = LayerOf(p)
      BY <1>3 DEF LayerOf, Listing
    <2>3. pf'[p].inflight => ~Lost(p)
      BY <2>1 DEF Listing
    <2> QED
      BY <1>3, <1>4, <2>1, <2>2, <2>3
  <1>7. GotInv'
    BY <1>1, <1>3 DEF IInv, GotInv
  <1>8. AheadInv'
    BY <1>3 DEF AheadInv
  <1>9. CountInv'
    BY <1>3 DEF CountInv
  <1>10. RoomInv'
    <2>1. \A p \in Parities : Lost(p)' => Outside(p)'
      BY <1>1, <1>3, <1>4 DEF RoomInv, Outside
    <2>2. ~(filled' < NSlots' /\ AllHeld')
      BY <1>1, <1>2, <1>3 DEF RoomInv, AllHeld
    <2> QED
      BY <2>1, <2>2 DEF RoomInv
  <1> QED
    BY <1>2, <1>5, <1>6, <1>7, <1>8, <1>9, <1>10

LEMMA PfSubmitsKeep ==
  ASSUME IInv, PfSubmit \/ PfSubmitFails
  PROVE  IInv'
  <1>1. /\ at = "pfloop" /\ where' = where /\ key' = key /\ lru' = lru /\ llist' = llist
        /\ filled' = filled /\ used' = used /\ pf_flag' = pf_flag
        /\ cur_layer' = cur_layer /\ pass_asked' = pass_asked /\ pass_larger' = pass_larger
        /\ content' = content /\ jobs' = jobs /\ ring' = ring
        /\ pending' = pending /\ batch_rc' = batch_rc /\ via_ring' = via_ring
        /\ lost' = lost /\ lease' = lease
        /\ warm' = warm /\ warm_stop' = warm_stop /\ warm_over' = warm_over
    BY DEF PfSubmit, PfSubmitFails, mapVars, passVars, batchVars, warmVars
  <1>2. MapOK /\ Types /\ PassT /\ ReadT /\ FlagT /\ CallT /\ CallInv /\ SetInv
    BY DEF IInv, Types
  <1>3. /\ \/ at' = "idle" /\ api_lock' = "free"
           \/ at' = "pfdrop" /\ api_lock' = api_lock
        /\ call' \in Calls /\ faults' \in 0 .. MaxFaults
    <2>1. CASE PfSubmit
      <3>1. Done("idle") /\ api_lock' = "free" /\ faults' = faults
        BY <2>1 DEF PfSubmit
      <3> QED
        BY <1>2, <3>1, DoneIs DEF FlagT
    <2>2. CASE PfSubmitFails
      <3>1. Ends(FALSE, PfFaults) /\ Goto("pfdrop") /\ api_lock' = api_lock
        BY <2>2 DEF PfSubmitFails
      <3> QED
        BY <1>2, <3>1, EndsIs DEF Goto, CallT
    <2> QED
      BY <2>1, <2>2
  <1>4. PICK a \in Parities : a = Ahead
    BY <1>2, CallFields, ParityIs DEF Ahead
  <1>5. call.layer \in Layers
    BY <1>2, CallFields
  <1>6. \/ pf[a].reads = {} /\ pf' = pf
        \/ /\ pf[a].reads # {}
           /\ pf' = [pf EXCEPT ![a].layer = call.layer, ![a].inflight = TRUE]
    BY <1>4 DEF PfSubmit, PfSubmitFails
  <1>7. /\ pf' \in [Parities -> Sets]
        /\ \A q \in Parities : /\ pf'[q].reads = pf[q].reads
                               /\ q # Ahead => pf'[q].layer = pf[q].layer
                               /\ q = Ahead => pf[q].reads = {} \/ pf'[q].layer = call.layer
                               /\ pf'[q].inflight => /\ pf[q].reads # {}
                                                     /\ pf[q].inflight \/ q = Ahead
    <2>1. pf \in [Parities -> Sets] /\ pf[a] \in Sets
      BY <1>2 DEF ReadT
    <2>2. \A q \in Parities : pf[q].inflight => pf[q].reads # {}
      BY <1>2 DEF SetInv
    <2>3. CASE pf[a].reads = {} /\ pf' = pf
      BY <1>4, <2>1, <2>2, <2>3
    <2>4. CASE pf[a].reads # {} /\ pf' = [pf EXCEPT ![a].layer = call.layer, ![a].inflight = TRUE]
      <3>1. PICK z : z = [pf[a] EXCEPT !.layer = call.layer, !.inflight = TRUE]
        OBVIOUS
      <3>2. z \in Sets
        BY <1>5, <2>1, <3>1 DEF Sets
      <3>3. z.reads = pf[a].reads /\ z.layer = call.layer
        BY <2>1, <3>1 DEF Sets
      <3>4. pf' = [pf EXCEPT ![a] = z]
        BY <2>1, <2>4, <3>1
      <3>5. pf' \in [Parities -> Sets] /\ \A q \in Parities : pf'[q] = IF q = a THEN z ELSE pf[q]
        BY <2>1, <3>2, <3>4
      <3> QED
        BY <1>4, <2>2, <2>4, <3>3, <3>5
    <2> QED
      BY <1>6, <2>3, <2>4
  <1>8. /\ MapOK' /\ NSlots' = NSlots /\ FlagInv' /\ SetInv' /\ GotInv' /\ AheadInv'
        /\ CountInv' /\ RoomInv'
    BY <1>1, <1>3, <1>7, SubmittedKeeps
  <1>9. PassT' /\ FlagT'
    BY <1>1, <1>2, <1>3, <1>8 DEF PassT, FlagT
  <1>10. ReadT'
    BY <1>1, <1>2, <1>7 DEF ReadT
  <1>11. CallT'
    BY <1>1, <1>2, <1>3 DEF CallT
  <1>12. CallInv'
    BY <1>1, <1>2, <1>3 DEF CallInv, Choosing, Serving
  <1> QED
    BY <1>8, <1>9, <1>10, <1>11, <1>12 DEF IInv, Types

-----------------------------------------------------------------------------
(* A slot demoted, and the cache destroyed. *)
LEMMA DemoteKeeps ==
  ASSUME IInv, NEW k \in Keys, demote(k)
  PROVE  IInv'
  <1>1. /\ at = "idle" /\ api_lock = "free" /\ where[k] # None
        /\ lru' = Back(lru, where[k]) /\ llist' = [llist EXCEPT ![k[1]] = Back(@, where[k])]
        /\ lease' = lease \ {<<where[k], k>>}
        /\ where' = where /\ key' = key /\ filled' = filled /\ used' = used
        /\ cur_layer' = cur_layer /\ pass_asked' = pass_asked /\ pass_larger' = pass_larger
        /\ content' = content /\ jobs' = jobs /\ ring' = ring /\ pf' = pf /\ pf_flag' = pf_flag
        /\ pending' = pending /\ batch_rc' = batch_rc /\ via_ring' = via_ring
        /\ api_lock' = api_lock /\ at' = at /\ call' = call /\ lost' = lost /\ faults' = faults
        /\ warm' = warm /\ warm_stop' = warm_stop /\ warm_over' = warm_over
    BY DEF demote, passVars, readVars, batchVars, warmVars
  <1>2. /\ MapOK /\ Types /\ PassT /\ ReadT /\ FlagT /\ CallT /\ CallInv /\ FlagInv /\ SetInv
        /\ RoomInv
    BY DEF IInv, Types
  <1>3. PICK s \in Slots : s = where[k] /\ key[s] = k /\ key[s] # None
    BY <1>1, <1>2, Constants DEF MapOK, MapT, MapInv
  <1>4. /\ lru' = PutIn(lru, s, FALSE)
        /\ llist' = [llist EXCEPT ![key[s][1]] = PutIn(@, s, FALSE)]
    BY <1>1, <1>3 DEF PutIn
  <1>5. MapOK' /\ NSlots' = NSlots /\ Range(lru)' = Range(lru)
    BY <1>1, <1>2, <1>3, <1>4, MovedKeeps
  <1>6. ~Choosing /\ ~Choosing' /\ ~Serving'
    BY <1>1 DEF Choosing, Serving
  <1>7. /\ FlagInv' /\ SetInv'
        /\ \A p \in Parities : Ours(p)' = Ours(p) /\ (Lost(p)' <=> Lost(p))
    <2>1. \A p \in Parities : (Listing(p)' <=> Listing(p)) /\ LayerOf(p)' = LayerOf(p)
      BY <1>1 DEF Listing, LayerOf
    <2> QED
      BY <1>1, <1>2, <1>5, <2>1, SetsStay
  <1>8. RoomInv'
    BY <1>1, <1>2, <1>5, <1>6, <1>7, RoomStays
  <1>9. PassT' /\ FlagT'
    BY <1>1, <1>2, <1>5 DEF PassT, FlagT
  <1>10. ReadT'
    BY <1>1, <1>2 DEF ReadT
  <1>11. CallT'
    BY <1>1, <1>2 DEF CallT
  <1>12. CallInv'
    BY <1>1, <1>2, <1>6 DEF CallInv
  <1>13. GotInv'
    BY <1>1, <1>2, <1>5, <1>6 DEF IInv, GotInv
  <1>14. AheadInv'
    BY <1>1, <1>6 DEF AheadInv, Listing
  <1>15. CountInv'
    BY <1>1, <1>6 DEF CountInv
  <1> QED
    BY <1>5, <1>7, <1>8, <1>9, <1>10, <1>11, <1>12, <1>13, <1>14, <1>15 DEF IInv, Types

LEMMA DestroyJoinKeeps ==
  ASSUME IInv, DestroyJoin
  PROVE  IInv'
  <1>1. /\ at = "djoin" /\ at' = "freed" /\ call' = call /\ pf_flag' = {}
        /\ pf' = [p \in Parities |-> NoSet]
        /\ content' = Landed(pf[0].reads \cup pf[1].reads, pf[0].reads \cup pf[1].reads)
        /\ where' = where /\ key' = key /\ lru' = lru /\ llist' = llist /\ filled' = filled
        /\ used' = used /\ jobs' = jobs /\ ring' = ring
        /\ cur_layer' = cur_layer /\ pass_asked' = pass_asked /\ pass_larger' = pass_larger
        /\ pending' = pending /\ batch_rc' = batch_rc /\ via_ring' = via_ring
        /\ api_lock' = api_lock /\ lost' = lost /\ lease' = lease /\ faults' = faults
        /\ warm' = warm /\ warm_stop' = warm_stop /\ warm_over' = warm_over
    BY DEF DestroyJoin, Goto, mapVars, passVars, batchVars, warmVars
  <1>2. MapOK /\ Types /\ PassT /\ ReadT /\ FlagT /\ CallT /\ CallInv
    BY DEF IInv, Types
  <1>3. content' \in [Slots -> Keys \cup {None}]
    <2>1. 0 \in Parities /\ 1 \in Parities
      BY DEF Parities
    <2>2. pf[0].reads \in SUBSET Reads /\ pf[1].reads \in SUBSET Reads
      BY <1>2, <2>1, OwnedIs
    <2>3. PICK R : R = pf[0].reads \cup pf[1].reads
      OBVIOUS
    <2>4. R \in SUBSET Reads
      BY <2>2, <2>3
    <2> QED
      BY <1>1, <1>2, <2>3, <2>4, LandedIs
  <1>4. pf' \in [Parities -> Sets] /\ \A p \in Parities : pf'[p].reads = {} /\ ~pf'[p].inflight
    <2>1. NoSet \in Sets /\ NoSet.reads = {}
      BY Constants DEF NoSet, Sets, Layers
    <2>2. ~NoSet.inflight
      BY DEF NoSet
    <2> QED
      BY <1>1, <2>1, <2>2
  <1>5. MapOK' /\ NSlots' = NSlots
    BY <1>1, <1>2 DEF MapOK, MapT, MapInv, Full, NSlots
  <1>6. ~Choosing' /\ ~Serving' /\ \A p \in Parities : ~Listing(p)' /\ ~Lost(p)' /\ Ours(p)' = {}
    BY <1>1, <1>4 DEF Choosing, Serving, Listing, Lost, Ours, SlotsOf
  <1>7. PassT' /\ FlagT'
    BY <1>1, <1>2, <1>5 DEF PassT, FlagT
  <1>8. ReadT'
    BY <1>1, <1>2, <1>3, <1>4 DEF ReadT
  <1>9. CallT'
    BY <1>1, <1>2 DEF CallT
  <1>10. CallInv'
    BY <1>1, <1>2, <1>6 DEF CallInv
  <1>11. FlagInv'
    BY <1>1, <1>6 DEF FlagInv
  <1>12. SetInv'
    BY <1>4, <1>6 DEF SetInv
  <1>13. GotInv'
    BY <1>1, <1>6 DEF IInv, GotInv
  <1>14. AheadInv' /\ CountInv'
    BY <1>1, <1>6 DEF AheadInv, CountInv
  <1>15. RoomInv'
    <2>1. ~AllHeld'
      BY <1>1, <1>2, ListIs DEF AllHeld
    <2> QED
      BY <1>6, <2>1 DEF RoomInv
  <1> QED
    BY <1>5, <1>7, <1>8, <1>9, <1>10, <1>11, <1>12, <1>13, <1>14, <1>15 DEF IInv, Types

-----------------------------------------------------------------------------
(* An expert read by the warmer. *)
LEMMA WarmLoadKeeps ==
  ASSUME IInv, NEW ok \in BOOLEAN, NEW sent \in BOOLEAN, WarmLoad(ok, sent)
  PROVE  IInv'
  <1>1. /\ Warming /\ Ends(ok, MainFaults) /\ where[Head(warm)] = None
        /\ warm' = Tail(warm) /\ warm_over' = ~ok /\ warm_stop' = warm_stop
        /\ cur_layer' = cur_layer /\ pass_asked' = pass_asked /\ pass_larger' = pass_larger
        /\ jobs' = jobs /\ pf' = pf /\ pf_flag' = pf_flag
        /\ pending' = pending /\ batch_rc' = batch_rc /\ via_ring' = via_ring
        /\ api_lock' = api_lock /\ at' = at /\ call' = call /\ lost' = lost /\ lease' = lease
    BY DEF WarmLoad, passVars, batchVars, callVars
  <1>2. /\ MapOK /\ Types /\ PassT /\ ReadT /\ FlagT /\ CallT /\ CallInv /\ FlagInv /\ SetInv
        /\ RoomInv /\ CountInv
    BY DEF IInv, Types
  <1>3. at \in {"idle", "again", "djoin", "freed"}
    BY <1>1, <1>2 DEF Warming, CallInv
  <1>4. ~Choosing /\ ~Choosing' /\ ~Serving' /\ \A p \in Parities : ~Listing(p) /\ ~Listing(p)'
    BY <1>1, <1>3 DEF Choosing, Serving, Listing
  <1>5. PICK k \in Keys : k = Head(warm)
    BY <1>1, <1>2, HeadTailProperties DEF Warming, CallT
  <1>6. warm' \in Seq(Keys)
    BY <1>1, <1>2, HeadTailProperties DEF Warming, CallT
  <1>7. PICK s : s = victim({})
    OBVIOUS
  <1>8. s # None /\ Assign(s, k, TRUE) /\ used' = {s}
    BY <1>5, <1>7 DEF WarmLoad
  <1>9. s \in Range(lru) /\ s \in Slots /\ s \notin pf_flag
    BY <1>2, <1>7, <1>8, VictimIs
  <1>10. MapOK' /\ Given1(s, k)
    BY <1>1, <1>2, <1>5, <1>8, <1>9, AssignKeeps
  <1>11. /\ NSlots' = NSlots /\ Range(lru)' = Range(lru)
         /\ \A x \in Slots : x # s => key'[x] = key[x]
    BY <1>2, <1>5, <1>9, <1>10 DEF Given1, MapOK, MapT
  <1>12. content' \in [Slots -> Keys \cup {None}] /\ ring' \in SUBSET Reads
    <2>1. PICK job \in Reads : job = <<s, k>>
      <3>1. <<s, k>> \in Reads
        BY <1>5, <1>9 DEF Reads
      <3> QED
        BY <3>1
    <2>2. PICK E : E = IF 1 \in RingSizes THEN ring \cup {job} ELSE {job}
      OBVIOUS
    <2>3. E \in SUBSET Reads /\ ring \in SUBSET Reads
      BY <1>2, <2>2 DEF ReadT
    <2>4. PICK D : D = IF ok THEN E ELSE {}
      OBVIOUS
    <2>5. /\ content' = IF sent THEN Landed(E, D) ELSE content
          /\ ring' = IF ~sent THEN ring \cup {job} ELSE IF 1 \in RingSizes THEN {} ELSE ring
      BY <1>5, <1>7, <2>1, <2>2, <2>4 DEF WarmLoad
    <2>6. Landed(E, D) \in [Slots -> Keys \cup {None}] /\ content \in [Slots -> Keys \cup {None}]
      BY <1>2, <2>3, LandedIs DEF ReadT
    <2>7. content' \in [Slots -> Keys \cup {None}]
      BY <2>5, <2>6
    <2>8. ring' \in SUBSET Reads
      BY <2>3, <2>5
    <2> QED
      BY <2>7, <2>8
  <1>13. /\ FlagInv' /\ SetInv'
         /\ \A p \in Parities : Ours(p)' = Ours(p) /\ (Lost(p)' <=> Lost(p))
    <2>1. \A p \in Parities : (Listing(p)' <=> Listing(p)) /\ LayerOf(p)' = LayerOf(p)
      BY <1>1, <1>4 DEF LayerOf
    <2>2. \A x \in pf_flag : key'[x] = key[x]
      BY <1>2, <1>9, <1>11 DEF ReadT
    <2> QED
      BY <1>1, <1>2, <1>11, <2>1, <2>2, SetsStay
  <1>14. RoomInv'
    <2>1. \A p \in Parities : s \notin Ours(p)'
      BY <1>2, <1>9, <1>13 DEF FlagInv
    <2>2. \A p \in Parities : Outside(p)'
      BY <1>8, <2>1 DEF Outside
    <2>3. ~AllHeld'
      BY <1>1, <1>9, <1>11 DEF AllHeld
    <2> QED
      BY <2>2, <2>3 DEF RoomInv
  <1>15. faults' \in 0 .. MaxFaults
    BY <1>1, <1>2, EndsIs
  <1>16. PassT' /\ FlagT'
    BY <1>1, <1>2, <1>11, <1>15 DEF PassT, FlagT
  <1>17. ReadT'
    BY <1>1, <1>2, <1>8, <1>9, <1>12 DEF ReadT
  <1>18. CallT'
    BY <1>1, <1>2, <1>6 DEF CallT
  <1>19. CallInv'
    BY <1>1, <1>2, <1>3, <1>4 DEF CallInv
  <1>20. GotInv'
    BY <1>1, <1>3, <1>4, <1>8, <1>9, <1>11 DEF GotInv
  <1>21. AheadInv'
    BY <1>1, <1>3, <1>4 DEF AheadInv
  <1>22. CountInv'
    <2> SUFFICES ASSUME at = "again"
                 PROVE  used' # {} /\ Cardinality(used') + Len(call'.rest) <= NSlots'
      BY <1>1, <1>4 DEF CountInv
    <2>1. used # {} /\ Cardinality(used) + Len(call.rest) <= NSlots
      BY <1>2 DEF CountInv
    <2>2. Cardinality(used') = 1
      BY <1>8, FS_Singleton
    <2>3. Cardinality(used) >= 1
      BY <2>1, Finite, FS_EmptySet
    <2>4. Cardinality(used) \in Nat /\ Len(call.rest) \in Nat /\ NSlots \in Nat
      BY Finite
    <2> QED
      BY <1>1, <1>8, <1>11, <2>1, <2>2, <2>3, <2>4
  <1> QED
    BY <1>10, <1>13, <1>14, <1>16, <1>17, <1>18, <1>19, <1>20, <1>21, <1>22 DEF IInv, Types

-----------------------------------------------------------------------------
(* A request begun. *)
LEMMA AskCollects ==
  ASSUME IInv, NEW l, NEW ids, NEW same, NEW F, Ask(l, ids, same, F), NEW H, NEW S,
         H = {p \in Parities : pf[p].reads # {} /\ l >= pf[p].layer},
         S = SlotsOf(ReadsOf(F))
  PROVE  /\ MapOK' /\ Emptied(S) /\ filled' <= filled /\ (S = {} => filled' = filled)
         /\ content' \in [Slots -> Keys \cup {None}] /\ faults' \in 0 .. MaxFaults
         /\ F \in SUBSET H /\ \A p \in F : pf[p].inflight
         /\ \A s : s \in S <=> \E p \in F : s \in Ours(p)
  <1>1. H \in SUBSET Parities /\ pf_collect(H, F) /\ lru' = lru
    BY DEF Ask
  <1>2. MapOK /\ ReadT /\ FlagT /\ FlagInv /\ SetInv
    BY DEF IInv, Types
  <1>3. MapOK' /\ Emptied(S) /\ filled' <= filled /\ (S = {} => filled' = filled)
    BY <1>1, <1>2, CollectKeeps
  <1>4. content' \in [Slots -> Keys \cup {None}] /\ faults' \in 0 .. MaxFaults
    BY <1>1, <1>2, CollectKeeps
  <1>5. F \in SUBSET H /\ \A p \in F : pf[p].inflight
    BY <1>1 DEF pf_collect
  <1>6. \A s : s \in S <=> \E p \in F : s \in Ours(p)
    BY OursIs
  <1> QED
    BY <1>3, <1>4, <1>5, <1>6

LEMMA AskSets ==
  ASSUME ReadT, NEW H \in SUBSET Parities,
         pf' = [p \in Parities |-> IF p \in H THEN [pf[p] EXCEPT !.inflight = FALSE] ELSE pf[p]]
  PROVE  /\ pf' \in [Parities -> Sets]
         /\ \A p \in Parities : /\ pf'[p].reads = pf[p].reads /\ pf'[p].layer = pf[p].layer
                                /\ pf'[p].inflight <=> pf[p].inflight /\ p \notin H
  <1>1. \A p \in Parities : pf[p] \in Sets
    BY DEF ReadT
  <1>2. ASSUME NEW z \in Sets
        PROVE  /\ [z EXCEPT !.inflight = FALSE] \in Sets
               /\ [z EXCEPT !.inflight = FALSE].reads = z.reads
               /\ [z EXCEPT !.inflight = FALSE].layer = z.layer
               /\ ~[z EXCEPT !.inflight = FALSE].inflight
    BY DEF Sets
  <1>3. ASSUME NEW p \in Parities
        PROVE  /\ pf'[p] \in Sets /\ pf'[p].reads = pf[p].reads /\ pf'[p].layer = pf[p].layer
               /\ pf'[p].inflight <=> pf[p].inflight /\ p \notin H
    <2>1. pf'[p] = IF p \in H THEN [pf[p] EXCEPT !.inflight = FALSE] ELSE pf[p]
      OBVIOUS
    <2>2. PICK z \in Sets : z = pf[p]
      BY <1>1
    <2> QED
      BY <1>2, <2>1, <2>2
  <1> QED
    BY <1>3

LEMMA AskKeeps ==
  ASSUME IInv, at \in {"idle", "again"}, NEW l \in Layers, NEW ids \in Seq(Experts), Len(ids) >= 1,
         NEW same \in BOOLEAN, NEW F, Ask(l, ids, same, F),
         lease' \subseteq (Slots \cup {None}) \X Keys,
         call' \in Calls, call'.layer = l, call'.ids = ids, Len(call'.got) = 0, call'.i = 1,
         Cardinality(used') + Len(ids) + Len(call'.rest) <= NSlots
  PROVE  IInv'
  <1> DEFINE here == {p \in Parities : pf[p].reads # {} /\ l >= pf[p].layer}
  <1>1. /\ api_lock' = "caller" /\ used' = (IF same THEN used ELSE {}) /\ cur_layer' = l
        /\ pass_larger' = (IF l < cur_layer THEN pass_asked > NSlots ELSE pass_larger)
        /\ pass_asked' = Cap(Len(ids) + IF l < cur_layer THEN 0 ELSE pass_asked)
        /\ pf_collect(here, F)
        /\ pf' = [p \in Parities |-> IF p \in here THEN [pf[p] EXCEPT !.inflight = FALSE] ELSE pf[p]]
        /\ at' = "hits" /\ lru' = lru /\ jobs' = jobs /\ ring' = ring /\ pf_flag' = pf_flag
        /\ pending' = pending /\ batch_rc' = batch_rc /\ via_ring' = via_ring /\ lost' = lost
        /\ warm' = warm /\ warm_stop' = warm_stop /\ warm_over' = warm_over
    BY DEF Ask, batchVars, warmVars
  <1>2. /\ MapOK /\ Types /\ PassT /\ ReadT /\ FlagT /\ CallT /\ CallInv /\ FlagInv /\ SetInv
        /\ RoomInv
    BY DEF IInv, Types
  <1>3. PICK H \in SUBSET Parities : H = here
    OBVIOUS
  <1>4. \A p \in Parities : p \in H <=> pf[p].reads # {} /\ l >= pf[p].layer
    BY <1>3
  <1>5. /\ pf_collect(H, F)
        /\ pf' = [p \in Parities |-> IF p \in H THEN [pf[p] EXCEPT !.inflight = FALSE] ELSE pf[p]]
    BY <1>1, <1>3
  <1> HIDE DEF here
  <1>6. PICK S : S = SlotsOf(ReadsOf(F))
    OBVIOUS
  <1>6a. H = {p \in Parities : pf[p].reads # {} /\ l >= pf[p].layer}
    BY <1>3 DEF here
  <1>7. /\ MapOK' /\ Emptied(S) /\ filled' <= filled
        /\ content' \in [Slots -> Keys \cup {None}] /\ faults' \in 0 .. MaxFaults
        /\ F \in SUBSET H /\ \A p \in F : pf[p].inflight
        /\ \A s : s \in S <=> \E p \in F : s \in Ours(p)
    <2>1. \A s : s \in S <=> \E p \in F : s \in Ours(p)
      BY <1>6, OursIs
    <2>2. F \in SUBSET H /\ \A p \in F : pf[p].inflight
      BY <1>5 DEF pf_collect
    <2>3. MapOK' /\ Emptied(S) /\ filled' <= filled
      BY <1>6, <1>6a, AskCollects
    <2>4. content' \in [Slots -> Keys \cup {None}] /\ faults' \in 0 .. MaxFaults
      BY <1>6, <1>6a, AskCollects
    <2> QED
      BY <2>1, <2>2, <2>3, <2>4
  <1>8. /\ pf' \in [Parities -> Sets]
        /\ \A p \in Parities : /\ pf'[p].reads = pf[p].reads /\ pf'[p].layer = pf[p].layer
                               /\ pf'[p].inflight <=> pf[p].inflight /\ p \notin H
    BY <1>2, <1>5, AskSets
  <1>9. \A p \in Parities : Ours(p)' = Ours(p)
    BY <1>8 DEF Ours, SlotsOf
  <1>10. Choosing' /\ ~Choosing /\ \A p \in Parities : ~Listing(p) /\ ~Listing(p)'
    BY <1>1 DEF Choosing, Listing
  <1>11. \A s \in Slots : key'[s] = IF s \in S THEN None ELSE key[s]
    BY <1>7 DEF Emptied
  <1>12. \A p \in Parities : \A r \in pf[p].reads :
           /\ r[1] \in Slots /\ r[1] \in Ours(p)
           /\ r[1] \in S <=> p \in F
    <2>1. \A p \in Parities : \A r \in pf[p].reads : r[1] \in Slots /\ r[1] \in Ours(p)
      BY <1>2, OwnedIs
    <2> QED
      BY <1>2, <1>7, <2>1 DEF FlagInv
  <1>13. \A p \in Parities : Lost(p)' => Lost(p) \/ p \in F
    BY <1>8, <1>11, <1>12 DEF Lost
  <1>14. FlagInv'
    BY <1>1, <1>2, <1>9 DEF FlagInv
  <1>15. SetInv'
    <2> SUFFICES ASSUME NEW p \in Parities
                 PROVE  /\ \A r \in pf'[p].reads :
                             /\ r[2][1] = LayerOf(p)' /\ r[2][1] % 2 = p
                             /\ key'[r[1]] \in {None, r[2]}
                             /\ Lost(p)' => key'[r[1]] = None
                        /\ pf'[p].inflight \/ Listing(p)' => ~Lost(p)'
                        /\ pf'[p].inflight => pf'[p].reads # {}
      BY DEF SetInv
    <2>1. /\ \A r \in pf[p].reads :
               /\ r[2][1] = LayerOf(p) /\ r[2][1] % 2 = p
               /\ key[r[1]] \in {None, r[2]}
               /\ Lost(p) => key[r[1]] = None
          /\ pf[p].inflight => ~Lost(p) /\ pf[p].reads # {}
      BY <1>2 DEF SetInv
    <2>2. LayerOf(p)' = LayerOf(p)
      BY <1>8, <1>10 DEF LayerOf
    <2> QED
      BY <1>7, <1>8, <1>10, <1>11, <1>12, <1>13, <2>1, <2>2
  <1>16. NSlots' = NSlots /\ NSlots \in Nat /\ Range(lru)' = Range(lru)
    BY <1>1, <1>2, ListIs DEF NSlots
  <1>17. Len(ids) \in Nat
    BY LenProperties
  <1>18. PassT'
    <2>1. pass_asked \in Nat
      BY <1>2, <1>16 DEF PassT
    <2>2. PICK n \in Nat : n = Len(ids) + IF l < cur_layer THEN 0 ELSE pass_asked
      BY <1>17, <2>1
    <2>3. Cap(n) \in 0 .. (NSlots + 1)
      BY <1>16 DEF Cap
    <2>4. pass_larger' \in BOOLEAN
      <3>1. CASE l < cur_layer
        <4>1. pass_larger' = (pass_asked > NSlots)
          BY <1>1, <3>1
        <4> QED
          BY <1>16, <2>1, <4>1
      <3>2. CASE ~(l < cur_layer)
        BY <1>1, <1>2, <3>2 DEF PassT
      <3> QED
        BY <3>1, <3>2
    <2> QED
      BY <1>1, <1>16, <2>2, <2>3, <2>4 DEF PassT
  <1>19. FlagT'
    BY <1>1, <1>2, <1>7 DEF FlagT
  <1>20. ReadT'
    BY <1>1, <1>2, <1>7, <1>8 DEF ReadT
  <1>21. CallT'
    BY <1>1, <1>2 DEF CallT
  <1>22. CallInv'
    BY <1>1, <1>10, <1>17 DEF CallInv
  <1>23. GotInv'
    BY <1>1, <1>2, <1>16 DEF IInv, GotInv
  <1>24. AheadInv'
    <2>1. ASSUME NEW p \in Parities, pf'[p].inflight
          PROVE  pf'[p].layer > call'.layer
      <3>1. pf[p].inflight /\ p \notin H /\ pf[p].reads # {}
        BY <1>2, <1>8, <2>1 DEF SetInv
      <3>2. pf[p].layer \in Nat /\ l \in Nat
        BY <1>2, OwnedIs, Constants
      <3> QED
        BY <1>4, <1>8, <3>1, <3>2
    <2> QED
      BY <1>1, <1>10, <2>1 DEF AheadInv
  <1>25. CountInv'
    <2>1. PICK I : I = 1 .. Len(ids)
      OBVIOUS
    <2>2. IsFiniteSet(I) /\ Cardinality(I) = Len(ids)
      BY <1>17, <2>1, FS_Interval
    <2>3. Todo' \in SUBSET I
      BY <2>1 DEF Todo
    <2>4. IsFiniteSet(used')
      <3>1. IsFiniteSet(used) /\ IsFiniteSet({})
        BY Finite, FS_EmptySet
      <3> QED
        BY <1>1, <3>1
    <2>5. /\ Cardinality(Todo') \in Nat /\ Cardinality(Todo') <= Len(ids)
          /\ Cardinality(used') \in Nat
      BY <2>2, <2>3, <2>4, FS_Subset, FS_CardinalityType
    <2>6. Len(call'.rest) \in Nat
      <3>1. call'.rest \in Seq(Experts)
        BY DEF Calls
      <3> QED
        BY <3>1, LenProperties
    <2>7. Cardinality(used') + Cardinality(Todo') + Len(call'.rest) <= NSlots
      BY <1>16, <1>17, <2>5, <2>6
    <2> QED
      BY <1>1, <1>16, <2>7 DEF CountInv
  <1>26. RoomInv'
    <2> SUFFICES ASSUME AllHeld', NEW p \in Parities, Lost(p)'
                 PROVE  pf'[p].layer <= call'.layer
      BY <1>1, <1>10 DEF RoomInv
    <2>1. AllHeld
      BY <1>1, <1>16 DEF AllHeld
    <2>2. ~(filled < NSlots)
      BY <1>2, <1>10, <2>1 DEF RoomInv
    <2>3. Full = Range(lru)
      <3>1. /\ Full \subseteq Range(lru) /\ filled = Cardinality(Full)
            /\ IsFiniteSet(Full) /\ IsFiniteSet(Range(lru)) /\ NSlots = Cardinality(Range(lru))
        BY <1>2, ListIs DEF MapOK, MapInv
      <3>2. filled \in 0 .. NSlots
        BY <1>2 DEF MapOK, MapT
      <3>3. filled = NSlots
        BY <1>16, <2>2, <3>2
      <3> QED
        BY <3>1, <3>3, FS_Subset
    <2>4. ~Lost(p)
      <3>1. \A r \in pf[p].reads : r[1] \in pf_flag
        BY <1>2, <1>12 DEF FlagInv
      <3> QED
        BY <2>1, <2>3, <3>1, <1>2 DEF Lost, Full, FlagInv
    <2>5. p \in H
      BY <1>7, <1>13, <2>4
    <2>6. pf[p].layer \in Nat /\ l \in Nat
      BY <1>2, OwnedIs, Constants
    <2> QED
      BY <1>4, <1>8, <2>5, <2>6
  <1> QED
    BY <1>7, <1>14, <1>15, <1>18, <1>19, <1>20, <1>21, <1>22, <1>23, <1>24, <1>25, <1>26
    DEF IInv, Types

(* The call of a request: what it asks of now, and what is left for later. *)
NewCall(l, now, n) ==
  /\ call' \in Calls /\ call'.layer = l /\ call'.ids = now /\ Len(call'.got) = 0
  /\ call'.ready = {} /\ call'.i = 1 /\ Len(now) + Len(call'.rest) = n
  /\ n <= Chunk => call'.rest = <<>>

LEMMA AskSomeIs ==
  ASSUME NEW l \in Layers, NEW ids \in Seq(Experts), Len(ids) >= 1, NEW same, NEW F,
         AskSome(l, ids, same, F)
  PROVE  \E now \in Seq(Experts) : /\ Len(now) >= 1 /\ Ask(l, now, same, F)
                                   /\ NewCall(l, now, Len(ids))
  <1>1. Len(ids) \in Nat /\ \A j \in 1 .. Len(ids) : ids[j] \in Experts
    BY LenProperties, ElementOfSeq
  <1>2. PICK n \in Nat : n = IF Len(ids) < Chunk THEN Len(ids) ELSE Chunk
    BY <1>1, Constants
  <1>3. n >= 1 /\ n <= Len(ids) /\ (Len(ids) <= Chunk => n = Len(ids))
    BY <1>1, <1>2, Constants
  <1>4. PICK now : now = SubSeq(ids, 1, n)
    OBVIOUS
  <1>5. PICK rest : rest = SubSeq(ids, n + 1, Len(ids))
    OBVIOUS
  <1>6. now \in Seq(Experts) /\ Len(now) = n
    <2>1. \A j \in 1 .. n : ids[j] \in Experts
      BY <1>1, <1>3
    <2>2. 1 \in Int /\ n \in Int /\ n - 1 + 1 = n
      OBVIOUS
    <2> QED
      BY <1>3, <1>4, <2>1, <2>2, SubSeqProperties
  <1>7. rest \in Seq(Experts) /\ Len(rest) = Len(ids) - n
    <2>1. \A j \in (n + 1) .. Len(ids) : ids[j] \in Experts
      BY <1>1, <1>3
    <2>2. PICK m \in Int : m = n + 1
      OBVIOUS
    <2>3. PICK o \in Int : o = Len(ids)
      BY <1>1
    <2>4. rest = SubSeq(ids, m, o) /\ \A j \in m .. o : ids[j] \in Experts
      BY <1>5, <2>1, <2>2, <2>3
    <2>5. rest \in Seq(Experts) /\ Len(rest) = IF m <= o THEN o - m + 1 ELSE 0
      BY <2>4, SubSeqProperties
    <2> QED
      BY <1>3, <2>2, <2>3, <2>5
  <1>8. Ask(l, now, same, F)
    BY <1>2, <1>4 DEF AskSome
  <1>9. call' = [NoCall EXCEPT !.layer = l, !.ids = now, !.many = TRUE, !.rest = rest]
    BY <1>2, <1>4, <1>5 DEF AskSome
  <1>10. PICK c : c = [NoCall EXCEPT !.layer = l, !.ids = now, !.many = TRUE, !.rest = rest]
    OBVIOUS
  <1>11. c \in Calls
    BY <1>6, <1>7, <1>10, NoCallIs DEF Calls
  <1>12. /\ c.layer = l /\ c.ids = now /\ c.got = NoCall.got /\ c.ready = NoCall.ready
         /\ c.i = NoCall.i /\ c.rest = rest
    BY <1>10, NoCallIs DEF Calls
  <1>13. Len(ids) <= Chunk => rest = <<>>
    BY <1>3, <1>7, EmptySeq
  <1>14. Len(now) + Len(rest) = Len(ids)
    BY <1>1, <1>6, <1>7
  <1>15. NewCall(l, now, Len(ids))
    BY <1>9, <1>10, <1>11, <1>12, <1>13, <1>14, NoCallIs DEF NewCall
  <1> QED
    BY <1>3, <1>6, <1>8, <1>15

LEMMA BeginIs ==
  ASSUME IInv, NEW l \in Layers, NEW ids \in Asks(NSlots), NEW F,
         begin(l, ids, F) \/ fetch_many(l, ids, F)
  PROVE  /\ at = "idle" /\ lease' = {} /\ Len(ids) \in 1 .. NSlots
         /\ \E now \in Seq(Experts) : /\ Len(now) >= 1 /\ Ask(l, now, FALSE, F)
                                      /\ NewCall(l, now, Len(ids))
                                      /\ Len(now) + Len(call'.rest) <= NSlots
  <1>1. at = "idle" /\ lease' = {}
    BY DEF begin, fetch_many
  <1>2. MapOK /\ NSlots \in SlotCounts /\ NSlots \in Nat
    BY ListIs DEF IInv, MapOK, MapT
  <1>3. ids \in Seq(Experts) /\ Len(ids) \in 1 .. NSlots
    BY <1>2, Constants
  <1>4. Len(ids) \in Nat /\ Len(ids) >= 1 /\ Len(ids) <= NSlots
    BY <1>2, <1>3
  <1>5. CASE begin(l, ids, F)
    <2>1. Ask(l, ids, FALSE, F) /\ call' = [NoCall EXCEPT !.layer = l, !.ids = ids]
      BY <1>5 DEF begin
    <2>2. PICK c : c = [NoCall EXCEPT !.layer = l, !.ids = ids]
      OBVIOUS
    <2>3. c \in Calls
      BY <1>3, <2>2, NoCallIs DEF Calls
    <2>4. /\ c.layer = l /\ c.ids = ids /\ c.got = NoCall.got /\ c.ready = NoCall.ready
          /\ c.i = NoCall.i /\ c.rest = NoCall.rest
      BY <2>2, NoCallIs DEF Calls
    <2>5. Len(c.rest) = 0 /\ c.rest = <<>>
      BY <2>4, NoCallIs, EmptySeq
    <2>6. NewCall(l, ids, Len(ids)) /\ Len(ids) + Len(call'.rest) <= NSlots
      BY <1>4, <2>1, <2>2, <2>3, <2>4, <2>5, NoCallIs DEF NewCall
    <2> QED
      BY <1>1, <1>3, <1>4, <2>1, <2>6
  <1>6. CASE fetch_many(l, ids, F)
    <2>1. AskSome(l, ids, FALSE, F)
      BY <1>6 DEF fetch_many
    <2>2. PICK now \in Seq(Experts) : /\ Len(now) >= 1 /\ Ask(l, now, FALSE, F)
                                      /\ NewCall(l, now, Len(ids))
      BY <1>3, <1>4, <2>1, AskSomeIs
    <2>3. Len(now) + Len(call'.rest) <= NSlots
      BY <1>4, <2>2 DEF NewCall
    <2> QED
      BY <1>1, <1>3, <2>2, <2>3
  <1> QED
    BY <1>5, <1>6

LEMMA BeginKeeps ==
  ASSUME IInv, NEW l \in Layers, NEW ids \in Asks(NSlots), NEW F,
         begin(l, ids, F) \/ fetch_many(l, ids, F)
  PROVE  IInv'
  <1>1. at = "idle" /\ lease' = {}
    BY BeginIs
  <1>2. PICK now \in Seq(Experts) : /\ Len(now) >= 1 /\ Ask(l, now, FALSE, F)
                                    /\ NewCall(l, now, Len(ids))
                                    /\ Len(now) + Len(call'.rest) <= NSlots
    BY BeginIs
  <1>3. /\ call' \in Calls /\ call'.layer = l /\ call'.ids = now /\ Len(call'.got) = 0
        /\ call'.i = 1
    BY <1>2 DEF NewCall
  <1>4. used' = {} /\ Cardinality(used') = 0
    BY <1>2, FS_EmptySet DEF Ask
  <1>5. Len(now) \in Nat /\ Len(call'.rest) \in Nat
    <2>1. call'.rest \in Seq(Experts)
      BY <1>3 DEF Calls
    <2> QED
      BY <2>1, LenProperties
  <1>6. Cardinality(used') + Len(now) + Len(call'.rest) <= NSlots
    BY <1>2, <1>4, <1>5
  <1> QED
    BY <1>1, <1>2, <1>3, <1>6, AskKeeps

LEMMA FetchNextKeeps ==
  ASSUME IInv, NEW F, FetchNext(F)
  PROVE  IInv'
  <1>1. at = "again" /\ lease' = lease /\ AskSome(call.layer, call.rest, TRUE, F)
    BY DEF FetchNext
  <1>2. CallT /\ CallInv /\ CountInv
    BY DEF IInv, Types
  <1>3. call.layer \in Layers /\ call.rest \in Seq(Experts) /\ call.rest # <<>>
    BY <1>1, <1>2, CallFields DEF CallInv
  <1>4. Len(call.rest) \in Nat /\ Len(call.rest) >= 1
    BY <1>3, LenProperties, EmptySeq
  <1>5. PICK now \in Seq(Experts) : /\ Len(now) >= 1 /\ Ask(call.layer, now, TRUE, F)
                                    /\ NewCall(call.layer, now, Len(call.rest))
    BY <1>1, <1>3, <1>4, AskSomeIs
  <1>6. PICK l \in Layers : l = call.layer
    BY <1>3
  <1>7. Ask(l, now, TRUE, F)
    BY <1>5, <1>6
  <1>8. /\ call' \in Calls /\ call'.layer = l /\ call'.ids = now /\ Len(call'.got) = 0
        /\ call'.i = 1 /\ Len(now) + Len(call'.rest) = Len(call.rest)
    BY <1>5, <1>6 DEF NewCall
  <1>9. used' = used
    BY <1>7 DEF Ask
  <1>10. Cardinality(used') + Len(now) + Len(call'.rest) <= NSlots
    <2>1. Cardinality(used) + Len(call.rest) <= NSlots
      BY <1>1, <1>2 DEF CountInv
    <2>2. Cardinality(used) \in Nat /\ NSlots \in Nat
      BY Finite
    <2>3. Len(now) \in Nat /\ Len(call'.rest) \in Nat
      <3>1. call'.rest \in Seq(Experts)
        BY <1>8 DEF Calls
      <3> QED
        BY <3>1, LenProperties
    <2> QED
      BY <1>4, <1>8, <1>9, <2>1, <2>2, <2>3
  <1>11. lease' \subseteq (Slots \cup {None}) \X Keys
    BY <1>1, <1>2 DEF CallT
  <1> QED
    BY <1>1, <1>5, <1>7, <1>8, <1>10, <1>11, AskKeeps

-----------------------------------------------------------------------------
(* The invariant. *)
LEMMA InitKeeps ==
  ASSUME Init
  PROVE  IInv
  <1>1. PICK n \in SlotCounts : lru = SubSeq(SlotOrder, 1, n)
    BY DEF Init
  <1>2. n \in Nat /\ n >= 1 /\ n <= Len(SlotOrder)
    BY Constants
  <1>3. /\ SlotOrder \in Seq(Slots) /\ Len(SlotOrder) \in Nat /\ Distinct(SlotOrder)
        /\ \A i \in 1 .. n : SlotOrder[i] \in Slots /\ i \in 1 .. Len(SlotOrder)
    BY <1>2, Constants, ElementOfSeq
  <1>4. lru \in Seq(Slots) /\ Len(lru) = n /\ \A i \in 1 .. n : lru[i] = SlotOrder[i]
    <2>1. 1 \in Int /\ n \in Int /\ n - 1 + 1 = n /\ \A i \in 1 .. n : 1 + i - 1 = i
      BY <1>2
    <2> QED
      BY <1>1, <1>2, <1>3, <2>1, SubSeqProperties
  <1>5. Distinct(lru)
    BY <1>3, <1>4 DEF Distinct
  <1>6. PICK none : none = <<>>
    OBVIOUS
  <1>7. none \in Seq(Slots) /\ Len(none) = 0 /\ Distinct(none) /\ Range(none) = {}
    BY <1>6 DEF Distinct, Range
  <1>8. llist = [l \in Layers |-> none] /\ llist \in [Layers -> Seq(Slots)]
    BY <1>6, <1>7 DEF Init
  <1>9. MapT
    BY <1>2, <1>4, <1>8 DEF Init, MapT, NSlots
  <1>10. MapInv
    <2>1. Full = {} /\ filled = 0
      BY DEF Full, Init
    <2>2. filled = Cardinality(Full) /\ Full \subseteq Range(lru)
      BY <2>1, FS_EmptySet
    <2>3. \A k \in Keys, s \in Slots : where[k] = s <=> key[s] = k
      BY Constants DEF Init
    <2>4. \A l \in Layers : /\ Distinct(llist[l])
                            /\ Range(llist[l]) = {s \in Slots : key[s] # None /\ key[s][1] = l}
      <3>1. \A l \in Layers : {s \in Slots : key[s] # None /\ key[s][1] = l} = {}
        BY DEF Init
      <3> QED
        BY <1>7, <1>8, <3>1
    <2> QED
      BY <1>5, <2>2, <2>3, <2>4 DEF MapInv
  <1>11. PassT
    <2>1. 0 \in Layers
      BY Constants DEF Layers
    <2>2. cur_layer = 0 /\ pass_asked = 0 /\ pass_larger = FALSE
      BY DEF Init
    <2>3. pass_asked \in 0 .. (NSlots + 1)
      BY <1>2, <1>4, <2>2 DEF NSlots
    <2> QED
      BY <2>1, <2>2, <2>3 DEF PassT
  <1>12. FlagT
    <2>1. faults = 0 /\ 0 \in 0 .. MaxFaults
      BY Constants DEF Init
    <2>2. /\ pending = FALSE /\ batch_rc = 0 /\ via_ring = FALSE /\ lost = FALSE
          /\ warm_stop = FALSE /\ warm_over = FALSE
      BY DEF Init
    <2> QED
      BY <2>1, <2>2 DEF FlagT
  <1>13. pf \in [Parities -> Sets] /\ \A p \in Parities : pf[p].reads = {} /\ ~pf[p].inflight
    <2>1. NoSet \in Sets /\ NoSet.reads = {}
      BY Constants DEF NoSet, Sets, Layers
    <2>2. ~NoSet.inflight
      BY DEF NoSet
    <2> QED
      BY <2>1, <2>2 DEF Init
  <1>14. ReadT
    BY <1>13 DEF Init, ReadT
  <1>15. CallT
    BY NoCallIs, Constants DEF Init, CallT
  <1>16. /\ ~Choosing /\ ~Serving
         /\ \A p \in Parities : ~Listing(p) /\ ~Lost(p) /\ Ours(p) = {}
    BY <1>13 DEF Init, Choosing, Serving, Listing, Lost, Ours, SlotsOf
  <1>17. CallInv
    BY <1>16 DEF Init, CallInv
  <1>18. FlagInv
    BY <1>16 DEF Init, FlagInv
  <1>19. SetInv
    BY <1>13, <1>16 DEF SetInv
  <1>20. GotInv
    BY <1>16 DEF Init, GotInv
  <1>21. AheadInv /\ CountInv
    BY <1>16 DEF Init, AheadInv, CountInv
  <1>22. RoomInv
    <2>1. ~AllHeld
      <3>1. Range(lru) # {}
        <4>1. 1 \in 1 .. n /\ DOMAIN lru = 1 .. n
          BY <1>2, <1>4, LenProperties
        <4> QED
          BY <4>1 DEF Range
      <3> QED
        BY <3>1 DEF Init, AllHeld
    <2> QED
      BY <1>16, <2>1 DEF RoomInv
  <1> QED
    BY <1>9, <1>10, <1>11, <1>12, <1>14, <1>15, <1>17, <1>18, <1>19, <1>20, <1>21, <1>22
    DEF IInv, MapOK, Types

LEMMA StutterKeeps ==
  ASSUME IInv, UNCHANGED vars
  PROVE  IInv'
  <1>1. /\ Still /\ at' = at /\ call' = call /\ lost' = lost /\ api_lock' = api_lock
        /\ content' = content /\ jobs' = jobs /\ ring' = ring
        /\ pending' = pending /\ batch_rc' = batch_rc /\ via_ring' = via_ring
        /\ lease' = lease /\ faults' = faults
        /\ warm' = warm /\ warm_stop' = warm_stop /\ warm_over' = warm_over
    BY DEF vars, Still, mapVars, passVars, readVars, batchVars, callVars, warmVars
  <1>2. ReadT /\ FlagT /\ CallT
    BY DEF IInv, Types
  <1>3. ReadT'
    BY <1>1, <1>2 DEF ReadT, Still
  <1>4. FlagT'
    BY <1>1, <1>2 DEF FlagT
  <1>5. CallT'
    BY <1>1, <1>2 DEF CallT
  <1> QED
    BY <1>1, <1>3, <1>4, <1>5, QuietKeeps

LEMMA NextKeeps ==
  ASSUME IInv, [Next]_vars
  PROVE  IInv'
  <1>1. CASE \E l \in Layers, ids \in Asks(NSlots), F \in SUBSET Parities :
               begin(l, ids, F) \/ fetch_many(l, ids, F) \/ prefetch(l, ids, F)
    BY <1>1, BeginKeeps, PrefetchKeeps
  <1>2. CASE \E k \in Keys : demote(k)
    BY <1>2, DemoteKeeps
  <1>3. CASE resident \/ WarmEnd \/ WarmSkip
    BY <1>3, AloneKeeps
  <1>4. CASE destroy \/ DestroyJoin
    BY <1>4, DestroyKeeps, DestroyJoinKeeps
  <1>5. CASE Hit \/ Found \/ Miss
    BY <1>5, HitKeeps, FoundKeeps, MissKeeps
  <1>6. CASE PfSkip \/ PfTake \/ PfSubmit \/ PfSubmitFails
    BY <1>6, PfSkipKeeps, PfTakeKeeps, PfSubmitsKeep
  <1>7. CASE \E F \in SUBSET Parities :
               FetchNext(F) \/ SettlePast(F) \/ SettleAll(F) \/ PfDrop(F)
    BY <1>7, FetchNextKeeps, SettlesKeep, PfDropKeeps
  <1>8. CASE \E ok \in BOOLEAN : Start(ok)
    BY <1>8, StartKeeps
  <1>9. CASE FinishPool \/ \E ok \in BOOLEAN : \E D \in SUBSET ring : FinishRing(ok, D)
    <2>1. TRUE \in BOOLEAN
      OBVIOUS
    <2> QED
      BY <1>9, <2>1, FinishKeeps
  <1>10. CASE \E ok, sent \in BOOLEAN : WarmLoad(ok, sent)
    BY <1>10, WarmLoadKeeps
  <1>11. CASE CoordStep
    BY <1>11, CoordReadKeeps DEF CoordStep
  <1>12. CASE Freed \/ UNCHANGED vars
    BY <1>12, StutterKeeps DEF Freed
  <1> QED
    BY <1>1, <1>2, <1>3, <1>4, <1>5, <1>6, <1>7, <1>8, <1>9, <1>10, <1>11, <1>12
    DEF Next, CallerStep, WarmerStep

LEMMA Invariance == Spec => []IInv
  <1>1. Init => IInv
    BY InitKeeps
  <1>2. IInv /\ [Next]_vars => IInv'
    BY NextKeeps
  <1> QED
    BY <1>1, <1>2, PTL DEF Spec

(* Every variable of the cache has its type: its list stays as long as it has
   slots, with no more of them filled than there are, after any calls, reads
   ahead, fillings and failed reads. *)
THEOREM TypeCorrect == Spec => []TypeOK
  <1>1. ASSUME IInv
        PROVE  TypeOK
    <2>1. MapT /\ PassT /\ ReadT /\ FlagT /\ CallT
      BY <1>1 DEF IInv, Types, MapOK
    <2>2. \A l \in Layers : Range(llist[l]) \subseteq Slots
      BY <2>1, RangeOfSeq DEF MapT
    <2>3. \A p \in Parities : /\ pf[p].reads \subseteq Reads /\ pf[p].layer \in Layers
                              /\ pf[p].inflight \in BOOLEAN
      BY <2>1, OwnedIs
    <2>4. Range(warm) \subseteq Keys
      BY <2>1, RangeOfSeq DEF CallT
    <2> QED
      BY <2>1, <2>2, <2>3, <2>4 DEF TypeOK, MapT, PassT, ReadT, FlagT, CallT
  <1> QED
    BY <1>1, Invariance, PTL

(* The map from experts to slots, its inverse, the count of slots in use and the
   lists, rewritten piecemeal by begin, prefetch, demote, the warmer and the
   collection of reads ahead that failed, agree in every state. *)
THEOREM MapsAgree == Spec => []MapConsistent
  <1>1. ASSUME IInv
        PROVE  MapConsistent
    <2>1. MapOK /\ MapT /\ MapInv
      BY <1>1 DEF IInv, MapOK
    <2>2. Cardinality(Range(lru)) = NSlots /\ \A s \in Slots : key[s] # None => s \in Range(lru)
      BY <2>1, ListIs
    <2>3. \A l \in Layers : Len(llist[l]) = Cardinality(Range(llist[l]))
      <3> SUFFICES ASSUME NEW l \in Layers
                   PROVE  Len(llist[l]) = Cardinality(Range(llist[l]))
        OBVIOUS
      <3>1. PICK q \in Seq(Slots) : q = llist[l]
        BY <2>1 DEF MapT
      <3>2. Distinct(q)
        BY <2>1, <3>1 DEF MapInv
      <3> QED
        BY <3>1, <3>2, Counted
    <2> QED
      BY <2>1, <2>2, <2>3 DEF MapConsistent, MapInv, Full
  <1> QED
    BY <1>1, Invariance, PTL

(* A request for no more experts than the cache has slots finds one for each of
   them, and the warmer finds one to fill: begin never gives up for want of a
   slot, however many the reads ahead hold and whichever of them failed. *)
THEOREM SlotAlwaysFound == Spec => []NeverLost
  <1>1. ASSUME IInv
        PROVE  NeverLost
    <2>1. at = "begun" => ~lost
      BY <1>1 DEF IInv, GotInv
    <2>2. ASSUME Warming
          PROVE  victim({}) # None
      <3>1. ~Choosing /\ filled < NSlots
        BY <1>1, <2>2 DEF Warming, IInv, CallInv, Choosing
      <3>2. PICK x \in Range(lru) : x \notin pf_flag
        BY <1>1, <3>1 DEF IInv, RoomInv, AllHeld
      <3>3. PICK v : v = victim({})
        OBVIOUS
      <3>4. MapOK /\ PassT
        BY <1>1 DEF IInv, Types
      <3>5. v # None
        BY <3>2, <3>3, <3>4, VictimIs
      <3> QED
        BY <3>3, <3>5
    <2> QED
      BY <2>1, <2>2 DEF NeverLost
  <1> QED
    BY <1>1, Invariance, PTL

-----------------------------------------------------------------------------
(* Where no read fails.  The reads to come, and the bytes once they have. *)
LEMMA ComingIs ==
  \A r : r \in Coming <=> \/ r \in jobs \/ r \in ring
                          \/ \E p \in Parities : /\ pf[p].inflight \/ Listing(p)
                                                 /\ r \in pf[p].reads
  BY DEF Coming, Flying

LEMMA HomeIs ==
  ASSUME IInv, ReadInv
  PROVE  /\ \A r \in Coming : r \in Reads /\ r = <<r[1], r[2]>> /\ r[1] \in Slots
                              /\ r[2] \in Keys /\ key[r[1]] = r[2]
         /\ \A p \in Parities : \A r \in pf[p].reads : /\ r \in Reads /\ r[1] \in Slots
                                                       /\ r[2] \in Keys /\ r = <<r[1], r[2]>>
                                                       /\ key[r[1]] = r[2]
  <1>1. \A r \in Reads : r = <<r[1], r[2]>> /\ r[1] \in Slots /\ r[2] \in Keys
    BY DEF Reads
  <1>2. ReadT /\ SetInv
    BY DEF IInv, Types
  <1>3. \A p \in Parities : pf[p].reads \in SUBSET Reads
    BY <1>2, OwnedIs
  <1>4. \A p \in Parities : \A r \in pf[p].reads : key[r[1]] = r[2]
    BY <1>2 DEF SetInv, ReadInv, Lost
  <1>5. \A r \in jobs \cup ring : r \in Reads /\ key[r[1]] = r[2]
    BY <1>2 DEF ReadInv, ReadT
  <1> QED
    BY <1>1, <1>3, <1>4, <1>5, ComingIs

LEMMA LandedHome ==
  ASSUME ReadT, NEW R \in SUBSET Reads, \A r \in R : key[r[1]] = r[2], NEW c, c = Landed(R, R)
  PROVE  /\ \A s \in Slots : c[s] = IF \E r \in R : r[1] = s THEN key[s] ELSE content[s]
         /\ R = {} => c = content
  <1>1. c = [s \in Slots |->
               IF \E r \in R : r[1] = s
               THEN LET r == CHOOSE x \in R : x[1] = s IN IF r \in R THEN r[2] ELSE None
               ELSE content[s]]
    BY DEF Landed
  <1>2. ASSUME NEW s \in Slots
        PROVE  c[s] = IF \E r \in R : r[1] = s THEN key[s] ELSE content[s]
    <2>1. CASE \E r \in R : r[1] = s
      <3>1. PICK x : x = CHOOSE z \in R : z[1] = s
        OBVIOUS
      <3>2. x \in R /\ x[1] = s
        BY <2>1, <3>1
      <3>3. c[s] = IF x \in R THEN x[2] ELSE None
        BY <1>1, <2>1, <3>1
      <3> QED
        BY <2>1, <3>2, <3>3
    <2>2. CASE ~\E r \in R : r[1] = s
      BY <1>1, <2>2
    <2> QED
      BY <2>1, <2>2
  <1>3. ASSUME R = {}
        PROVE  c = content
    <2>1. \A s \in Slots : c[s] = content[s]
      BY <1>2, <1>3
    <2>2. content = [s \in Slots |-> content[s]]
      BY DEF ReadT
    <2>3. c = [s \in Slots |-> c[s]]
      BY <1>1
    <2> QED
      BY <2>1, <2>2, <2>3
  <1> QED
    BY <1>2, <1>3

LEMMA NoneFails ==
  ASSUME Unfailing, faults = 0, NEW ok \in BOOLEAN, NEW may, Ends(ok, may)
  PROVE  ok /\ faults' = 0
  BY DEF Unfailing, Ends

LEMMA CollectClean ==
  ASSUME Unfailing, IInv, ReadInv, faults = 0, NEW P \in SUBSET Parities, NEW F, pf_collect(P, F)
  PROVE  /\ where' = where /\ key' = key /\ faults' = 0
         /\ \A s \in Slots : content'[s] = IF \E p \in P : pf[p].inflight /\ s \in Ours(p)
                                           THEN key[s] ELSE content[s]
         /\ (\A p \in P : pf[p].reads = {}) => content' = content
  <1>1. MapOK /\ ReadT
    BY DEF IInv, Types
  <1>2. F \in SUBSET Parities
    BY DEF pf_collect
  <1>3. IsFiniteSet(F) /\ Cardinality(F) \in Nat
    <2>1. IsFiniteSet(Parities)
      <3>1. PICK a \in Int : a = 0
        OBVIOUS
      <3>2. PICK b \in Int : b = 1
        OBVIOUS
      <3>3. IsFiniteSet(a .. b)
        BY FS_Interval
      <3> QED
        BY <3>1, <3>2, <3>3 DEF Parities
    <2> QED
      BY <1>2, <2>1, FS_Subset, FS_CardinalityType
  <1>4. Cardinality(F) = 0 /\ faults' = 0
    BY <1>3 DEF pf_collect, Unfailing
  <1>5. F = {}
    BY <1>3, <1>4, FS_EmptySet
  <1>6. PICK due \in SUBSET Parities : due = {p \in P : pf[p].inflight}
    OBVIOUS
  <1>7. PICK R : R = ReadsOf(due)
    OBVIOUS
  <1>8. PICK S : S = SlotsOf(ReadsOf(F))
    OBVIOUS
  <1>9. S = {}
    BY <1>5, <1>8 DEF SlotsOf, ReadsOf
  <1>10. due \ F = due
    BY <1>5
  <1>11. /\ content' = Landed(R, R)
         /\ where' = [k \in Keys |-> IF where[k] \in S THEN None ELSE where[k]]
         /\ key' = [s \in Slots |-> IF s \in S THEN None ELSE key[s]]
    <2>1. /\ content' = Landed(ReadsOf(due), ReadsOf(due \ F))
          /\ where' = [k \in Keys |-> IF where[k] \in S THEN None ELSE where[k]]
          /\ key' = [s \in Slots |-> IF s \in S THEN None ELSE key[s]]
      BY <1>6, <1>8 DEF pf_collect
    <2> QED
      BY <1>7, <1>10, <2>1
  <1>12. where' = where /\ key' = key
    BY <1>1, <1>9, <1>11 DEF MapOK, MapT
  <1>13. \A r : r \in R <=> \E p \in P : pf[p].inflight /\ r \in pf[p].reads
    BY <1>6, <1>7 DEF ReadsOf
  <1>14. R \in SUBSET Reads /\ \A r \in R : key[r[1]] = r[2]
    BY <1>13, HomeIs
  <1>15. \A s : (\E r \in R : r[1] = s) <=> \E p \in P : pf[p].inflight /\ s \in Ours(p)
    BY <1>13 DEF Ours, SlotsOf
  <1>16. PICK c : c = Landed(R, R)
    OBVIOUS
  <1>17. /\ \A s \in Slots : c[s] = IF \E r \in R : r[1] = s THEN key[s] ELSE content[s]
         /\ R = {} => c = content
    BY <1>1, <1>14, <1>16, LandedHome
  <1>18. (\A p \in P : pf[p].reads = {}) => R = {}
    BY <1>13
  <1> QED
    BY <1>4, <1>11, <1>12, <1>15, <1>16, <1>17, <1>18

(* What was found for a request under way is not to be read for another layer. *)
LEMMA GotClear ==
  ASSUME IInv, ReadInv, Serving, NEW j \in 1 .. Len(call.got), call.got[j] # None,
         NEW p \in Parities, pf[p].inflight
  PROVE  call.got[j] \notin Ours(p)
  <1> SUFFICES ASSUME call.got[j] \in Ours(p)
               PROVE  FALSE
    OBVIOUS
  <1>1. PICK r \in pf[p].reads : r[1] = call.got[j]
    BY DEF Ours, SlotsOf
  <1>2. key[r[1]] = r[2] /\ r[2][1] = LayerOf(p)
    BY HomeIs DEF IInv, SetInv
  <1>3. key[r[1]] = Asked(j)
    BY <1>1 DEF IInv, GotInv
  <1>4. r[2][1] = call.layer
    BY <1>2, <1>3 DEF Asked
  <1>5. LayerOf(p) = pf[p].layer
    BY DEF LayerOf, Listing, Serving, Choosing
  <1>6. pf[p].layer > call.layer
    BY DEF IInv, AheadInv
  <1>7. call.layer \in Nat
    BY CallFields, Constants DEF IInv, Types
  <1>8. pf[p].layer = call.layer
    BY <1>2, <1>4, <1>5
  <1> QED
    BY <1>6, <1>7, <1>8

(* Steps that move no slot, and no read. *)
LEMMA NQuiet ==
  ASSUME NInv, Still, content' = content, jobs' = jobs, ring' = ring, pending' = pending,
         via_ring' = via_ring, faults' = faults, copy' = copy,
         call'.layer = call.layer, call'.rest = call.rest,
         \/ at' = at /\ lease' = lease /\ (Serving => call' = call)
         \/ at = "idle" /\ at' = "djoin" /\ lease' = {},
         warm_over => warm_over', warm = <<>> => warm' = <<>>
  PROVE  NInv'
  <1>1. ReadInv /\ BytesInv /\ LeaseInv /\ OrderInv /\ CopyInv /\ faults = 0
    BY DEF NInv
  <1>2. key' = key /\ where' = where /\ lru' = lru /\ pf' = pf /\ used' = used
    BY DEF Still
  <1>3. /\ \A p \in Parities : (Listing(p)' <=> Listing(p)) /\ (Lost(p)' <=> Lost(p))
        /\ Serving' <=> Serving
    BY <1>2 DEF Listing, Ahead, Lost, Serving, Choosing
  <1>4. Coming' = Coming
    BY <1>2, <1>3 DEF Coming, Flying
  <1>5. ReadInv'
    BY <1>1, <1>2, <1>3 DEF ReadInv
  <1>6. BytesInv'
    <2>1. \A s \in Slots : key'[s] # None => content'[s] = key'[s] \/ <<s, key'[s]>> \in Coming'
      BY <1>1, <1>2, <1>4 DEF BytesInv
    <2>2. Serving => call' = call
      BY DEF Serving, Choosing
    <2> QED
      BY <1>1, <1>3, <2>1, <2>2 DEF BytesInv
  <1>7. lease' \subseteq lease
    OBVIOUS
  <1>8. LeaseInv'
    BY <1>1, <1>2, <1>4, <1>7 DEF LeaseInv, SlotsOf
  <1>9. OrderInv'
    BY <1>1, <1>2, <1>3, <1>7 DEF OrderInv, Kept, SlotsOf
  <1>10. CopyInv'
    BY <1>1, <1>2 DEF CopyInv
  <1> QED
    BY <1>1, <1>5, <1>6, <1>8, <1>9, <1>10 DEF NInv

LEMMA NAlone ==
  ASSUME IInv, NInv, WarmEnd \/ WarmSkip \/ destroy \/ PfSkip \/ UNCHANGED vars
  PROVE  NInv'
  <1>1. /\ Still /\ content' = content /\ jobs' = jobs /\ ring' = ring /\ pending' = pending
        /\ via_ring' = via_ring /\ faults' = faults /\ copy' = copy
    BY DEF WarmEnd, WarmSkip, destroy, PfSkip, vars, Still, mapVars, passVars, readVars,
           batchVars, callVars, warmVars
  <1>2. CallT /\ call \in Calls
    BY DEF IInv, Types, CallT
  <1>3. CASE WarmEnd
    <2>1. at' = at /\ call' = call /\ lease' = lease /\ warm_over' = TRUE /\ warm' = warm
      BY <1>3 DEF WarmEnd, callVars
    <2> QED
      BY <1>1, <2>1, NQuiet
  <1>4. CASE WarmSkip
    <2>1. at' = at /\ call' = call /\ lease' = lease /\ warm_over' = warm_over /\ warm # <<>>
      BY <1>4 DEF WarmSkip, Warming, callVars
    <2> QED
      BY <1>1, <2>1, NQuiet
  <1>5. CASE destroy
    <2>1. /\ at = "idle" /\ at' = "djoin" /\ call' = call /\ lease' = {}
          /\ warm_over' = warm_over /\ warm' = warm
      BY <1>5 DEF destroy, Goto
    <2> QED
      BY <1>1, <2>1, NQuiet
  <1>6. CASE PfSkip
    <2>1. /\ at = "pfloop" /\ at' = at /\ lease' = lease /\ warm_over' = warm_over /\ warm' = warm
          /\ call' = [call EXCEPT !.i = @ + 1]
      BY <1>6 DEF PfSkip, warmVars
    <2>2. call'.layer = call.layer /\ call'.rest = call.rest
      BY <1>2, <2>1 DEF Calls
    <2>3. ~Serving
      BY <2>1 DEF Serving, Choosing
    <2> QED
      BY <1>1, <2>1, <2>2, <2>3, NQuiet
  <1>7. CASE UNCHANGED vars
    <2>1. at' = at /\ call' = call /\ lease' = lease /\ warm_over' = warm_over /\ warm' = warm
      BY <1>7 DEF vars, callVars, warmVars
    <2> QED
      BY <1>1, <2>1, NQuiet
  <1> QED
    BY <1>3, <1>4, <1>5, <1>6, <1>7

(* With as many slots in use as there are experts, every expert has one. *)
LEMMA AllIn ==
  ASSUME MapOK, filled >= Cardinality(Keys)
  PROVE  \A k \in Keys : where[k] # None
  <1>1. /\ filled = Cardinality(Full) /\ IsFiniteSet(Full) /\ IsFiniteSet(Keys)
        /\ Cardinality(Full) \in Nat /\ Cardinality(Keys) \in Nat
    BY ListIs, Constants, FS_CardinalityType DEF MapOK, MapInv
  <1> DEFINE f == [s \in Full |-> key[s]]
  <1>2. f \in [Full -> Keys]
    BY ListIs DEF Full
  <1>3. \A s, t \in Full : f[s] = f[t] => s = t
    BY <1>2 DEF MapOK, MapInv, Full
  <1>4. f \in Injection(Full, Keys)
    BY <1>2, <1>3 DEF Injection, IsInjective
  <1> HIDE DEF f
  <1>5. Cardinality(Full) = Cardinality(Keys)
    <2>1. Cardinality(Full) <= Cardinality(Keys)
      BY <1>1, <1>4, FS_Injection
    <2> QED
      BY <1>1, <2>1
  <1>6. f \in Surjection(Full, Keys)
    BY <1>1, <1>4, <1>5, FS_Injection
  <1> USE DEF f
  <1>7. \A k \in Keys : \E s \in Full : key[s] = k
    BY <1>6 DEF Surjection
  <1> QED
    BY <1>7, Constants DEF MapOK, MapInv, Full

LEMMA NResident ==
  ASSUME IInv, NInv, resident
  PROVE  NInv'
  <1>1. /\ Still /\ content' = content /\ jobs' = jobs /\ ring' = ring /\ pending' = pending
        /\ via_ring' = via_ring /\ faults' = faults /\ copy' = content /\ at = "idle"
        /\ at' = at /\ call' = call /\ lease' = lease /\ warm_over' = warm_over /\ warm' = warm
        /\ part_complete
    BY DEF resident, Still, mapVars, passVars, readVars, batchVars, callVars
  <1>2. ReadInv /\ BytesInv /\ LeaseInv /\ OrderInv /\ faults = 0 /\ MapOK
    BY DEF NInv, IInv
  <1>3. key' = key /\ where' = where /\ lru' = lru /\ pf' = pf /\ used' = used
    BY <1>1 DEF Still
  <1>4. /\ \A p \in Parities : (Listing(p)' <=> Listing(p)) /\ (Lost(p)' <=> Lost(p))
        /\ ~Serving' /\ ~Serving
    BY <1>1, <1>3 DEF Listing, Ahead, Lost, Serving, Choosing
  <1>5. Coming' = Coming
    BY <1>1, <1>3, <1>4 DEF Coming, Flying
  <1>6. ReadInv'
    BY <1>1, <1>2, <1>3, <1>4 DEF ReadInv
  <1>7. BytesInv'
    BY <1>1, <1>2, <1>3, <1>4, <1>5 DEF BytesInv
  <1>8. LeaseInv'
    BY <1>1, <1>2, <1>3, <1>5 DEF LeaseInv
  <1>9. OrderInv'
    BY <1>1, <1>2, <1>3, <1>4 DEF OrderInv, Kept
  <1>10. CopyInv'
    <2>1. jobs = {} /\ ring = {} /\ warm_over
      BY <1>1, <1>2 DEF ReadInv, part_complete
    <2>2. \A p \in Parities : pf[p].reads = {}
      BY <1>1 DEF part_complete, Parities
    <2>3. \A k \in Keys : where[k] # None
      BY <1>1, <1>2, AllIn DEF part_complete
    <2> QED
      BY <1>1, <1>3, <2>1, <2>2, <2>3 DEF CopyInv
  <1> QED
    BY <1>1, <1>2, <1>6, <1>7, <1>8, <1>9, <1>10 DEF NInv

-----------------------------------------------------------------------------
(* The reads of a request started, waited for, and its slots given. *)
LEMMA NStart ==
  ASSUME Unfailing, IInv, NInv, NEW ok \in BOOLEAN, Start(ok)
  PROVE  NInv'
  <1>1. /\ at = "start" /\ at' = "begun" /\ call' = call /\ lease' = lease /\ content' = content
        /\ key' = key /\ where' = where /\ lru' = lru /\ used' = used /\ pf' = pf
        /\ warm_over' = warm_over /\ warm' = warm /\ copy' = copy
        /\ pending' = (jobs # {} /\ ~via_ring')
    BY DEF Start, Goto, mapVars, warmVars
  <1>2. ReadInv /\ BytesInv /\ LeaseInv /\ OrderInv /\ CopyInv /\ faults = 0
    BY DEF NInv
  <1>3. ring = {}
    BY <1>1, <1>2 DEF ReadInv
  <1>4. \/ via_ring' /\ ring' = jobs /\ jobs' = {} /\ faults' = 0
        \/ ~via_ring' /\ ring' = {} /\ jobs' = jobs /\ faults' = 0
    <2>1. CASE via_ring'
      <3>1. Ends(ok, MainFaults) /\ ring' = ring \cup jobs /\ jobs' = {}
        BY <2>1 DEF Start
      <3>2. faults' = 0
        BY <1>2, <3>1, NoneFails
      <3> QED
        BY <1>3, <2>1, <3>1, <3>2
    <2>2. CASE ~via_ring'
      BY <1>2, <1>3, <2>2 DEF Start
    <2> QED
      BY <2>1, <2>2
  <1>5. jobs' \cup ring' = jobs \cup ring
    BY <1>3, <1>4
  <1>6. Serving /\ Serving' /\ \A p \in Parities : ~Listing(p) /\ ~Listing(p)' /\ (Lost(p)' <=> Lost(p))
    BY <1>1 DEF Serving, Choosing, Listing, Lost
  <1>7. Coming' = Coming
    BY <1>1, <1>5, <1>6 DEF Coming, Flying
  <1>8. ReadInv'
    <2>1. \A r \in jobs' \cup ring' : r[1] \in used' /\ key'[r[1]] = r[2]
      BY <1>1, <1>2, <1>5 DEF ReadInv
    <2>2. ring' # {} => via_ring'
      BY <1>4
    <2>3. pending' => ~via_ring' /\ jobs' # {}
      BY <1>1, <1>4
    <2>4. ~pending' => jobs' = {}
      BY <1>1, <1>4
    <2> QED
      BY <1>1, <1>2, <1>6, <2>1, <2>2, <2>3, <2>4 DEF ReadInv
  <1>9. BytesInv'
    BY <1>1, <1>2, <1>5, <1>6, <1>7 DEF BytesInv
  <1>10. LeaseInv'
    BY <1>1, <1>2, <1>7 DEF LeaseInv
  <1>11. OrderInv'
    BY <1>1, <1>2, <1>6 DEF OrderInv, Kept
  <1>12. CopyInv'
    BY <1>1, <1>2, <1>4 DEF CopyInv
  <1> QED
    BY <1>4, <1>8, <1>9, <1>10, <1>11, <1>12 DEF NInv

LEMMA NCoordRead ==
  ASSUME Unfailing, IInv, NInv, NEW ok \in BOOLEAN, NEW D, CoordRead(ok, D)
  PROVE  NInv'
  <1>1. /\ pending /\ ~pending' /\ jobs' = {} /\ ring' = ring /\ via_ring' = via_ring
        /\ at' = at /\ call' = call /\ lease' = lease
        /\ key' = key /\ where' = where /\ lru' = lru /\ used' = used /\ pf' = pf
        /\ warm_over' = warm_over /\ warm' = warm /\ copy' = copy
        /\ Ends(ok, MainFaults) /\ (ok => D = jobs) /\ content' = Landed(jobs, D)
    BY DEF CoordRead, mapVars, warmVars, callVars
  <1>2. ReadInv /\ BytesInv /\ LeaseInv /\ OrderInv /\ CopyInv /\ faults = 0
    BY DEF NInv
  <1>3. ok /\ faults' = 0
    BY <1>1, <1>2, NoneFails
  <1>4. at = "begun" /\ jobs # {} /\ ~via_ring /\ ring = {}
    BY <1>1, <1>2 DEF ReadInv
  <1>5. PICK c : c = Landed(jobs, jobs)
    OBVIOUS
  <1>6. \A s \in Slots : c[s] = IF \E r \in jobs : r[1] = s THEN key[s] ELSE content[s]
    <2>1. ReadT /\ jobs \in SUBSET Reads
      BY DEF IInv, Types, ReadT
    <2>2. \A r \in jobs : key[r[1]] = r[2]
      BY <1>2 DEF ReadInv
    <2> QED
      BY <1>5, <2>1, <2>2, LandedHome
  <1>7. content' = c
    BY <1>1, <1>3, <1>5
  <1>8. Serving /\ Serving' /\ \A p \in Parities : ~Listing(p) /\ ~Listing(p)' /\ (Lost(p)' <=> Lost(p))
    BY <1>1, <1>4 DEF Serving, Choosing, Listing, Lost
  <1>9. \A r \in Coming : r \in Coming' \/ r \in jobs
    BY <1>1, <1>8 DEF Coming, Flying
  <1>10. Coming' \subseteq Coming
    BY <1>1, <1>8 DEF Coming, Flying
  <1>11. ReadInv'
    BY <1>1, <1>2, <1>4, <1>8 DEF ReadInv
  <1>12. BytesInv'
    <2>1. ASSUME NEW s \in Slots, key'[s] # None
          PROVE  content'[s] = key'[s] \/ <<s, key'[s]>> \in Coming'
      <3>1. content[s] = key[s] \/ <<s, key[s]>> \in Coming
        BY <1>1, <1>2, <2>1 DEF BytesInv
      <3>2. CASE \E r \in jobs : r[1] = s
        BY <1>1, <1>6, <1>7, <3>2
      <3>3. CASE ~\E r \in jobs : r[1] = s
        <4>1. <<s, key[s]>> \notin jobs
          BY <3>3
        <4> QED
          BY <1>1, <1>6, <1>7, <1>9, <3>1, <3>3, <4>1
      <3> QED
        BY <3>2, <3>3
    <2>2. SlotsOf(jobs' \cup ring') \subseteq SlotsOf(jobs \cup ring)
      BY <1>1 DEF SlotsOf
    <2> QED
      BY <1>1, <1>2, <1>8, <2>1, <2>2 DEF BytesInv
  <1>13. LeaseInv'
    BY <1>1, <1>2, <1>10 DEF LeaseInv, SlotsOf
  <1>14. OrderInv'
    BY <1>1, <1>2, <1>8 DEF OrderInv, Kept
  <1>15. CopyInv'
    BY <1>1, <1>2, <1>4 DEF CopyInv
  <1> QED
    BY <1>3, <1>11, <1>12, <1>13, <1>14, <1>15 DEF NInv

LEMMA NReturn ==
  ASSUME IInv, NInv, at = "begun", NEW rc, Return(rc), ring' = {}, jobs = {}, faults' = 0,
         \A s \in Slots : content'[s] = IF \E r \in ring : r[1] = s THEN key[s] ELSE content[s],
         ring = {} => content' = content
  PROVE  NInv'
  <1>1. /\ key' = key /\ where' = where /\ lru' = lru /\ used' = used /\ pf' = pf
        /\ jobs' = {} /\ pending' = pending
        /\ warm_over' = warm_over /\ warm' = warm /\ copy' = copy
        /\ lease' = IF rc = 0 THEN lease \cup Given ELSE {}
    BY DEF Return, mapVars, warmVars
  <1>2. ReadInv /\ BytesInv /\ LeaseInv /\ OrderInv /\ CopyInv
    BY DEF NInv
  <1>3. CallT /\ ~pending
    BY <1>2 DEF IInv, Types, ReadInv
  <1>4. /\ at' \in {"idle", "again"}
        /\ call.rest = <<>> => at' = "idle" /\ call'.rest = <<>>
    <2>1. CASE rc = 0 /\ call.rest # <<>>
      BY <2>1 DEF Return, Goto
    <2>2. CASE ~(rc = 0 /\ call.rest # <<>>)
      <3>1. Done("idle")
        BY <2>2 DEF Return
      <3> QED
        BY <1>3, <3>1, DoneIs
    <2> QED
      BY <2>1, <2>2
  <1>5. /\ Serving /\ ~Serving'
        /\ \A p \in Parities : ~Listing(p) /\ ~Listing(p)' /\ (Lost(p)' <=> Lost(p))
    BY <1>1, <1>4 DEF Serving, Choosing, Listing, Lost
  <1>6. \A r : r \in Coming' <=> \E p \in Parities : pf[p].inflight /\ r \in pf[p].reads
    BY <1>1, <1>5 DEF Coming, Flying
  <1>7. \A r \in Coming : r \in Coming' \/ r \in ring
    BY <1>5, <1>6, ComingIs
  <1>8. Coming' \subseteq Coming
    BY <1>6, ComingIs
  <1>9. ReadInv'
    BY <1>1, <1>2, <1>3, <1>4, <1>5 DEF ReadInv
  <1>10. BytesInv'
    <2>1. ASSUME NEW s \in Slots, key'[s] # None
          PROVE  content'[s] = key'[s] \/ <<s, key'[s]>> \in Coming'
      <3>1. content[s] = key[s] \/ <<s, key[s]>> \in Coming
        BY <1>1, <1>2, <2>1 DEF BytesInv
      <3>2. CASE \E r \in ring : r[1] = s
        BY <1>1, <3>2
      <3>3. CASE ~\E r \in ring : r[1] = s
        <4>1. <<s, key[s]>> \notin ring
          BY <3>3
        <4> QED
          BY <1>1, <1>7, <3>1, <3>3, <4>1
      <3> QED
        BY <3>2, <3>3
    <2> QED
      BY <1>5, <2>1 DEF BytesInv
  <1>11. \A q \in Given : /\ q[1] \in Slots /\ q[1] \in used /\ key[q[1]] = q[2]
                          /\ \A p \in Parities : pf[p].inflight => q[1] \notin Ours(p)
    <2> SUFFICES ASSUME NEW q \in Given
                 PROVE  /\ q[1] \in Slots /\ q[1] \in used /\ key[q[1]] = q[2]
                        /\ \A p \in Parities : pf[p].inflight => q[1] \notin Ours(p)
      OBVIOUS
    <2>1. PICK j \in 1 .. Len(call.ids) : q = <<call.got[j], Asked(j)>>
      BY <1>3, CallFields DEF Given, Asked
    <2>2. j \in 1 .. Len(call.got)
      BY <1>5, <2>1 DEF IInv, CallInv
    <2>3. call.got[j] # None
      BY <2>2 DEF IInv, GotInv
    <2>4. call.got[j] \in used /\ key[call.got[j]] = Asked(j)
      BY <1>5, <2>2, <2>3 DEF IInv, GotInv
    <2>5. \A p \in Parities : pf[p].inflight => call.got[j] \notin Ours(p)
      BY <1>2, <1>5, <2>2, <2>3, GotClear
    <2>6. call.got[j] \in Slots
      BY <1>3, <2>2, <2>3, CallFields
    <2>7. q[1] = call.got[j] /\ q[2] = Asked(j)
      BY <2>1
    <2> QED
      BY <2>4, <2>5, <2>6, <2>7
  <1>12. \A q \in lease' : q \in lease \/ q \in Given
    BY <1>1
  <1>13. LeaseInv'
    <2>1. ASSUME NEW q \in lease'
          PROVE  q[1] \in Slots /\ key'[q[1]] = q[2] /\ q[1] \notin SlotsOf(Coming')
      <3>1. CASE q \in lease
        BY <1>1, <1>2, <1>8, <3>1 DEF LeaseInv, SlotsOf
      <3>2. CASE q \in Given
        <4>1. q[1] \notin SlotsOf(Coming')
          BY <1>6, <1>11, <3>2 DEF SlotsOf, Ours
        <4> QED
          BY <1>1, <1>11, <3>2, <4>1
      <3> QED
        BY <1>12, <3>1, <3>2
    <2>2. WarmOrder = <<>> => SlotsOf(lease') \subseteq used' /\ warm' = <<>>
      BY <1>1, <1>2, <1>11, <1>12 DEF LeaseInv, SlotsOf
    <2>3. WarmOrder # <<>> => call'.rest = <<>> /\ at' = "idle"
      BY <1>2, <1>4 DEF LeaseInv
    <2> QED
      BY <2>1, <2>2, <2>3 DEF LeaseInv, SlotsOf
  <1>14. OrderInv'
    <2>1. Kept' \subseteq Kept
      <3>1. SlotsOf(lease') \subseteq SlotsOf(lease) \cup used
        BY <1>11, <1>12 DEF SlotsOf
      <3>2. Kept' = SlotsOf(lease') /\ Kept = SlotsOf(lease) \cup used
        BY <1>5 DEF Kept, SlotsOf
      <3> QED
        BY <3>1, <3>2
    <2> QED
      BY <1>1, <1>2, <2>1 DEF OrderInv
  <1>15. CopyInv'
    BY <1>1, <1>2 DEF CopyInv
  <1> QED
    BY <1>9, <1>10, <1>13, <1>14, <1>15 DEF NInv

LEMMA NFinish ==
  ASSUME Unfailing, IInv, NInv, NEW ok \in BOOLEAN, NEW D, FinishRing(ok, D) \/ FinishPool
  PROVE  NInv'
  <1>1. ReadInv /\ faults = 0
    BY DEF NInv
  <1>2. CASE FinishRing(ok, D)
    <2>1. /\ at = "begun" /\ via_ring /\ (ok => D = ring) /\ Ends(ok, MainFaults)
          /\ content' = Landed(ring, D) /\ ring' = {}
          /\ \E rc : Return(rc)
      BY <1>2 DEF FinishRing
    <2>2. ok /\ faults' = 0
      BY <1>1, <2>1, NoneFails
    <2>3. jobs = {}
      BY <1>1, <2>1 DEF ReadInv
    <2>4. PICK c : c = Landed(ring, ring)
      OBVIOUS
    <2>5. /\ \A s \in Slots : c[s] = IF \E r \in ring : r[1] = s THEN key[s] ELSE content[s]
          /\ ring = {} => c = content
      <3>1. ReadT /\ ring \in SUBSET Reads
        BY DEF IInv, Types, ReadT
      <3>2. \A r \in ring : key[r[1]] = r[2]
        BY <1>1 DEF ReadInv
      <3> QED
        BY <2>4, <3>1, <3>2, LandedHome
    <2>6. content' = c
      BY <2>1, <2>2, <2>4
    <2>7. PICK rc : Return(rc)
      BY <2>1
    <2> QED
      BY <2>1, <2>2, <2>3, <2>5, <2>6, <2>7, NReturn
  <1>3. CASE FinishPool
    <2>1. /\ at = "begun" /\ ~via_ring /\ ~pending /\ content' = content /\ ring' = ring
          /\ faults' = faults /\ \E rc : Return(rc)
      BY <1>3 DEF FinishPool
    <2>2. ring = {} /\ jobs = {}
      BY <1>1, <2>1 DEF ReadInv
    <2>3. PICK rc : Return(rc)
      BY <2>1
    <2>4. \A s \in Slots : content'[s] = IF \E r \in ring : r[1] = s THEN key[s] ELSE content[s]
      BY <2>1, <2>2
    <2> QED
      BY <1>1, <2>1, <2>2, <2>3, <2>4, NReturn
  <1> QED
    BY <1>2, <1>3

-----------------------------------------------------------------------------
(* The loops of a request. *)
LEMMA NHit ==
  ASSUME IInv, NInv, Hit
  PROVE  NInv'
  <1>1. /\ at = "hits" /\ where' = where /\ key' = key /\ filled' = filled
        /\ content' = content /\ jobs' = jobs /\ ring' = ring /\ pf' = pf
        /\ pending' = pending /\ via_ring' = via_ring /\ lease' = lease /\ faults' = faults
        /\ warm' = warm /\ warm_over' = warm_over /\ copy' = copy
    BY DEF Hit, readVars, batchVars, warmVars
  <1>2. /\ ReadInv /\ BytesInv /\ LeaseInv /\ OrderInv /\ CopyInv /\ faults = 0
        /\ MapOK /\ CallT /\ CallInv
    BY DEF NInv, IInv, Types
  <1>3. Serving /\ Choosing
    BY <1>1 DEF Serving, Choosing
  <1>4. PICK i \in Nat : i = call.i
    BY <1>2, CallFields
  <1>5. i \in 1 .. Len(call.ids) /\ Len(call.got) = i - 1 /\ Asked(i) \in Keys
    BY <1>1, <1>2, <1>3, <1>4, CallFields DEF CallInv
  <1>6. PICK s : s = where[Asked(i)]
    OBVIOUS
  <1>7. /\ s \in Slots \cup {None}
        /\ s # None => s \in Slots /\ key[s] = Asked(i) /\ key[s] # None
    BY <1>2, <1>5, <1>6, Constants DEF MapOK, MapT, MapInv
  <1>8. /\ IF s = None THEN UNCHANGED <<lru, llist, used>> ELSE touch(s)
        /\ Advance("hits", "settle", s)
    BY <1>4, <1>6 DEF Hit, AskedKey, Asked
  <1>9. /\ call'.rest = call.rest /\ at' \in {"settle", "hits"}
        /\ Len(call'.got) = i /\ call'.got[i] = s
        /\ \A j \in 1 .. (i - 1) : call'.got[j] = call.got[j]
        /\ call'.ready = IF s # None THEN call.ready \cup {i} ELSE call.ready
    BY <1>2, <1>4, <1>5, <1>7, <1>8, AdvanceHit
  <1>10. /\ Serving' /\ jobs = {} /\ ring = {}
         /\ \A p \in Parities : ~Listing(p) /\ ~Listing(p)' /\ (Lost(p)' <=> Lost(p))
    BY <1>1, <1>2, <1>9 DEF Serving, Choosing, Listing, Lost, ReadInv
  <1>11. Coming' = Coming
    BY <1>1, <1>10 DEF Coming, Flying
  <1>12. /\ used' = IF s = None THEN used ELSE used \cup {s}
         /\ Range(lru)' = Range(lru)
         /\ \A x, y \in Range(lru) : key[y] # None \/ (x # s /\ ~Before(lru, x, y)) \/ Before(lru', x, y)
    <2>1. CASE s = None
      <3>1. lru' = lru /\ used' = used
        BY <1>8, <2>1
      <3>2. s \notin Range(lru)
        BY <1>2, <2>1, ListIs, Constants
      <3> QED
        BY <2>1, <3>1, <3>2
    <2>2. CASE s # None
      <3>1. /\ lru' = PutIn(lru, s, TRUE) /\ used' = used \cup {s}
            /\ llist' = [llist EXCEPT ![key[s][1]] = PutIn(@, s, TRUE)]
        BY <1>8, <2>2 DEF touch, PutIn
      <3>2. /\ Range(lru)' = Range(lru)
            /\ \A x, y \in Range(lru) : y # s /\ (x = s \/ Before(lru, x, y)) => Before(lru', x, y)
        BY <1>1, <1>2, <1>7, <2>2, <3>1, MovedKeeps
      <3> QED
        BY <1>7, <2>2, <3>1, <3>2
    <2> QED
      BY <2>1, <2>2
  <1>13. ReadInv'
    BY <1>1, <1>2, <1>9, <1>10 DEF ReadInv
  <1>14. BytesInv'
    <2>1. \A x \in Slots : key'[x] # None => content'[x] = key'[x] \/ <<x, key'[x]>> \in Coming'
      BY <1>1, <1>2, <1>11 DEF BytesInv
    <2>2. SlotsOf(jobs' \cup ring') = {}
      BY <1>1, <1>10 DEF SlotsOf
    <2>3. ASSUME NEW j \in call'.ready
          PROVE  j \in 1 .. Len(call'.got) /\ call'.got[j] # None
      <3>1. CASE j \in call.ready
        <4>1. j \in 1 .. (i - 1) /\ call.got[j] # None
          BY <1>2, <1>3, <1>5, <3>1 DEF BytesInv
        <4> QED
          BY <1>4, <1>9, <4>1
      <3>2. CASE j \notin call.ready
        <4>1. j = i /\ s # None
          BY <1>9, <2>3, <3>2
        <4> QED
          BY <1>5, <1>9, <4>1
      <3> QED
        BY <3>1, <3>2
    <2> QED
      BY <2>1, <2>2, <2>3 DEF BytesInv
  <1>15. LeaseInv'
    BY <1>1, <1>2, <1>9, <1>11, <1>12 DEF LeaseInv
  <1>16. OrderInv'
    <2>1. \A x \in Kept' : x \in Kept \/ x = s
      BY <1>1, <1>3, <1>12 DEF Kept
    <2> QED
      BY <1>1, <1>2, <1>12, <2>1 DEF OrderInv
  <1>17. CopyInv'
    BY <1>1, <1>2 DEF CopyInv
  <1> QED
    BY <1>1, <1>2, <1>13, <1>14, <1>15, <1>16, <1>17 DEF NInv

LEMMA NFound ==
  ASSUME IInv, NInv, Found
  PROVE  NInv'
  <1>1. /\ Still /\ at = "loads" /\ content' = content /\ jobs' = jobs /\ ring' = ring
        /\ pending' = pending /\ via_ring' = via_ring /\ lease' = lease /\ faults' = faults
        /\ warm' = warm /\ warm_over' = warm_over /\ copy' = copy
    BY DEF Found, Still, mapVars, passVars, readVars, batchVars, warmVars
  <1>2. /\ ReadInv /\ BytesInv /\ LeaseInv /\ OrderInv /\ CopyInv /\ faults = 0
        /\ MapOK /\ CallT /\ CallInv
    BY DEF NInv, IInv, Types
  <1>3. Choosing /\ Serving
    BY <1>1 DEF Choosing, Serving
  <1>4. PICK i \in Nat : i = call.i
    BY <1>2, CallFields
  <1>5. /\ i \in 1 .. Len(call.ids) /\ Len(call.got) = Len(call.ids) /\ Asked(i) \in Keys
        /\ call.got[i] \in Slots \cup {None}
    BY <1>1, <1>2, <1>3, <1>4, CallFields DEF CallInv
  <1>6. PICK s : s = IF call.got[i] # None THEN call.got[i] ELSE where[Asked(i)]
    OBVIOUS
  <1>7. Advance("loads", "start", s) /\ s \in Slots \cup {None}
    BY <1>2, <1>4, <1>5, <1>6 DEF Found, AskedKey, Asked, MapOK, MapT
  <1>8. /\ call'.rest = call.rest /\ at' \in {"start", "loads"} /\ Len(call'.got) = Len(call.got)
        /\ \A j \in 1 .. Len(call.got) : call'.got[j] = IF j = i THEN s ELSE call.got[j]
        /\ call'.ready = call.ready
    BY <1>2, <1>4, <1>5, <1>7, AdvanceLoad
  <1>9. key' = key /\ where' = where /\ lru' = lru /\ pf' = pf /\ used' = used
    BY <1>1 DEF Still
  <1>10. /\ Serving'
         /\ \A p \in Parities : ~Listing(p) /\ ~Listing(p)' /\ (Lost(p)' <=> Lost(p))
    BY <1>1, <1>8, <1>9 DEF Serving, Choosing, Listing, Lost
  <1>11. Coming' = Coming
    BY <1>1, <1>9, <1>10 DEF Coming, Flying
  <1>12. ReadInv'
    BY <1>1, <1>2, <1>8, <1>9, <1>10 DEF ReadInv
  <1>13. BytesInv'
    <2>1. \A x \in Slots : key'[x] # None => content'[x] = key'[x] \/ <<x, key'[x]>> \in Coming'
      BY <1>1, <1>2, <1>9, <1>11 DEF BytesInv
    <2>2. ASSUME NEW j \in call'.ready
          PROVE  /\ j \in 1 .. Len(call'.got) /\ call'.got[j] # None
                 /\ call'.got[j] \notin SlotsOf(jobs' \cup ring')
      <3>1. /\ j \in 1 .. Len(call.got) /\ call.got[j] # None
            /\ call.got[j] \notin SlotsOf(jobs \cup ring)
        BY <1>2, <1>3, <1>8, <2>2 DEF BytesInv
      <3>2. call'.got[j] = call.got[j]
        BY <1>6, <1>8, <3>1
      <3> QED
        BY <1>1, <1>8, <3>1, <3>2
    <2> QED
      BY <2>1, <2>2 DEF BytesInv
  <1>14. LeaseInv'
    BY <1>1, <1>2, <1>8, <1>9, <1>11 DEF LeaseInv
  <1>15. OrderInv'
    BY <1>1, <1>2, <1>3, <1>9, <1>10 DEF OrderInv, Kept
  <1>16. CopyInv'
    BY <1>1, <1>2, <1>9 DEF CopyInv
  <1> QED
    BY <1>1, <1>2, <1>12, <1>13, <1>14, <1>15, <1>16 DEF NInv

(* While a call is under way no slot given before it is chosen again. *)
LEMMA LeaseFar ==
  ASSUME NInv, at # "idle", NEW v, v \notin used
  PROVE  \A q \in lease : q[1] # v
  <1>1. CASE WarmOrder = <<>>
    BY <1>1 DEF NInv, LeaseInv, SlotsOf
  <1>2. CASE WarmOrder # <<>>
    BY <1>2 DEF NInv, LeaseInv
  <1> QED
    BY <1>1, <1>2

LEMMA NMiss ==
  ASSUME IInv, NInv, Miss
  PROVE  NInv'
  <1>1. /\ at \in {"loads", "reload"} /\ call.got[call.i] = None /\ where[AskedKey] = None
        /\ content' = content /\ ring' = ring /\ pf' = pf
        /\ pending' = pending /\ via_ring' = via_ring /\ lease' = lease /\ faults' = faults
        /\ warm' = warm /\ warm_over' = warm_over /\ copy' = copy
    BY DEF Miss, batchVars, warmVars
  <1>2. /\ ReadInv /\ BytesInv /\ LeaseInv /\ OrderInv /\ CopyInv /\ faults = 0
        /\ MapOK /\ PassT /\ CallT /\ CallInv /\ ReadT /\ FlagInv /\ GotInv
    BY DEF NInv, IInv, Types
  <1>3. Choosing /\ Serving
    BY <1>1 DEF Choosing, Serving
  <1>4. PICK i \in Nat : i = call.i
    BY <1>2, CallFields
  <1>5. /\ i \in 1 .. Len(call.ids) /\ Len(call.got) = Len(call.ids) /\ call.got[i] = None
    BY <1>1, <1>2, <1>3, <1>4, CallFields DEF CallInv
  <1>6. PICK k \in Keys : k = Asked(i) /\ k = AskedKey
    BY <1>2, <1>4, <1>5, CallFields DEF Asked, AskedKey
  <1>7. PICK v : v = victim(used)
    OBVIOUS
  <1>8. v # None
    BY <1>7, MissFinds
  <1>9. v \in Range(lru) /\ v \in Slots /\ v \notin used /\ v \notin pf_flag
    BY <1>2, <1>7, <1>8, VictimIs
  <1>10. /\ Assign(v, k, TRUE) /\ used' = used \cup {v} /\ jobs' = jobs \cup {<<v, k>>}
         /\ Advance("loads", "start", v)
    BY <1>6, <1>7, <1>8 DEF Miss, load
  <1>11. /\ Given1(v, k)
         /\ \A x, y \in Range(lru) : y # v /\ (x = v \/ Before(lru, x, y)) => Before(lru', x, y)
    BY <1>1, <1>2, <1>6, <1>9, <1>10, AssignKeeps
  <1>12. /\ Range(lru)' = Range(lru) /\ key'[v] = k /\ k # None
         /\ \A s \in Slots : s # v => key'[s] = key[s]
    BY <1>2, <1>6, <1>9, <1>11, Constants DEF Given1, MapOK, MapT
  <1>13. /\ call'.rest = call.rest /\ at' \in {"start", "loads"} /\ Len(call'.got) = Len(call.got)
         /\ \A j \in 1 .. Len(call.got) : call'.got[j] = IF j = i THEN v ELSE call.got[j]
         /\ call'.ready = call.ready
    BY <1>2, <1>4, <1>5, <1>9, <1>10, AdvanceLoad
  <1>14. PICK job : job = <<v, k>>
    OBVIOUS
  <1>15. job[1] = v /\ job[2] = k /\ jobs' = jobs \cup {job} /\ ring = {}
    BY <1>1, <1>2, <1>10, <1>14 DEF ReadInv
  <1>16. \A p \in Parities : ~Listing(p) /\ ~Listing(p)'
    BY <1>1, <1>13 DEF Listing
  <1>17. Coming' = Coming \cup {job} /\ Serving'
    BY <1>1, <1>13, <1>15, <1>16 DEF Coming, Flying, Serving, Choosing
  <1>18. \A p \in Parities : \A r \in pf[p].reads : r[1] \in Slots /\ r[1] # v
    BY <1>2, <1>9, OwnedIs DEF FlagInv
  <1>19. \A p \in Parities : ~Lost(p)'
    BY <1>1, <1>2, <1>12, <1>18 DEF ReadInv, Lost
  <1>20. ReadInv'
    <2>1. \A r \in jobs : r[1] \in used /\ key[r[1]] = r[2] /\ r[1] \in Slots
      BY <1>2 DEF ReadInv, ReadT
    <2>2. \A r \in jobs' \cup ring' : r[1] \in used' /\ key'[r[1]] = r[2]
      BY <1>1, <1>9, <1>10, <1>12, <1>15, <2>1
    <2>3. ~pending'
      BY <1>1, <1>2 DEF ReadInv
    <2> QED
      BY <1>1, <1>13, <1>15, <1>19, <2>2, <2>3 DEF ReadInv
  <1>21. BytesInv'
    <2>1. ASSUME NEW s \in Slots, key'[s] # None
          PROVE  content'[s] = key'[s] \/ <<s, key'[s]>> \in Coming'
      <3>1. CASE s = v
        BY <1>12, <1>14, <1>17, <3>1
      <3>2. CASE s # v
        BY <1>1, <1>2, <1>12, <1>17, <2>1, <3>2 DEF BytesInv
      <3> QED
        BY <3>1, <3>2
    <2>2. ASSUME NEW j \in call'.ready
          PROVE  /\ j \in 1 .. Len(call'.got) /\ call'.got[j] # None
                 /\ call'.got[j] \notin SlotsOf(jobs' \cup ring')
      <3>1. /\ j \in 1 .. Len(call.got) /\ call.got[j] # None
            /\ call.got[j] \notin SlotsOf(jobs \cup ring)
        BY <1>2, <1>3, <1>13, <2>2 DEF BytesInv
      <3>2. call'.got[j] = call.got[j]
        BY <1>5, <1>13, <3>1
      <3>3. call.got[j] \in used
        BY <1>2, <1>3, <3>1 DEF GotInv
      <3>4. \A x : x \in SlotsOf(jobs' \cup ring') => x \in SlotsOf(jobs \cup ring) \/ x = v
        BY <1>1, <1>15 DEF SlotsOf
      <3> QED
        BY <1>9, <1>13, <3>1, <3>2, <3>3, <3>4
    <2> QED
      BY <2>1, <2>2 DEF BytesInv
  <1>22. LeaseInv'
    <2>1. ASSUME NEW q \in lease
          PROVE  q[1] \in Slots /\ key'[q[1]] = q[2] /\ q[1] \notin SlotsOf(Coming')
      <3>1. q[1] # v
        BY <1>1, <1>9, LeaseFar
      <3>2. q[1] \in Slots /\ key[q[1]] = q[2] /\ q[1] \notin SlotsOf(Coming)
        BY <1>2 DEF LeaseInv
      <3> QED
        BY <1>12, <1>15, <1>17, <3>1, <3>2 DEF SlotsOf
    <2> QED
      BY <1>1, <1>2, <1>10, <1>13, <2>1 DEF LeaseInv
  <1>23. OrderInv'
    <2>1. \A x \in Kept' : x \in Kept \/ x = v
      BY <1>1, <1>3, <1>10 DEF Kept
    <2>2. \A y \in Range(lru) : key'[y] = None => y # v /\ key[y] = None
      BY <1>2, <1>12, ListIs
    <2> QED
      BY <1>2, <1>11, <1>12, <2>1, <2>2 DEF OrderInv
  <1>24. CopyInv'
    <2>1. copy = None
      BY <1>1, <1>2, <1>6 DEF CopyInv
    <2> QED
      BY <1>1, <2>1 DEF CopyInv
  <1> QED
    BY <1>1, <1>2, <1>20, <1>21, <1>22, <1>23, <1>24 DEF NInv

-----------------------------------------------------------------------------
(* Reads ahead settled, or waited for. *)
LEMMA NSettle ==
  ASSUME Unfailing, IInv, NInv, NEW P \in SUBSET Parities, NEW F, pf_settle(P, F),
         lru' = lru, used' = used, jobs' = jobs, ring' = ring, pending' = pending,
         via_ring' = via_ring, warm' = warm, warm_over' = warm_over, copy' = copy,
         lease' \subseteq lease, \A q \in Parities : Listing(q)' => q \in P,
         \/ at \in {"settle", "loads"} /\ at' \in {"loads", "reload"} /\ call' = call
         \/ at = "pfdrop" /\ at' = "idle" /\ call'.rest = <<>>
         \/ at = "idle" /\ at' = "pfloop" /\ call'.rest = <<>> /\ (WarmOrder # <<>> => lease' = {})
  PROVE  NInv'
  <1>1. ReadInv /\ BytesInv /\ LeaseInv /\ OrderInv /\ CopyInv /\ faults = 0
    BY DEF NInv
  <1>2. /\ pf_collect(P, F) /\ pf' = [p \in Parities |-> IF p \in P THEN NoSet ELSE pf[p]]
    BY DEF pf_settle
  <1>3. /\ where' = where /\ key' = key /\ faults' = 0
        /\ \A s \in Slots : content'[s] = IF \E p \in P : pf[p].inflight /\ s \in Ours(p)
                                          THEN key[s] ELSE content[s]
        /\ (\A p \in P : pf[p].reads = {}) => content' = content
    BY <1>1, <1>2, CollectClean
  <1>4. \A p \in Parities : /\ p \in P => pf'[p].reads = {}
                            /\ p \notin P => pf'[p] = pf[p]
    BY <1>2 DEF NoSet
  <1>5. \A p \in Parities : ~Listing(p) /\ (p \notin P => ~Listing(p)')
    BY DEF Listing
  <1>6. \A r : r \in Coming' <=> \/ r \in jobs \/ r \in ring
                                 \/ \E p \in Parities : p \notin P /\ pf[p].inflight /\ r \in pf[p].reads
    <2>1. \A r : r \in Coming' <=> \/ r \in jobs' \/ r \in ring'
                                   \/ \E p \in Parities : /\ pf'[p].inflight \/ Listing(p)'
                                                          /\ r \in pf'[p].reads
      BY DEF Coming, Flying
    <2> QED
      BY <1>4, <1>5, <2>1
  <1>7. Coming' \subseteq Coming
    BY <1>6, ComingIs
  <1>8. \A r \in Coming : r \in Coming' \/ \E p \in P : pf[p].inflight /\ r \in pf[p].reads
    BY <1>5, <1>6, ComingIs
  <1>9. /\ Serving' => Serving /\ call' = call
        /\ ring = {} /\ (jobs # {} => at = "loads") /\ ~pending
    BY <1>1 DEF Serving, Choosing, ReadInv
  <1>10. ReadInv'
    <2>1. \A p \in Parities : ~Lost(p)'
      BY <1>1, <1>3, <1>4 DEF ReadInv, Lost
    <2>2. \A r \in jobs' \cup ring' : r[1] \in used' /\ key'[r[1]] = r[2]
      BY <1>1, <1>3 DEF ReadInv
    <2> QED
      BY <1>9, <2>1, <2>2 DEF ReadInv
  <1>11. BytesInv'
    <2>1. ASSUME NEW s \in Slots, key'[s] # None
          PROVE  content'[s] = key'[s] \/ <<s, key'[s]>> \in Coming'
      <3>1. content[s] = key[s] \/ <<s, key[s]>> \in Coming
        BY <1>1, <1>3, <2>1 DEF BytesInv
      <3>2. CASE \E p \in P : pf[p].inflight /\ s \in Ours(p)
        BY <1>3, <3>2
      <3>3. CASE ~\E p \in P : pf[p].inflight /\ s \in Ours(p)
        <4>1. PICK r : r = <<s, key[s]>>
          OBVIOUS
        <4>2. ~\E p \in P : pf[p].inflight /\ r \in pf[p].reads
          <5>1. r[1] = s
            BY <4>1
          <5> QED
            BY <3>3, <5>1 DEF Ours, SlotsOf
        <4> QED
          BY <1>3, <1>8, <3>1, <3>3, <4>1, <4>2
      <3> QED
        BY <3>2, <3>3
    <2> QED
      BY <1>1, <1>9, <2>1 DEF BytesInv
  <1>12. LeaseInv'
    BY <1>1, <1>3, <1>7 DEF LeaseInv, SlotsOf
  <1>13. OrderInv'
    <2>1. Kept' \subseteq Kept
      BY <1>9 DEF Kept, SlotsOf
    <2> QED
      BY <1>1, <1>3, <2>1 DEF OrderInv
  <1>14. CopyInv'
    BY <1>1, <1>3, <1>4 DEF CopyInv
  <1> QED
    BY <1>3, <1>10, <1>11, <1>12, <1>13, <1>14 DEF NInv

LEMMA NSettles ==
  ASSUME Unfailing, IInv, NInv, NEW F, SettlePast(F) \/ SettleAll(F) \/ PfDrop(F)
  PROVE  NInv'
  <1>1. /\ lru' = lru /\ used' = used /\ jobs' = jobs /\ ring' = ring /\ pending' = pending
        /\ via_ring' = via_ring /\ warm' = warm /\ warm_over' = warm_over /\ copy' = copy
        /\ lease' = lease
    BY DEF SettlePast, SettleAll, PfDrop, batchVars, warmVars
  <1>2. CallT
    BY DEF IInv, Types
  <1>3. CASE SettlePast(F)
    <2>1. PICK P \in SUBSET Parities :
            P = {p \in Parities : /\ pf[p].reads # {}
                                  /\ pf[p].layer \notin call.layer .. (call.layer + 1)}
      OBVIOUS
    <2>2. pf_settle(P, F) /\ at = "settle" /\ at' = "loads" /\ call' = call
      BY <1>3, <2>1 DEF SettlePast, Goto
    <2>3. \A q \in Parities : Listing(q)' => q \in P
      BY <2>2 DEF Listing
    <2> QED
      BY <1>1, <2>2, <2>3, NSettle
  <1>4. CASE SettleAll(F)
    <2>1. pf_settle(Parities, F) /\ at = "loads" /\ at' = "reload" /\ call' = call
      BY <1>4 DEF SettleAll, Goto
    <2> QED
      BY <1>1, <2>1, NSettle
  <1>5. CASE PfDrop(F)
    <2>1. PICK P : P = {Ahead}
      OBVIOUS
    <2>2. P \in SUBSET Parities
      BY <1>2, <2>1, ParityIs, CallFields DEF Ahead
    <2>3. pf_settle(P, F) /\ at = "pfdrop" /\ Done("idle")
      BY <1>5, <2>1 DEF PfDrop
    <2>4. at' = "idle" /\ call'.rest = <<>>
      BY <1>2, <2>3, DoneIs
    <2>5. \A q \in Parities : Listing(q)' => q \in P
      BY <2>4 DEF Listing
    <2> QED
      BY <1>1, <2>2, <2>3, <2>4, <2>5, NSettle
  <1> QED
    BY <1>3, <1>4, <1>5

LEMMA NPrefetch ==
  ASSUME Unfailing, IInv, NInv, NEW l \in Layers, NEW ids \in Asks(NSlots), NEW F,
         prefetch(l, ids, F)
  PROVE  NInv'
  <1>1. /\ at = "idle" /\ at' = "pfloop" /\ pf_settle({l % 2}, F)
        /\ call' = [NoCall EXCEPT !.layer = l, !.ids = ids, !.many = call.many]
        /\ lease' = (IF call.many /\ GpuAhead THEN lease ELSE {})
        /\ lru' = lru /\ used' = used /\ jobs' = jobs /\ ring' = ring /\ pending' = pending
        /\ via_ring' = via_ring /\ warm' = warm /\ warm_over' = warm_over /\ copy' = copy
    BY DEF prefetch, batchVars, warmVars
  <1>2. call'.layer = l /\ call'.rest = <<>>
    <2>1. PICK c : c = [NoCall EXCEPT !.layer = l, !.ids = ids, !.many = call.many]
      OBVIOUS
    <2>2. c.layer = l /\ c.rest = NoCall.rest
      BY <2>1, NoCallIs DEF Calls
    <2> QED
      BY <1>1, <2>1, <2>2, NoCallIs
  <1>3. PICK P : P = {l % 2}
    OBVIOUS
  <1>4. P \in SUBSET Parities /\ pf_settle(P, F) /\ \A q \in Parities : Listing(q)' => q \in P
    BY <1>1, <1>2, <1>3, ParityIs DEF Listing, Ahead
  <1>5. lease' \subseteq lease /\ (WarmOrder # <<>> => lease' = {})
    BY <1>1 DEF Unfailing
  <1> QED
    BY <1>1, <1>2, <1>4, <1>5, NSettle

LEMMA NAsk ==
  ASSUME Unfailing, IInv, NInv, at \in {"idle", "again"}, NEW l, NEW now, NEW same \in BOOLEAN,
         NEW F, Ask(l, now, same, F), call'.ready = {}, lease' \subseteq lease, same \/ lease' = {},
         WarmOrder # <<>> => call'.rest = <<>> /\ lease' = {} /\ ~same
  PROVE  NInv'
  <1>1. ReadInv /\ BytesInv /\ LeaseInv /\ OrderInv /\ CopyInv /\ faults = 0 /\ ReadT
    BY DEF NInv, IInv, Types
  <1>2. PICK H \in SUBSET Parities : H = {p \in Parities : pf[p].reads # {} /\ l >= pf[p].layer}
    OBVIOUS
  <1>3. /\ pf_collect(H, F)
        /\ pf' = [p \in Parities |-> IF p \in H THEN [pf[p] EXCEPT !.inflight = FALSE] ELSE pf[p]]
    BY <1>2 DEF Ask
  <1>4. /\ used' = (IF same THEN used ELSE {}) /\ at' = "hits" /\ lru' = lru
        /\ jobs' = jobs /\ ring' = ring /\ pending' = pending /\ via_ring' = via_ring
        /\ warm' = warm /\ warm_over' = warm_over /\ copy' = copy
    BY DEF Ask, batchVars, warmVars
  <1>5. /\ where' = where /\ key' = key /\ faults' = 0
        /\ \A s \in Slots : content'[s] = IF \E p \in H : pf[p].inflight /\ s \in Ours(p)
                                          THEN key[s] ELSE content[s]
        /\ (\A p \in H : pf[p].reads = {}) => content' = content
    BY <1>1, <1>3, CollectClean
  <1>6. \A p \in Parities : /\ pf'[p].reads = pf[p].reads
                            /\ pf'[p].inflight <=> pf[p].inflight /\ p \notin H
    BY <1>1, <1>3, AskSets
  <1>7. /\ \A p \in Parities : ~Listing(p) /\ ~Listing(p)'
        /\ jobs = {} /\ ring = {} /\ ~pending
    BY <1>1, <1>4 DEF Listing, ReadInv
  <1>8. \A r : r \in Coming' <=>
                 \E p \in Parities : p \notin H /\ pf[p].inflight /\ r \in pf[p].reads
    <2>1. \A r : r \in Coming' <=> \/ r \in jobs' \/ r \in ring'
                                   \/ \E p \in Parities : /\ pf'[p].inflight \/ Listing(p)'
                                                          /\ r \in pf'[p].reads
      BY DEF Coming, Flying
    <2> QED
      BY <1>4, <1>6, <1>7, <2>1
  <1>9. Coming' \subseteq Coming
    BY <1>8, ComingIs
  <1>10. \A r \in Coming : r \in Coming' \/ \E p \in H : pf[p].inflight /\ r \in pf[p].reads
    BY <1>7, <1>8, ComingIs
  <1>11. ReadInv'
    <2>1. \A p \in Parities : ~Lost(p)'
      BY <1>1, <1>5, <1>6 DEF ReadInv, Lost
    <2> QED
      BY <1>4, <1>7, <2>1 DEF ReadInv
  <1>12. BytesInv'
    <2>1. ASSUME NEW s \in Slots, key'[s] # None
          PROVE  content'[s] = key'[s] \/ <<s, key'[s]>> \in Coming'
      <3>1. content[s] = key[s] \/ <<s, key[s]>> \in Coming
        BY <1>1, <1>5, <2>1 DEF BytesInv
      <3>2. CASE \E p \in H : pf[p].inflight /\ s \in Ours(p)
        BY <1>5, <3>2
      <3>3. CASE ~\E p \in H : pf[p].inflight /\ s \in Ours(p)
        <4>1. PICK r : r = <<s, key[s]>>
          OBVIOUS
        <4>2. ~\E p \in H : pf[p].inflight /\ r \in pf[p].reads
          <5>1. r[1] = s
            BY <4>1
          <5> QED
            BY <3>3, <5>1 DEF Ours, SlotsOf
        <4> QED
          BY <1>5, <1>10, <3>1, <3>3, <4>1, <4>2
      <3> QED
        BY <3>2, <3>3
    <2> QED
      BY <2>1 DEF BytesInv
  <1>13. LeaseInv'
    BY <1>1, <1>4, <1>5, <1>9 DEF LeaseInv, SlotsOf
  <1>14. OrderInv'
    <2>1. WarmOrder # <<>> => Kept' = {}
      BY <1>4 DEF Kept, SlotsOf
    <2> QED
      BY <2>1 DEF OrderInv
  <1>15. CopyInv'
    BY <1>1, <1>2, <1>4, <1>5, <1>6 DEF CopyInv
  <1> QED
    BY <1>5, <1>11, <1>12, <1>13, <1>14, <1>15 DEF NInv

LEMMA NBegin ==
  ASSUME Unfailing, IInv, NInv, NEW l \in Layers, NEW ids \in Asks(NSlots), NEW F,
         begin(l, ids, F) \/ fetch_many(l, ids, F)
  PROVE  NInv'
  <1>1. at = "idle" /\ lease' = {}
    BY BeginIs
  <1>2. PICK now \in Seq(Experts) : Ask(l, now, FALSE, F) /\ NewCall(l, now, Len(ids))
    BY BeginIs
  <1>3. WarmOrder # <<>> => Len(ids) <= Chunk
    BY DEF Unfailing, IInv, MapOK, MapT
  <1>4. call'.ready = {} /\ (WarmOrder # <<>> => call'.rest = <<>>)
    BY <1>2, <1>3 DEF NewCall
  <1> QED
    BY <1>1, <1>2, <1>4, NAsk

LEMMA NFetchNext ==
  ASSUME Unfailing, IInv, NInv, NEW F, FetchNext(F)
  PROVE  NInv'
  <1>1. at = "again" /\ lease' = lease /\ AskSome(call.layer, call.rest, TRUE, F)
    BY DEF FetchNext
  <1>2. CallT /\ CallInv
    BY DEF IInv, Types
  <1>3. call.layer \in Layers /\ call.rest \in Seq(Experts) /\ call.rest # <<>>
    BY <1>1, <1>2, CallFields DEF CallInv
  <1>4. Len(call.rest) \in Nat /\ Len(call.rest) >= 1
    BY <1>3, LenProperties, EmptySeq
  <1>5. PICK now \in Seq(Experts) : /\ Len(now) >= 1 /\ Ask(call.layer, now, TRUE, F)
                                    /\ NewCall(call.layer, now, Len(call.rest))
    BY <1>1, <1>3, <1>4, AskSomeIs
  <1>6. PICK l : l = call.layer
    OBVIOUS
  <1>7. Ask(l, now, TRUE, F) /\ call'.ready = {}
    BY <1>5, <1>6 DEF NewCall
  <1>8. WarmOrder = <<>>
    BY <1>1 DEF NInv, LeaseInv
  <1> QED
    BY <1>1, <1>7, <1>8, NAsk

-----------------------------------------------------------------------------
(* Reads ahead listed and submitted. *)
LEMMA NPfTake ==
  ASSUME IInv, NInv, PfTake
  PROVE  NInv'
  <1>1. /\ at = "pfloop" /\ PfGoOn /\ where[AskedKey] = None /\ at' = "pfloop"
        /\ call' = [call EXCEPT !.i = @ + 1] /\ used' = used
        /\ content' = content /\ jobs' = jobs /\ ring' = ring
        /\ pending' = pending /\ via_ring' = via_ring /\ lease' = lease /\ faults' = faults
        /\ warm' = warm /\ warm_over' = warm_over /\ copy' = copy
    BY DEF PfTake, batchVars, warmVars
  <1>2. /\ ReadInv /\ BytesInv /\ LeaseInv /\ OrderInv /\ CopyInv /\ faults = 0
        /\ MapOK /\ PassT /\ CallT /\ CallInv /\ ReadT /\ FlagInv
    BY DEF NInv, IInv, Types
  <1>3. call'.layer = call.layer /\ call'.rest = call.rest
    BY <1>1, <1>2 DEF CallT, Calls
  <1>4. PICK v : v = victim(used)
    OBVIOUS
  <1>5. PICK k \in Keys : k = AskedKey
    <2>1. call.i \in 1 .. Len(call.ids)
      BY <1>1, <1>2, CallFields DEF PfGoOn, CallInv
    <2>2. Asked(call.i) \in Keys
      BY <1>2, <2>1, CallFields
    <2> QED
      BY <2>2 DEF Asked, AskedKey
  <1>6. PICK a \in Parities : a = Ahead
    BY <1>2, CallFields, ParityIs DEF Ahead
  <1>7. PICK job : job = <<v, k>>
    OBVIOUS
  <1>8. job[1] = v /\ job[2] = k
    BY <1>7
  <1>9. /\ v # None /\ Assign(v, k, FALSE)
        /\ pf' = [pf EXCEPT ![a].reads = @ \cup {job}]
    BY <1>4, <1>5, <1>6, <1>7 DEF PfTake
  <1>10. v \in Range(lru) /\ v \in Slots /\ v \notin used /\ v \notin pf_flag
    BY <1>2, <1>4, <1>9, VictimIs
  <1>11. Given1(v, k)
    BY <1>1, <1>2, <1>5, <1>9, <1>10, AssignKeeps
  <1>12. /\ key'[v] = k /\ k # None /\ \A s \in Slots : s # v => key'[s] = key[s]
    BY <1>2, <1>5, <1>10, <1>11, Constants DEF Given1, MapOK, MapT
  <1>13. \A q \in Parities : /\ pf'[q].reads = IF q = a THEN pf[q].reads \cup {job} ELSE pf[q].reads
                             /\ pf'[q].inflight <=> pf[q].inflight
    <2>1. pf \in [Parities -> Sets] /\ pf[a] \in Sets
      BY <1>2 DEF ReadT
    <2>2. PICK z : z = [pf[a] EXCEPT !.reads = @ \cup {job}]
      OBVIOUS
    <2>3. z.reads = pf[a].reads \cup {job}
      BY <2>1, <2>2 DEF Sets
    <2>4. z.inflight <=> pf[a].inflight
      BY <2>1, <2>2 DEF Sets
    <2>5. \A q \in Parities : pf'[q] = IF q = a THEN z ELSE pf[q]
      BY <1>9, <2>1, <2>2
    <2> QED
      BY <2>3, <2>4, <2>5
  <1>14. /\ \A q \in Parities : /\ Listing(q) <=> q = a
                                /\ Listing(q)' <=> q = a
         /\ ~Serving /\ ~Serving' /\ jobs = {} /\ ring = {} /\ ~pending
    BY <1>1, <1>2, <1>3, <1>6 DEF Listing, Ahead, Serving, Choosing, ReadInv
  <1>15. \A r : r \in Coming' <=> r \in Coming \/ r = job
    <2>1. \A r : r \in Coming' <=> \/ r \in jobs' \/ r \in ring'
                                   \/ \E p \in Parities : /\ pf'[p].inflight \/ Listing(p)'
                                                          /\ r \in pf'[p].reads
      BY DEF Coming, Flying
    <2>2. \A r : r \in Coming' <=> \E p \in Parities : /\ pf[p].inflight \/ p = a
                                                       /\ r \in pf'[p].reads
      BY <1>1, <1>13, <1>14, <2>1
    <2>3. \A r : r \in Coming <=> \E p \in Parities : /\ pf[p].inflight \/ p = a
                                                      /\ r \in pf[p].reads
      BY <1>14, ComingIs
    <2>4. \A p \in Parities : \A r : r \in pf'[p].reads <=> r \in pf[p].reads \/ (p = a /\ r = job)
      BY <1>13
    <2> QED
      BY <2>2, <2>3, <2>4
  <1>16. \A p \in Parities : \A r \in pf[p].reads : r[1] \in Slots /\ r[1] # v
    BY <1>2, <1>10, OwnedIs DEF FlagInv
  <1>17. ReadInv'
    <2>1. ASSUME NEW p \in Parities, NEW r \in pf'[p].reads
          PROVE  key'[r[1]] # None
      <3>1. CASE r \in pf[p].reads
        <4>1. key[r[1]] # None
          BY <1>2, <3>1 DEF ReadInv, Lost
        <4> QED
          BY <1>12, <1>16, <3>1, <4>1
      <3>2. CASE r \notin pf[p].reads
        <4>1. r = job
          BY <1>13, <2>1, <3>2
        <4> QED
          BY <1>8, <1>12, <4>1
      <3> QED
        BY <3>1, <3>2
    <2>2. \A p \in Parities : ~Lost(p)'
      BY <2>1 DEF Lost
    <2> QED
      BY <1>1, <1>14, <2>2 DEF ReadInv
  <1>18. BytesInv'
    <2>1. ASSUME NEW s \in Slots, key'[s] # None
          PROVE  content'[s] = key'[s] \/ <<s, key'[s]>> \in Coming'
      <3>1. CASE s = v
        BY <1>7, <1>12, <1>15, <3>1
      <3>2. CASE s # v
        BY <1>1, <1>2, <1>12, <1>15, <2>1, <3>2 DEF BytesInv
      <3> QED
        BY <3>1, <3>2
    <2> QED
      BY <1>14, <2>1 DEF BytesInv
  <1>19. LeaseInv'
    <2>1. ASSUME NEW q \in lease
          PROVE  q[1] \in Slots /\ key'[q[1]] = q[2] /\ q[1] \notin SlotsOf(Coming')
      <3>1. q[1] # v
        BY <1>1, <1>10, LeaseFar
      <3>2. q[1] \in Slots /\ key[q[1]] = q[2] /\ q[1] \notin SlotsOf(Coming)
        BY <1>2 DEF LeaseInv
      <3> QED
        BY <1>8, <1>12, <1>15, <3>1, <3>2 DEF SlotsOf
    <2> QED
      BY <1>1, <1>2, <1>3, <2>1 DEF LeaseInv
  <1>20. OrderInv'
    <2>1. WarmOrder # <<>> => Kept' = {}
      BY <1>1, <1>2, <1>14 DEF Kept, SlotsOf, LeaseInv
    <2> QED
      BY <2>1 DEF OrderInv
  <1>21. CopyInv'
    <2>1. copy = None
      BY <1>1, <1>2, <1>5 DEF CopyInv
    <2> QED
      BY <1>1, <2>1 DEF CopyInv
  <1> QED
    BY <1>1, <1>2, <1>17, <1>18, <1>19, <1>20, <1>21 DEF NInv

LEMMA NPfSubmits ==
  ASSUME Unfailing, IInv, NInv, PfSubmit \/ PfSubmitFails
  PROVE  NInv'
  <1>1. ReadInv /\ BytesInv /\ LeaseInv /\ OrderInv /\ CopyInv /\ faults = 0 /\ CallT /\ ReadT /\ SetInv
    BY DEF NInv, IInv, Types
  <1>2. ~PfSubmitFails
    <2>1. FALSE \in BOOLEAN
      OBVIOUS
    <2>2. ~Ends(FALSE, PfFaults)
      BY <1>1 DEF Unfailing, Ends
    <2> QED
      BY <2>2 DEF PfSubmitFails
  <1>3. /\ at = "pfloop" /\ where' = where /\ key' = key /\ lru' = lru /\ used' = used
        /\ content' = content /\ jobs' = jobs /\ ring' = ring
        /\ pending' = pending /\ via_ring' = via_ring /\ lease' = lease /\ faults' = faults
        /\ warm' = warm /\ warm_over' = warm_over /\ copy' = copy /\ Done("idle")
        /\ pf' = IF pf[Ahead].reads = {} THEN pf
                 ELSE [pf EXCEPT ![Ahead].layer = call.layer, ![Ahead].inflight = TRUE]
    BY <1>2 DEF PfSubmit, mapVars, batchVars, warmVars
  <1>4. at' = "idle" /\ call'.rest = <<>>
    BY <1>1, <1>3, DoneIs
  <1>5. PICK a \in Parities : a = Ahead
    BY <1>1, CallFields, ParityIs DEF Ahead
  <1>6. \A q \in Parities : /\ pf'[q].reads = pf[q].reads
                            /\ q # a => (pf'[q].inflight <=> pf[q].inflight)
                            /\ q = a => (pf'[q].inflight <=> pf[q].reads # {})
    <2>1. pf \in [Parities -> Sets] /\ pf[a] \in Sets
      BY <1>1 DEF ReadT
    <2>2. CASE pf[a].reads = {}
      <3>1. pf' = pf /\ ~pf[a].inflight
        BY <1>1, <1>3, <1>5, <2>2 DEF SetInv
      <3> QED
        BY <2>2, <3>1
    <2>3. CASE pf[a].reads # {}
      <3>1. PICK z : z = [pf[a] EXCEPT !.layer = call.layer, !.inflight = TRUE]
        OBVIOUS
      <3>2. z.reads = pf[a].reads
        BY <2>1, <3>1 DEF Sets
      <3>3. z.inflight
        BY <2>1, <3>1 DEF Sets
      <3>4. pf' = [pf EXCEPT ![a].layer = call.layer, ![a].inflight = TRUE]
        BY <1>3, <1>5, <2>3
      <3>5. \A q \in Parities : pf'[q] = IF q = a THEN z ELSE pf[q]
        BY <2>1, <3>1, <3>4
      <3> QED
        BY <2>3, <3>2, <3>3, <3>5
    <2> QED
      BY <2>2, <2>3
  <1>7. /\ \A q \in Parities : (Listing(q) <=> q = a) /\ ~Listing(q)'
        /\ ~Serving /\ ~Serving' /\ jobs = {} /\ ring = {} /\ ~pending
    BY <1>1, <1>3, <1>4, <1>5 DEF Listing, Serving, Choosing, ReadInv
  <1>8. \A r : r \in Coming' <=> r \in Coming
    <2>1. \A r : r \in Coming' <=> \/ r \in jobs' \/ r \in ring'
                                   \/ \E p \in Parities : /\ pf'[p].inflight \/ Listing(p)'
                                                          /\ r \in pf'[p].reads
      BY DEF Coming, Flying
    <2> QED
      BY <1>3, <1>6, <1>7, <2>1, ComingIs
  <1>9. ReadInv'
    <2>1. \A p \in Parities : ~Lost(p)'
      BY <1>1, <1>3, <1>6 DEF ReadInv, Lost
    <2> QED
      BY <1>3, <1>4, <1>7, <2>1 DEF ReadInv
  <1>10. BytesInv'
    BY <1>1, <1>3, <1>7, <1>8 DEF BytesInv
  <1>11. LeaseInv'
    BY <1>1, <1>3, <1>4, <1>8 DEF LeaseInv, SlotsOf
  <1>12. OrderInv'
    BY <1>1, <1>3, <1>7 DEF OrderInv, Kept
  <1>13. CopyInv'
    BY <1>1, <1>3, <1>6 DEF CopyInv
  <1> QED
    BY <1>1, <1>3, <1>9, <1>10, <1>11, <1>12, <1>13 DEF NInv

LEMMA NDemote ==
  ASSUME IInv, NInv, NEW k \in Keys, demote(k)
  PROVE  NInv'
  <1>1. /\ at = "idle" /\ where[k] # None
        /\ lru' = Back(lru, where[k]) /\ llist' = [llist EXCEPT ![k[1]] = Back(@, where[k])]
        /\ lease' = lease \ {<<where[k], k>>}
        /\ where' = where /\ key' = key /\ filled' = filled /\ used' = used
        /\ content' = content /\ jobs' = jobs /\ ring' = ring /\ pf' = pf
        /\ pending' = pending /\ via_ring' = via_ring /\ at' = at /\ call' = call
        /\ faults' = faults /\ warm' = warm /\ warm_over' = warm_over /\ copy' = copy
    BY DEF demote, readVars, batchVars, warmVars
  <1>2. /\ ReadInv /\ BytesInv /\ LeaseInv /\ OrderInv /\ CopyInv /\ faults = 0 /\ MapOK /\ CallT
    BY DEF NInv, IInv, Types
  <1>3. PICK s \in Slots : s = where[k] /\ key[s] = k /\ key[s] # None
    BY <1>1, <1>2, Constants DEF MapOK, MapT, MapInv
  <1>4. /\ lru' = PutIn(lru, s, FALSE)
        /\ llist' = [llist EXCEPT ![key[s][1]] = PutIn(@, s, FALSE)]
    BY <1>1, <1>3 DEF PutIn
  <1>5. /\ Range(lru)' = Range(lru)
        /\ \A x, y \in Range(lru) : x # s /\ Before(lru, x, y) => Before(lru', x, y)
    BY <1>1, <1>2, <1>3, <1>4, MovedKeeps
  <1>6. /\ \A p \in Parities : (Listing(p)' <=> Listing(p)) /\ (Lost(p)' <=> Lost(p))
        /\ ~Serving /\ ~Serving'
    BY <1>1 DEF Listing, Ahead, Lost, Serving, Choosing
  <1>7. Coming' = Coming
    BY <1>1, <1>6 DEF Coming, Flying
  <1>8. ReadInv'
    BY <1>1, <1>2, <1>6 DEF ReadInv
  <1>9. BytesInv'
    BY <1>1, <1>2, <1>6, <1>7 DEF BytesInv
  <1>10. LeaseInv'
    BY <1>1, <1>2, <1>7 DEF LeaseInv, SlotsOf
  <1>11. \A q \in lease' : q \in lease /\ q[1] # s
    <2> SUFFICES ASSUME NEW q \in lease, q[1] = s, q # <<s, k>>
                 PROVE  FALSE
      BY <1>1, <1>3
    <2>1. key[q[1]] = q[2]
      BY <1>2 DEF LeaseInv
    <2>2. q = <<q[1], q[2]>>
      BY <1>2 DEF CallT
    <2> QED
      BY <1>3, <2>1, <2>2
  <1>12. OrderInv'
    <2>1. \A x \in Kept' : x \in Kept /\ x # s
      BY <1>6, <1>11 DEF Kept, SlotsOf
    <2> QED
      BY <1>1, <1>2, <1>5, <2>1 DEF OrderInv
  <1>13. CopyInv'
    BY <1>1, <1>2 DEF CopyInv
  <1> QED
    BY <1>1, <1>2, <1>8, <1>9, <1>10, <1>12, <1>13 DEF NInv

-----------------------------------------------------------------------------
(* An expert read by the warmer, and the cache destroyed. *)
LEMMA NWarmLoad ==
  ASSUME Unfailing, IInv, NInv, NEW ok \in BOOLEAN, NEW sent \in BOOLEAN, WarmLoad(ok, sent)
  PROVE  NInv'
  <1>1. /\ Warming /\ Ends(ok, MainFaults) /\ (ok => sent) /\ where[Head(warm)] = None
        /\ warm' = Tail(warm) /\ jobs' = jobs /\ pf' = pf
        /\ pending' = pending /\ via_ring' = via_ring /\ copy' = copy
        /\ at' = at /\ call' = call /\ lease' = lease
    BY DEF WarmLoad, batchVars, callVars
  <1>2. /\ ReadInv /\ BytesInv /\ LeaseInv /\ OrderInv /\ CopyInv /\ faults = 0
        /\ MapOK /\ PassT /\ CallT /\ CallInv /\ ReadT /\ FlagInv
    BY DEF NInv, IInv, Types
  <1>3. /\ at \in {"idle", "again", "djoin", "freed"} /\ ~warm_over /\ filled < NSlots
        /\ warm # <<>>
    BY <1>1, <1>2 DEF Warming, CallInv
  <1>4. WarmOrder # <<>>
    BY <1>2, <1>3 DEF LeaseInv
  <1>5. ok /\ sent /\ faults' = 0
    BY <1>1, <1>2, NoneFails
  <1>6. /\ ~Serving /\ ~Serving' /\ \A p \in Parities : ~Listing(p) /\ ~Listing(p)'
        /\ jobs = {} /\ ring = {} /\ ~pending /\ at # "freed"
    BY <1>1, <1>2, <1>3 DEF Serving, Choosing, Listing, ReadInv
  <1>7. PICK k \in Keys : k = Head(warm)
    BY <1>2, <1>3, HeadTailProperties DEF CallT
  <1>8. PICK v : v = victim({})
    OBVIOUS
  <1>9. PICK job : job = <<v, k>>
    OBVIOUS
  <1>10. job[1] = v /\ job[2] = k
    BY <1>9
  <1>11. v # None /\ Assign(v, k, TRUE) /\ used' = {v}
    BY <1>7, <1>8 DEF WarmLoad
  <1>12. content' = Landed({job}, {job}) /\ ring' = {}
    <2>1. PICK E : E = IF 1 \in RingSizes THEN ring \cup {job} ELSE {job}
      OBVIOUS
    <2>2. E = {job}
      BY <1>6, <2>1
    <2>3. /\ content' = IF sent THEN Landed(E, IF ok THEN E ELSE {}) ELSE content
          /\ ring' = IF ~sent THEN ring \cup {job} ELSE IF 1 \in RingSizes THEN {} ELSE ring
      BY <1>7, <1>8, <1>9, <2>1 DEF WarmLoad
    <2>4. content' = Landed(E, E)
      BY <1>5, <2>3
    <2>5. ring' = {}
      BY <1>5, <1>6, <2>3
    <2> QED
      BY <2>2, <2>4, <2>5
  <1>13. v \in Range(lru) /\ v \in Slots /\ v \notin pf_flag
    BY <1>2, <1>8, <1>11, VictimIs
  <1>14. \A s \in Slots : content'[s] = IF s = v THEN k ELSE content[s]
    <2>1. PICK R : R = {job}
      OBVIOUS
    <2>2. content' = [s \in Slots |->
                        IF \E r \in R : r[1] = s
                        THEN LET r == CHOOSE x \in R : x[1] = s IN IF r \in R THEN r[2] ELSE None
                        ELSE content[s]]
      BY <1>12, <2>1 DEF Landed
    <2>3. ASSUME NEW s \in Slots, s = v
          PROVE  content'[s] = k
      <3>1. PICK x : x = CHOOSE z \in R : z[1] = s
        OBVIOUS
      <3>2. \E r \in R : r[1] = s
        BY <1>10, <2>1, <2>3
      <3>3. x \in R
        BY <3>1, <3>2
      <3>4. content'[s] = IF x \in R THEN x[2] ELSE None
        BY <2>2, <3>1, <3>2
      <3> QED
        BY <1>10, <2>1, <3>3, <3>4
    <2>4. ASSUME NEW s \in Slots, s # v
          PROVE  content'[s] = content[s]
      <3>1. ~\E r \in R : r[1] = s
        BY <1>10, <2>1, <2>4
      <3> QED
        BY <2>2, <3>1
    <2> QED
      BY <2>3, <2>4
  <1>15. /\ Given1(v, k)
         /\ \A x, y \in Range(lru) : y # v /\ (x = v \/ Before(lru, x, y)) => Before(lru', x, y)
    BY <1>1, <1>2, <1>7, <1>11, <1>13, AssignKeeps
  <1>16. /\ Range(lru)' = Range(lru) /\ key'[v] = k /\ k # None
         /\ \A s \in Slots : s # v => key'[s] = key[s]
    BY <1>2, <1>7, <1>13, <1>15, Constants DEF Given1, MapOK, MapT
  <1>17. Coming' = Coming
    BY <1>1, <1>6, <1>12 DEF Coming, Flying
  <1>18. \A q \in lease : q[1] # v
    <2> SUFFICES ASSUME NEW q \in lease, q[1] = v
                 PROVE  FALSE
      OBVIOUS
    <2>1. key[v] = q[2] /\ q[2] \in Keys
      BY <1>2 DEF LeaseInv, CallT
    <2>2. PICK e \in Range(lru) : e \in Slots /\ key[e] = None
      BY <1>2, <1>3, EmptySlot
    <2>3. e \notin pf_flag
      <3> SUFFICES ASSUME e \in pf_flag
                   PROVE  FALSE
        OBVIOUS
      <3>1. PICK p \in Parities : e \in Ours(p)
        BY <1>2, <2>2 DEF FlagInv
      <3>2. Lost(p)
        BY <2>2, <3>1 DEF Lost, Ours, SlotsOf
      <3> QED
        BY <1>2, <3>2 DEF ReadInv
    <2>4. e # v
      BY <2>1, <2>2, Constants
    <2>5. Before(lru, e, v)
      BY <1>2, <1>3, <1>8, <1>11, <2>2, <2>3, <2>4, VictimIs
    <2>6. v \in Kept
      BY DEF Kept, SlotsOf
    <2>7. Before(lru, v, e)
      BY <1>2, <1>4, <1>13, <2>2, <2>6 DEF OrderInv
    <2>8. Distinct(lru) /\ Len(lru) \in Nat
      BY <1>2, LenProperties DEF MapOK, MapInv, MapT
    <2>9. PICK a \in 1 .. Len(lru), b \in 1 .. Len(lru) : a < b /\ lru[a] = e /\ lru[b] = v
      BY <2>5 DEF Before
    <2>10. PICK c \in 1 .. Len(lru), d \in 1 .. Len(lru) : c < d /\ lru[c] = v /\ lru[d] = e
      BY <2>7 DEF Before
    <2>11. a = d /\ b = c
      BY <2>8, <2>9, <2>10 DEF Distinct
    <2> QED
      BY <2>8, <2>9, <2>10, <2>11
  <1>19. ReadInv'
    <2>1. \A p \in Parities : \A r \in pf[p].reads : r[1] \in Slots /\ r[1] # v
      BY <1>2, <1>13, OwnedIs DEF FlagInv
    <2>2. \A p \in Parities : ~Lost(p)'
      BY <1>1, <1>2, <1>16, <2>1 DEF ReadInv, Lost
    <2> QED
      BY <1>1, <1>6, <1>12, <2>2 DEF ReadInv
  <1>20. BytesInv'
    <2>1. ASSUME NEW s \in Slots, key'[s] # None
          PROVE  content'[s] = key'[s] \/ <<s, key'[s]>> \in Coming'
      <3>1. CASE s = v
        BY <1>14, <1>16, <3>1
      <3>2. CASE s # v
        BY <1>2, <1>14, <1>16, <1>17, <2>1, <3>2 DEF BytesInv
      <3> QED
        BY <3>1, <3>2
    <2> QED
      BY <1>6, <2>1 DEF BytesInv
  <1>21. LeaseInv'
    BY <1>1, <1>2, <1>4, <1>16, <1>17, <1>18 DEF LeaseInv
  <1>22. OrderInv'
    <2>1. Kept' = Kept /\ v \notin Kept
      BY <1>1, <1>6, <1>18 DEF Kept, SlotsOf
    <2>2. \A y \in Range(lru) : key'[y] = None => y # v /\ key[y] = None
      BY <1>2, <1>16, ListIs
    <2> QED
      BY <1>2, <1>15, <1>16, <2>1, <2>2 DEF OrderInv
  <1>23. CopyInv'
    <2>1. copy = None
      BY <1>2, <1>3 DEF CopyInv
    <2> QED
      BY <1>1, <2>1 DEF CopyInv
  <1> QED
    BY <1>5, <1>19, <1>20, <1>21, <1>22, <1>23 DEF NInv

LEMMA NDestroyJoin ==
  ASSUME IInv, NInv, DestroyJoin
  PROVE  NInv'
  <1>1. /\ at = "djoin" /\ at' = "freed" /\ call' = call /\ warm_over
        /\ pf' = [p \in Parities |-> NoSet]
        /\ content' = Landed(pf[0].reads \cup pf[1].reads, pf[0].reads \cup pf[1].reads)
        /\ where' = where /\ key' = key /\ lru' = lru /\ used' = used
        /\ jobs' = jobs /\ ring' = ring /\ pending' = pending /\ via_ring' = via_ring
        /\ lease' = lease /\ faults' = faults
        /\ warm' = warm /\ warm_over' = warm_over /\ copy' = copy
    BY DEF DestroyJoin, Goto, mapVars, batchVars, warmVars
  <1>2. ReadInv /\ BytesInv /\ LeaseInv /\ OrderInv /\ CopyInv /\ faults = 0 /\ ReadT
    BY DEF NInv, IInv, Types
  <1>3. PICK R : R = pf[0].reads \cup pf[1].reads
    OBVIOUS
  <1>4. \A r : r \in R <=> \E p \in Parities : r \in pf[p].reads
    BY <1>3 DEF Parities
  <1>5. R \in SUBSET Reads /\ \A r \in R : key[r[1]] = r[2]
    BY <1>2, <1>4, HomeIs
  <1>6. PICK c : c = Landed(R, R)
    OBVIOUS
  <1>7. /\ \A s \in Slots : c[s] = IF \E r \in R : r[1] = s THEN key[s] ELSE content[s]
        /\ R = {} => c = content
    BY <1>2, <1>5, <1>6, LandedHome
  <1>8. content' = c
    BY <1>1, <1>3, <1>6
  <1>9. \A p \in Parities : pf'[p].reads = {} /\ ~pf'[p].inflight
    BY <1>1 DEF NoSet
  <1>10. ~Serving /\ ~Serving' /\ jobs = {} /\ ring = {} /\ \A p \in Parities : ~Lost(p)'
    BY <1>1, <1>2, <1>9 DEF Serving, Choosing, ReadInv, Lost
  <1>11. Coming' = {}
    BY <1>1, <1>9, <1>10 DEF Coming, Flying
  <1>12. \A r \in Coming : r \in R
    BY <1>4, <1>10, ComingIs
  <1>13. ReadInv'
    BY <1>1, <1>2, <1>9, <1>10 DEF ReadInv
  <1>14. BytesInv'
    <2>1. ASSUME NEW s \in Slots, key'[s] # None
          PROVE  content'[s] = key'[s]
      <3>1. CASE \E r \in R : r[1] = s
        BY <1>1, <1>7, <1>8, <3>1
      <3>2. CASE ~\E r \in R : r[1] = s
        <4>1. content[s] = key[s] \/ <<s, key[s]>> \in Coming
          BY <1>1, <1>2, <2>1 DEF BytesInv
        <4>2. <<s, key[s]>> \notin R
          BY <3>2
        <4> QED
          BY <1>1, <1>7, <1>8, <1>12, <3>2, <4>1, <4>2
      <3> QED
        BY <3>1, <3>2
    <2> QED
      BY <1>10, <2>1 DEF BytesInv
  <1>15. LeaseInv'
    BY <1>1, <1>2, <1>11 DEF LeaseInv, SlotsOf
  <1>16. OrderInv'
    BY <1>1, <1>2, <1>10 DEF OrderInv, Kept
  <1>17. CopyInv'
    <2>1. (\A p \in Parities : pf[p].reads = {}) => R = {}
      BY <1>4
    <2> QED
      BY <1>1, <1>2, <1>7, <1>8, <1>9, <2>1 DEF CopyInv
  <1> QED
    BY <1>1, <1>2, <1>13, <1>14, <1>15, <1>16, <1>17 DEF NInv


LEMMA NInit ==
  ASSUME Unfailing, Init
  PROVE  NInv
  <1>1. /\ key = [s \in Slots |-> None] /\ used = {} /\ jobs = {} /\ ring = {}
        /\ pf = [p \in Parities |-> NoSet] /\ ~pending /\ at = "idle" /\ call = NoCall
        /\ lease = {} /\ warm = WarmOrder /\ copy = None /\ faults = 0
    BY DEF Init
  <1>2. ~Serving /\ \A p \in Parities : pf[p].reads = {} /\ ~Lost(p)
    BY <1>1 DEF Serving, Choosing, NoSet, Lost
  <1>3. ReadInv
    BY <1>1, <1>2 DEF ReadInv
  <1>4. BytesInv
    BY <1>1, <1>2 DEF BytesInv
  <1>5. LeaseInv
    BY <1>1, NoCallIs DEF LeaseInv, SlotsOf
  <1>6. OrderInv
    BY <1>1, <1>2 DEF OrderInv, Kept, SlotsOf
  <1>7. CopyInv
    BY <1>1 DEF CopyInv
  <1> QED
    BY <1>1, <1>3, <1>4, <1>5, <1>6, <1>7 DEF NInv

LEMMA NNext ==
  ASSUME Unfailing, IInv, NInv, [Next]_vars
  PROVE  NInv'
  <1>1. CASE \E l \in Layers, ids \in Asks(NSlots), F \in SUBSET Parities :
               begin(l, ids, F) \/ fetch_many(l, ids, F) \/ prefetch(l, ids, F)
    BY <1>1, NBegin, NPrefetch
  <1>2. CASE \E k \in Keys : demote(k)
    BY <1>2, NDemote
  <1>3. CASE resident \/ DestroyJoin
    BY <1>3, NResident, NDestroyJoin
  <1>4. CASE WarmEnd \/ WarmSkip \/ destroy \/ PfSkip \/ Freed \/ UNCHANGED vars
    BY <1>4, NAlone DEF Freed
  <1>5. CASE Hit \/ Found \/ Miss
    BY <1>5, NHit, NFound, NMiss
  <1>6. CASE PfTake \/ PfSubmit \/ PfSubmitFails
    BY <1>6, NPfTake, NPfSubmits
  <1>7. CASE \E F \in SUBSET Parities :
               FetchNext(F) \/ SettlePast(F) \/ SettleAll(F) \/ PfDrop(F)
    BY <1>7, NFetchNext, NSettles
  <1>8. CASE \E ok \in BOOLEAN : Start(ok)
    BY <1>8, NStart
  <1>9. CASE FinishPool \/ \E ok \in BOOLEAN : \E D \in SUBSET ring : FinishRing(ok, D)
    <2>1. TRUE \in BOOLEAN
      OBVIOUS
    <2> QED
      BY <1>9, <2>1, NFinish
  <1>10. CASE \E ok, sent \in BOOLEAN : WarmLoad(ok, sent)
    BY <1>10, NWarmLoad
  <1>11. CASE CoordStep
    BY <1>11, NCoordRead DEF CoordStep
  <1> QED
    BY <1>1, <1>2, <1>3, <1>4, <1>5, <1>6, <1>7, <1>8, <1>9, <1>10, <1>11
    DEF Next, CallerStep, WarmerStep

LEMMA NInvariance == Spec => [](Unfailing => NInv)
  <1>1. Init => (Unfailing => NInv)
    BY NInit
  <1>2. IInv /\ (Unfailing => NInv) /\ [Next]_vars => (Unfailing => NInv)'
    BY NNext
  <1> QED
    BY <1>1, <1>2, Invariance, PTL DEF Spec

(* Every slot the caller computes on holds the bytes of the expert it was given
   for: those ready when begin returns, while finish's reads of the others are in
   flight, and all of them from finish (and over the further requests of
   fetch_many and, on a GPU, its reads ahead) until the next call, whatever the
   warmer and the reads ahead do meanwhile. *)
THEOREM LeasesHold == Spec => [](Unfailing => LeaseRight)
  <1>1. ASSUME IInv, NInv
        PROVE  LeaseRight
    <2>1. ReadInv /\ BytesInv /\ LeaseInv
      BY <1>1 DEF NInv
    <2>2. ASSUME NEW q \in lease
          PROVE  q[1] # None /\ content[q[1]] = q[2]
      <3>1. q[1] \in Slots /\ key[q[1]] = q[2] /\ q[1] \notin SlotsOf(Coming) /\ q[2] \in Keys
        BY <1>1, <2>1 DEF LeaseInv, IInv, Types, CallT
      <3>2. q[1] # None /\ q[2] # None
        BY <3>1, Constants
      <3>3. <<q[1], q[2]>> \notin Coming
        BY <3>1 DEF SlotsOf
      <3> QED
        BY <2>1, <3>1, <3>2, <3>3 DEF BytesInv
    <2>3. ASSUME at = "begun", NEW j \in call.ready
          PROVE  content[call.got[j]] = <<call.layer, call.ids[j]>>
      <3>1. Serving /\ ~\E p \in Parities : Listing(p)
        BY <2>3 DEF Serving, Listing
      <3>2. /\ j \in 1 .. Len(call.got) /\ call.got[j] # None
            /\ call.got[j] \notin SlotsOf(jobs \cup ring)
        BY <2>1, <3>1 DEF BytesInv
      <3>3. call.got[j] \in used /\ key[call.got[j]] = Asked(j)
        BY <1>1, <3>1, <3>2 DEF IInv, GotInv
      <3>4. PICK s : s = call.got[j]
        OBVIOUS
      <3>5. s \in Slots
        BY <1>1, <3>3, <3>4 DEF IInv, Types, ReadT
      <3>6. PICK k : k = Asked(j)
        OBVIOUS
      <3>7. key[s] = k /\ k # None
        <4>1. key[s] \in Keys \cup {None}
          BY <1>1, <3>5 DEF IInv, MapOK, MapT
        <4>2. j \in 1 .. Len(call.ids)
          BY <1>1, <2>3, <3>1, <3>2 DEF IInv, CallInv
        <4>3. k \in Keys
          BY <1>1, <3>6, <4>2 DEF IInv, Types, CallT, Calls, Asked, Keys
        <4> QED
          BY <3>3, <3>4, <3>6, <4>3, Constants
      <3>8. <<s, k>> \notin jobs /\ <<s, k>> \notin ring
        BY <3>2, <3>4 DEF SlotsOf
      <3>9. ASSUME NEW p \in Parities, pf[p].inflight
            PROVE  <<s, k>> \notin pf[p].reads
        BY <1>1, <2>1, <3>1, <3>2, <3>4, <3>9, GotClear DEF Ours, SlotsOf
      <3>10. <<s, k>> \notin Coming
        BY <3>1, <3>8, <3>9, ComingIs
      <3>11. content[s] = k
        BY <2>1, <3>5, <3>7, <3>10 DEF BytesInv
      <3> QED
        BY <3>4, <3>6, <3>11 DEF Asked
    <2> QED
      BY <2>2, <2>3 DEF LeaseRight
  <1> QED
    BY <1>1, Invariance, NInvariance, PTL

(* No read lands in a slot that has been given to another expert or that the
   caller computes on, nor do two land in one; and janas_expert_cache_destroy
   frees the arena once the warmer is joined and no read can land in it. *)
THEOREM ReadsComeHome == Spec => [](Unfailing => ReadsLandHome)
  <1>1. ASSUME IInv, NInv
        PROVE  ReadsLandHome
    <2>1. ReadInv /\ LeaseInv
      BY <1>1 DEF NInv
    <2>2. \A r \in Flying : r \in Coming
      BY DEF Coming
    <2>3. \A r \in Flying : key[r[1]] = r[2] /\ r = <<r[1], r[2]>>
      BY <1>1, <2>1, <2>2, HomeIs
    <2>4. \A r \in Flying : \A q \in lease : q[1] # r[1]
      BY <2>1, <2>2 DEF LeaseInv, SlotsOf
    <2>5. \A r, q \in Flying : r[1] = q[1] => r = q
      BY <2>3
    <2>6. ASSUME at = "freed"
          PROVE  Flying = {} /\ warm_over
      BY <2>1, <2>6 DEF ReadInv, Flying
    <2> QED
      BY <2>3, <2>4, <2>5, <2>6 DEF ReadsLandHome
  <1> QED
    BY <1>1, Invariance, NInvariance, PTL

(* Once janas_expert_cache_resident has given the arena, with every expert held
   and nothing being read, no slot's bytes change any more: the copy its caller
   takes to a GPU stays true over all later requests, reads ahead and demotions. *)
THEOREM CopyStaysTrue == Spec => [](Unfailing => CopyTrue)
  <1>1. NInv => CopyTrue
    BY DEF NInv, CopyInv, CopyTrue
  <1> QED
    BY <1>1, NInvariance, PTL

=============================================================================
