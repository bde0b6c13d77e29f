---------------------------- MODULE ExpertCache ----------------------------
(***************************************************************************)
(* The cache of routed experts of src/src/llm/expert_cache.c: a fixed set  *)
(* of slots, replaced least recently used first (or the slot wanted again  *)
(* latest, when a pass is larger than the cache), filled by three kinds of *)
(* reads that overlap the computation:                                     *)
(*   - the misses of a request, between begin and finish, through the ring *)
(*     or through the coordinator and its pool;                            *)
(*   - reads ahead of the next layer (prefetch), one set per parity;       *)
(*   - the background filling by the warmer thread, one expert at a time.  *)
(*                                                                         *)
(* The caller holds api_lock from begin to finish and for the whole of     *)
(* every other call, so the loops of a call are steps that only kernel     *)
(* reads can interleave with.  A read lands when it is waited for, the     *)
(* last moment it can.  The linked lists are sequences, most recently used *)
(* first; stamps are the set of slots that carry the current request's.    *)
(* Statistics, the moved arena (rebase) and the slots apart of an MTP      *)
(* block (another cache of this kind) are left out.                        *)
(***************************************************************************)
EXTENDS Integers, Sequences, FiniteSets, Functions

CONSTANTS
  NLayers,            \* n_layer
  Experts,            \* of each layer
  SlotOrder,          \* the slots, as creation lists them
  SlotCounts,         \* how many of them a cache is created with
  None,               \* NONE
  PfMax,              \* reads ahead at most: an eighth of the slots in the code
  Chunk,              \* experts in one request of fetch_many: 256 in the code
  RingSizes,          \* lengths of batches that go through the ring (by_ring)
  WarmOrder,          \* the keys the background filling is to read, in order
  Asks(_),            \* bound: what calls ask of a cache of so many slots, in order
  MaxFaults,          \* bound: reads or submissions that fail
  PfFaults, MainFaults, \* which reads may: those ahead, the others
  GpuAhead            \* reads ahead while a GPU still works on fetch_many's slots

Slots == Range(SlotOrder)
Layers == 0 .. (NLayers - 1)
Keys == Layers \X Experts
Parities == 0 .. 1                     \* of the layers: a set of reads ahead each

ASSUME CacheAssumption ==
  /\ NLayers \in Nat \ {0} /\ PfMax \in Nat /\ RingSizes \subseteq 1 .. Len(SlotOrder)
  /\ Chunk \in Nat \ {0} /\ MaxFaults \in Nat
  /\ IsFiniteSet(Experts)
  /\ SlotOrder \in Seq(Slots) /\ Cardinality(Slots) = Len(SlotOrder)
  /\ SlotCounts \subseteq 1 .. Len(SlotOrder)
  /\ \A n \in SlotCounts : \A q \in Asks(n) : q \in Seq(Experts) /\ Len(q) \in 1 .. n
  /\ None \notin Slots /\ None \notin Keys
  /\ WarmOrder \in Seq(Keys)
  /\ PfFaults \in BOOLEAN /\ MainFaults \in BOOLEAN /\ GpuAhead \in BOOLEAN

VARIABLES
  (* the map, and what is held where *)
  where, key, lru, llist, filled,
  used,               \* the slots stamped by the current request
  cur_layer, pass_asked,
  pass_larger,        \* last_pass_asked > n_slots, all that is read of it
  content,            \* what the bytes of each slot are; None: nothing whole
  (* reads, each <<slot, key>>: queued, in the ring, and ahead by parity *)
  jobs, ring, pf, pf_flag,
  pending, batch_rc, via_ring,
  api_lock,
  (* the caller: where it is, its call, and the slots it computes on *)
  at, call, lost, lease,
  (* the warmer *)
  warm, warm_stop, warm_over,
  copy,               \* of the arena, taken once it is resident; None before
  faults

mapVars == <<where, key, lru, llist, filled, used>>
passVars == <<cur_layer, pass_asked, pass_larger>>
readVars == <<content, jobs, ring, pf, pf_flag>>
batchVars == <<pending, batch_rc, via_ring>>
callVars == <<at, call, lost, lease>>
warmVars == <<warm, warm_stop, warm_over, copy>>
vars == <<mapVars, passVars, readVars, batchVars, api_lock, callVars, warmVars,
          faults>>

(* The call in progress: i is where its loop over ids is. *)
NoCall == [layer |-> 0, ids |-> <<>>, got |-> <<>>, ready |-> {}, rest |-> <<>>,
           many |-> FALSE, i |-> 1]
NoSet == [reads |-> {}, layer |-> 0, inflight |-> FALSE]

NSlots == Len(lru)                     \* n_slots: the list holds every slot

Init ==
  /\ where = [k \in Keys |-> None] /\ key = [s \in Slots |-> None]
  /\ \E n \in SlotCounts : lru = SubSeq(SlotOrder, 1, n)
  /\ llist = [l \in Layers |-> <<>>]
  /\ filled = 0 /\ used = {}
  /\ cur_layer = 0 /\ pass_asked = 0 /\ pass_larger = FALSE
  /\ content = [s \in Slots |-> None]
  /\ jobs = {} /\ ring = {} /\ pf = [p \in Parities |-> NoSet] /\ pf_flag = {}
  /\ pending = FALSE /\ batch_rc = 0 /\ via_ring = FALSE
  /\ api_lock = "free"
  /\ at = "idle" /\ call = NoCall /\ lost = FALSE /\ lease = {}
  /\ warm = WarmOrder /\ warm_stop = FALSE /\ warm_over = FALSE
  /\ copy = None /\ faults = 0

-----------------------------------------------------------------------------
(* Lists, and the slot to reuse.                                           *)

(* The slots of S unlinked: the others, in their order. *)
Without(q, S) ==
  LET left == {i \in DOMAIN q : q[i] \notin S}
      Nth(n) == CHOOSE i \in left : Cardinality({j \in left : j <= i}) = n
  IN  [n \in 1 .. Cardinality(left) |-> q[Nth(n)]]

(* As Front, but put there without being taken out first. *)
Front_NoUnlink(q, s) == <<s>> \o q
Front(q, s) == <<s>> \o Without(q, {s})
Back(q, s) == Append(Without(q, {s}), s)

(* The least recently used slot of a list that may go. *)
LastFree(q, u) ==
  LET free == {i \in DOMAIN q : q[i] \notin u /\ q[i] \notin pf_flag}
  IN  IF free = {} THEN None ELSE q[CHOOSE i \in free : \A j \in free : j <= i]

(* The current layer's first, then the one before, and back from there. *)
WantedLatest(u) ==
  LET Ago(d) == LastFree(llist[(cur_layer + NLayers - d) % NLayers], u)
      ds == {d \in Layers : Ago(d) # None}
  IN  IF ds = {} THEN None ELSE Ago(CHOOSE d \in ds : \A x \in ds : d <= x)

(* Never a slot read ahead, nor one of u, those stamped by the request. *)
victim(u) ==
  IF filled = NSlots /\ pass_larger /\ WantedLatest(u) # None
  THEN WantedLatest(u) ELSE LastFree(lru, u)

(* As Assign, but counting every slot given as one more in use. *)
Assign_CountsAll(s, k, front) ==
  LET old == key[s]
      away == IF old = None THEN llist
              ELSE [llist EXCEPT ![old[1]] = Without(@, {s})]
      Put(q) == IF front THEN Front(q, s) ELSE Back(q, s)
  IN  /\ key' = [key EXCEPT ![s] = k]
      /\ where' = [j \in Keys |-> IF j = k THEN s ELSE IF j = old THEN None ELSE where[j]]
      /\ filled' = filled + 1
      /\ llist' = [away EXCEPT ![k[1]] = Put(@)]
      /\ lru' = Put(lru)

(* Slot s leaves the expert it holds, if any, for k: to the front of the lines
   of those to keep, or (a read ahead) to their back. *)
Assign(s, k, front) ==
  LET old == key[s]
      away == IF old = None THEN llist
              ELSE [llist EXCEPT ![old[1]] = Without(@, {s})]
      Put(q) == IF front THEN Front(q, s) ELSE Back(q, s)
  IN  /\ key' = [key EXCEPT ![s] = k]
      /\ where' = [j \in Keys |-> IF j = k THEN s ELSE IF j = old THEN None ELSE where[j]]
      /\ filled' = IF old = None THEN filled + 1 ELSE filled
      /\ llist' = [away EXCEPT ![k[1]] = Put(@)]
      /\ lru' = Put(lru)

(* load: a slot for k, not one of u, and its read queued. *)
load(k, u) ==
  /\ Assign(victim(u), k, TRUE)
  /\ used' = u \cup {victim(u)}
  /\ jobs' = jobs \cup {<<victim(u), k>>}

(* As touch, but a hit is not stamped. *)
touch_NoStamp(s) ==
  /\ lru' = Front(lru, s)
  /\ llist' = [llist EXCEPT ![key[s][1]] = Front(@, s)]
  /\ UNCHANGED used

touch(s) ==
  /\ lru' = Front(lru, s)
  /\ llist' = [llist EXCEPT ![key[s][1]] = Front(@, s)]
  /\ used' = used \cup {s}

(* What the bytes are once the reads R have been waited for; of a batch that
   failed, any of its reads may have landed.  No two of R are of one slot while
   ReadsLandHome holds. *)
Landed(R, D) ==
  [s \in Slots |->
     IF \E r \in R : r[1] = s
     THEN LET r == CHOOSE x \in R : x[1] = s IN IF r \in D THEN r[2] ELSE None
     ELSE content[s]]

(* How a wait ends: well, or not where the run has faults left. *)
Ends(ok, may) ==
  IF ok THEN UNCHANGED faults ELSE may /\ faults < MaxFaults /\ faults' = faults + 1

-----------------------------------------------------------------------------
(* Reads ahead, complete or settled.                                       *)

SlotsOf(R) == {r[1] : r \in R}
ReadsOf(P) == UNION {pf[p].reads : p \in P}

(* As pf_collect, but on an error only the slot forgets its expert. *)
pf_collect_KeepsWhere(P, F) ==
  LET due == {p \in P : pf[p].inflight}
      S == SlotsOf(ReadsOf(F))
  IN  /\ F \subseteq due /\ (F = {} \/ PfFaults)
      /\ faults + Cardinality(F) <= MaxFaults /\ faults' = faults + Cardinality(F)
      /\ content' = Landed(ReadsOf(due), ReadsOf(due \ F))
      /\ key' = [s \in Slots |-> IF s \in S THEN None ELSE key[s]]
      /\ llist' = [l \in Layers |-> Without(llist[l], S)]
      /\ filled' = filled - Cardinality(S)
      /\ UNCHANGED where

(* pf_collect of the sets P, those of F failing: the slots of these are emptied,
   so that nothing takes them for what they were to hold. *)
pf_collect(P, F) ==
  LET due == {p \in P : pf[p].inflight}
      S == SlotsOf(ReadsOf(F))
  IN  /\ F \subseteq due /\ (F = {} \/ PfFaults)
      /\ faults + Cardinality(F) <= MaxFaults /\ faults' = faults + Cardinality(F)
      /\ content' = Landed(ReadsOf(due), ReadsOf(due \ F))
      /\ where' = [k \in Keys |-> IF where[k] \in S THEN None ELSE where[k]]
      /\ key' = [s \in Slots |-> IF s \in S THEN None ELSE key[s]]
      /\ llist' = [l \in Layers |-> Without(llist[l], S)]
      /\ filled' = filled - Cardinality(S)

(* As pf_settle, but the slots of a set that failed stay held. *)
pf_settle_KeepsFailed(P, F) ==
  /\ pf_collect(P, F)
  /\ pf_flag' = pf_flag \ SlotsOf(ReadsOf(P \ F))
  /\ pf' = [p \in Parities |-> IF p \in P THEN NoSet ELSE pf[p]]

(* pf_settle: complete, and no longer kept. *)
pf_settle(P, F) ==
  /\ pf_collect(P, F)
  /\ pf_flag' = pf_flag \ SlotsOf(ReadsOf(P))
  /\ pf' = [p \in Parities |-> IF p \in P THEN NoSet ELSE pf[p]]

-----------------------------------------------------------------------------
(* begin and finish.                                                       *)

Goto(a) == at' = a /\ UNCHANGED call
Done(a) == at' = a /\ call' = [NoCall EXCEPT !.many = call.many]
Cap(n) == IF n > NSlots THEN NSlots + 1 ELSE n   \* read only to compare with n_slots

(* begin_req up to its loops.  With same the request is the one before's still,
   and its stamps hold.  Reads ahead for this layer, or for one it went past, are
   waited for. *)
Ask(l, ids, same, F) ==
  LET here == {p \in Parities : pf[p].reads # {} /\ l >= pf[p].layer}
  IN  /\ api_lock = "free" /\ api_lock' = "caller"
      /\ used' = IF same THEN used ELSE {}
      /\ cur_layer' = l
      /\ pass_larger' = IF l < cur_layer THEN pass_asked > NSlots ELSE pass_larger
      /\ pass_asked' = Cap(Len(ids) + IF l < cur_layer THEN 0 ELSE pass_asked)
      /\ pf_collect(here, F)
      /\ pf' = [p \in Parities |-> IF p \in here THEN [pf[p] EXCEPT !.inflight = FALSE]
                                    ELSE pf[p]]
      /\ at' = "hits"
      /\ UNCHANGED <<lru, jobs, ring, pf_flag, batchVars, lost, warmVars>>

(* janas_expert_cache_begin: the pointers of the call before are void. *)
begin(l, ids, F) ==
  /\ at = "idle"
  /\ Ask(l, ids, FALSE, F)
  /\ call' = [NoCall EXCEPT !.layer = l, !.ids = ids]
  /\ lease' = {}

(* A request of fetch_many: the first Chunk of the ids left. *)
AskSome(l, ids, same, F) ==
  LET n == IF Len(ids) < Chunk THEN Len(ids) ELSE Chunk
      now == SubSeq(ids, 1, n)
  IN  /\ Ask(l, now, same, F)
      /\ call' = [NoCall EXCEPT !.layer = l, !.ids = now, !.many = TRUE,
                                !.rest = SubSeq(ids, n + 1, Len(ids))]

(* janas_expert_cache_fetch_many: the first of its requests, and the others
   once the one before has finished and let the lock go. *)
fetch_many(l, ids, F) ==
  /\ at = "idle"
  /\ 2 * Len(ids) <= NSlots
  /\ AskSome(l, ids, FALSE, F)
  /\ lease' = {}

(* As FetchNext, but a request of its own, with the stamps before it void. *)
FetchNext_Anew(F) ==
  /\ at = "again"
  /\ AskSome(call.layer, call.rest, FALSE, F)
  /\ UNCHANGED lease

FetchNext(F) ==
  /\ at = "again"
  /\ AskSome(call.layer, call.rest, TRUE, F)
  /\ UNCHANGED lease

AskedKey == <<call.layer, call.ids[call.i]>>
(* One more of the call's experts done, with slot s (or None). *)
Advance(here, next, s) ==
  /\ at' = IF call.i = Len(call.ids) THEN next ELSE here
  /\ call' = [call EXCEPT !.i = IF call.i = Len(call.ids) THEN 1 ELSE @ + 1,
                          !.got = IF here = "hits" THEN Append(@, s) ELSE [@ EXCEPT ![call.i] = s],
                          !.ready = IF here = "hits" /\ s # None THEN @ \cup {call.i} ELSE @]

(* The hits first, so that they are stamped before any victim is chosen. *)
Hit ==
  /\ at = "hits"
  /\ LET s == where[AskedKey] IN
     /\ IF s = None THEN UNCHANGED <<lru, llist, used>> ELSE touch(s)
     /\ Advance("hits", "settle", s)
  /\ UNCHANGED <<where, key, filled, passVars, readVars, batchVars, api_lock,
                 lost, lease, warmVars, faults>>

(* A set of a layer gone past, or of the pass before, is settled. *)
SettlePast(F) ==
  /\ at = "settle"
  /\ pf_settle({p \in Parities : /\ pf[p].reads # {}
                                  /\ pf[p].layer \notin call.layer .. (call.layer + 1)}, F)
  /\ Goto("loads")
  /\ UNCHANGED <<lru, used, passVars, jobs, ring, batchVars, api_lock, lost, lease,
                 warmVars>>

(* An expert found, or asked for twice and loaded already. *)
Found ==
  /\ at = "loads"
  /\ call.got[call.i] # None \/ where[AskedKey] # None
  /\ Advance("loads", "start",
             IF call.got[call.i] # None THEN call.got[call.i] ELSE where[AskedKey])
  /\ UNCHANGED <<mapVars, passVars, readVars, batchVars, api_lock, lost, lease,
                 warmVars, faults>>

(* A miss gets a slot; once both sets are settled there should be one. *)
Miss ==
  /\ at \in {"loads", "reload"}
  /\ call.got[call.i] = None /\ where[AskedKey] = None
  /\ at = "loads" => victim(used) # None
  /\ IF victim(used) = None THEN UNCHANGED <<mapVars, jobs>> ELSE load(AskedKey, used)
  /\ Advance("loads", "start", victim(used))
  /\ UNCHANGED <<passVars, content, ring, pf, pf_flag, batchVars, api_lock, lost,
                 lease, warmVars, faults>>

(* Every free slot held by reads ahead: both sets settled, and again. *)
SettleAll(F) ==
  /\ at = "loads"
  /\ call.got[call.i] = None /\ where[AskedKey] = None
  /\ victim(used) = None
  /\ pf_settle(Parities, F)
  /\ Goto("reload")
  /\ UNCHANGED <<lru, used, passVars, jobs, ring, batchVars, api_lock, lost, lease,
                 warmVars>>

(* start_jobs: the reads handed to the ring, or the coordinator told.  Reads a
   failed submission left queued are the wait's to hand over. *)
Start(ok) ==
  /\ at = "start"
  /\ lost' = (None \in Range(call.got))
  /\ via_ring' = (Cardinality(jobs) \in RingSizes)
  /\ pending' = (jobs # {} /\ ~via_ring')
  /\ IF via_ring'
     THEN /\ Ends(ok, MainFaults)
          /\ ring' = ring \cup jobs /\ jobs' = {}
          /\ batch_rc' = IF ok THEN batch_rc ELSE -1
     ELSE ok /\ UNCHANGED <<ring, jobs, batch_rc, faults>>
  /\ Goto("begun")
  /\ UNCHANGED <<mapVars, passVars, content, pf, pf_flag, api_lock, lease, warmVars>>

(* As CoordRead, but pending stays set. *)
CoordRead_NotTold(ok, D) ==
  /\ pending
  /\ D \subseteq jobs /\ (ok => D = jobs)
  /\ Ends(ok, MainFaults)
  /\ content' = Landed(jobs, D)
  /\ jobs' = {} /\ UNCHANGED pending
  /\ batch_rc' = IF ok THEN 0 ELSE -1
  /\ UNCHANGED <<mapVars, passVars, ring, pf, pf_flag, via_ring, api_lock,
                 callVars, warmVars>>

(* coordinator_main: the batch read on the pool, and its end told. *)
CoordRead(ok, D) ==
  /\ pending
  /\ D \subseteq jobs /\ (ok => D = jobs)
  /\ Ends(ok, MainFaults)
  /\ content' = Landed(jobs, D)
  /\ jobs' = {} /\ pending' = FALSE
  /\ batch_rc' = IF ok THEN 0 ELSE -1
  /\ UNCHANGED <<mapVars, passVars, ring, pf, pf_flag, via_ring, api_lock,
                 callVars, warmVars>>

Given == {<<call.got[i], <<call.layer, call.ids[i]>>>> : i \in DOMAIN call.ids}

(* The call returns rc: with slots to compute on, or none of them. *)
Return(rc) ==
  /\ IF rc = 0 /\ call.rest # <<>> THEN Goto("again") ELSE Done("idle")
  /\ lease' = IF rc = 0 THEN lease \cup Given ELSE {}
  /\ batch_rc' = 0 /\ lost' = FALSE /\ via_ring' = FALSE   \* not read until set again
  /\ api_lock' = "free"
  /\ UNCHANGED <<mapVars, passVars, pf, pf_flag, jobs, pending, warmVars>>

(* janas_expert_cache_finish, by the ring: its reads are waited for. *)
FinishRing(ok, D) ==
  /\ at = "begun" /\ via_ring
  /\ D \subseteq ring /\ (ok => D = ring)
  /\ Ends(ok, MainFaults)
  /\ content' = Landed(ring, D)
  /\ ring' = {}
  /\ Return(IF ok /\ batch_rc = 0 /\ ~lost THEN 0 ELSE -1)

(* ... or by the coordinator, once it has read the batch. *)
FinishPool ==
  /\ at = "begun" /\ ~via_ring /\ ~pending
  /\ Return(IF batch_rc = 0 /\ ~lost THEN 0 ELSE -1)
  /\ UNCHANGED <<content, ring, faults>>

-----------------------------------------------------------------------------
(* janas_expert_cache_prefetch.  The slots given before are void, as after    *)
(* any call; but a prompt's block on a GPU (gpu_token_moe.c) reads ahead      *)
(* between fetch_many and the products on its slots.                         *)

prefetch(l, ids, F) ==
  /\ at = "idle" /\ PfMax > 0
  /\ api_lock = "free" /\ api_lock' = "caller"
  /\ pf_settle({l % 2}, F)             \* a set left over: its layer never asked
  /\ at' = "pfloop"
  /\ call' = [NoCall EXCEPT !.layer = l, !.ids = ids, !.many = call.many]
  /\ lease' = IF call.many /\ GpuAhead THEN lease ELSE {}
  /\ UNCHANGED <<lru, used, passVars, jobs, ring, batchVars, lost, warmVars>>

Ahead == call.layer % 2               \* the set of the call's parity
PfGoOn == call.i <= Len(call.ids) /\ Cardinality(pf[Ahead].reads) < PfMax

PfSkip ==
  /\ at = "pfloop" /\ PfGoOn
  /\ where[AskedKey] # None
  /\ at' = "pfloop" /\ call' = [call EXCEPT !.i = @ + 1]
  /\ UNCHANGED <<mapVars, passVars, readVars, batchVars, api_lock, lost, lease,
                 warmVars, faults>>

(* As PfTake, but the slot is not flagged. *)
PfTake_NoFlag ==
  /\ at = "pfloop" /\ PfGoOn
  /\ where[AskedKey] = None /\ victim(used) # None
  /\ Assign(victim(used), AskedKey, FALSE)
  /\ pf' = [pf EXCEPT ![Ahead].reads = @ \cup {<<victim(used), AskedKey>>}]
  /\ at' = "pfloop" /\ call' = [call EXCEPT !.i = @ + 1]
  /\ UNCHANGED <<used, passVars, content, jobs, ring, pf_flag, batchVars, api_lock,
                 lost, lease, warmVars, faults>>

(* A slot taken for a read ahead, last in line and flagged. *)
PfTake ==
  /\ at = "pfloop" /\ PfGoOn
  /\ where[AskedKey] = None /\ victim(used) # None
  /\ Assign(victim(used), AskedKey, FALSE)
  /\ pf_flag' = pf_flag \cup {victim(used)}
  /\ pf' = [pf EXCEPT ![Ahead].reads = @ \cup {<<victim(used), AskedKey>>}]
  /\ at' = "pfloop" /\ call' = [call EXCEPT !.i = @ + 1]
  /\ UNCHANGED <<used, passVars, content, jobs, ring, batchVars, api_lock, lost,
                 lease, warmVars, faults>>

PfEnd == PfGoOn => where[AskedKey] = None /\ victim(used) = None

PfSubmit ==
  /\ at = "pfloop" /\ PfEnd
  /\ pf' = IF pf[Ahead].reads = {} THEN pf
           ELSE [pf EXCEPT ![Ahead].layer = call.layer, ![Ahead].inflight = TRUE]
  /\ Done("idle") /\ api_lock' = "free"
  /\ UNCHANGED <<mapVars, passVars, content, jobs, ring, pf_flag, batchVars, lost,
                 lease, warmVars, faults>>

(* The submission fails: settled at once, the wait handing over what it can. *)
PfSubmitFails ==
  /\ at = "pfloop" /\ PfEnd
  /\ pf[Ahead].reads # {}
  /\ pf' = [pf EXCEPT ![Ahead].layer = call.layer, ![Ahead].inflight = TRUE]
  /\ Ends(FALSE, PfFaults)
  /\ Goto("pfdrop")
  /\ UNCHANGED <<mapVars, passVars, content, jobs, ring, pf_flag, batchVars,
                 api_lock, lost, lease, warmVars>>

PfDrop(F) ==
  /\ at = "pfdrop"
  /\ pf_settle({Ahead}, F)
  /\ Done("idle") /\ api_lock' = "free"
  /\ UNCHANGED <<lru, used, passVars, jobs, ring, batchVars, lost, lease, warmVars>>

(* janas_expert_cache_demote, of one expert: copied to a card, first to go. *)
demote(k) ==
  /\ at = "idle" /\ api_lock = "free"
  /\ where[k] # None /\ where[k] \notin pf_flag
  /\ lru' = Back(lru, where[k])
  /\ llist' = [llist EXCEPT ![k[1]] = Back(@, where[k])]
  /\ lease' = lease \ {<<where[k], k>>}
  /\ UNCHANGED <<where, key, filled, used, passVars, readVars, batchVars,
                 api_lock, at, call, lost, warmVars, faults>>

(* As part_complete, but reads ahead in flight are not asked about. *)
part_complete_Ahead ==
  /\ ~pending /\ warm_over
  /\ filled >= Cardinality(Keys)

(* part_complete: every expert held, and nothing being read. *)
part_complete ==
  /\ ~pending /\ warm_over
  /\ pf[0].reads = {} /\ pf[1].reads = {}
  /\ filled >= Cardinality(Keys)

(* janas_expert_cache_resident, and the copy of the arena its caller makes. *)
resident ==
  /\ at = "idle" /\ api_lock = "free" /\ copy = None
  /\ part_complete
  /\ copy' = content
  /\ UNCHANGED <<mapVars, passVars, readVars, batchVars, api_lock, callVars, warm,
                 warm_stop, warm_over, faults>>

-----------------------------------------------------------------------------
(* warmer_main: one expert at a time, under the lock, while the caller has    *)
(* been quiet long enough (it may have been, whenever the lock is free).      *)

WarmEnd ==
  /\ ~warm_over /\ api_lock = "free"
  /\ warm = <<>> \/ warm_stop \/ filled >= NSlots
  /\ warm_over' = TRUE
  /\ UNCHANGED <<mapVars, passVars, readVars, batchVars, api_lock, callVars, warm,
                 warm_stop, copy, faults>>

Warming == ~warm_over /\ api_lock = "free" /\ warm # <<>> /\ ~warm_stop /\ filled < NSlots

WarmSkip ==
  /\ Warming
  /\ where[Head(warm)] # None
  /\ warm' = Tail(warm)
  /\ UNCHANGED <<mapVars, passVars, readVars, batchVars, api_lock, callVars,
                 warm_stop, warm_over, copy, faults>>

(* A request of its own, so the stamps of the caller's last are void, and its
   read waited for; not if the ring would not take it.  There is always a slot
   to take (NeverLost). *)
WarmLoad(ok, sent) ==
  LET s == victim({})
      job == <<s, Head(warm)>>
      ends == IF 1 \in RingSizes THEN ring \cup {job} ELSE {job}   \* all the ring has
  IN  /\ Warming
      /\ where[Head(warm)] = None /\ s # None
      /\ Assign(s, Head(warm), TRUE)
      /\ used' = {s}
      /\ Ends(ok, MainFaults)
      /\ ok => sent
      /\ 1 \notin RingSizes => sent
      /\ content' = IF sent THEN Landed(ends, IF ok THEN ends ELSE {}) ELSE content
      /\ ring' = IF ~sent THEN ring \cup {job} ELSE IF 1 \in RingSizes THEN {} ELSE ring
      /\ warm' = Tail(warm)
      /\ warm_over' = ~ok
      /\ UNCHANGED <<passVars, jobs, pf, pf_flag, batchVars, api_lock, callVars,
                     warm_stop, copy>>

-----------------------------------------------------------------------------
(* janas_expert_cache_destroy.                                               *)

destroy ==
  /\ at = "idle" /\ api_lock = "free"
  /\ warm_stop' = TRUE
  /\ Goto("djoin") /\ lease' = {}
  /\ UNCHANGED <<mapVars, passVars, readVars, batchVars, api_lock, lost, warm,
                 warm_over, copy, faults>>

(* The warmer joined, the reads ahead waited for, the coordinator stopped. *)
DestroyJoin ==
  /\ at = "djoin" /\ warm_over /\ ~pending
  /\ content' = Landed(pf[0].reads \cup pf[1].reads, pf[0].reads \cup pf[1].reads)
  /\ pf' = [p \in Parities |-> NoSet] /\ pf_flag' = {}
  /\ Goto("freed")
  /\ UNCHANGED <<mapVars, passVars, jobs, ring, batchVars, api_lock, lost, lease,
                 warmVars, faults>>

Freed == at = "freed" /\ UNCHANGED vars

CallerStep ==
  \/ Hit \/ Found \/ Miss \/ FinishPool
  \/ PfSkip \/ PfTake \/ PfSubmit \/ PfSubmitFails \/ DestroyJoin
  \/ \E F \in SUBSET Parities : FetchNext(F) \/ SettlePast(F) \/ SettleAll(F) \/ PfDrop(F)
  \/ \E ok \in BOOLEAN : Start(ok) \/ \E D \in SUBSET ring : FinishRing(ok, D)

WarmerStep ==
  \/ WarmEnd \/ WarmSkip
  \/ \E ok, sent \in BOOLEAN : WarmLoad(ok, sent)

CoordStep == \E ok \in BOOLEAN : \E D \in SUBSET jobs : CoordRead(ok, D)

Next ==
  \/ \E l \in Layers, ids \in Asks(NSlots), F \in SUBSET Parities :
       begin(l, ids, F) \/ fetch_many(l, ids, F) \/ prefetch(l, ids, F)
  \/ \E k \in Keys : demote(k)
  \/ resident
  \/ destroy \/ CallerStep \/ WarmerStep \/ CoordStep \/ Freed

Spec == Init /\ [][Next]_vars

(* A call once begun goes on, and so do the two threads of the cache. *)
FairSpec ==
  Spec /\ WF_vars(CallerStep) /\ WF_vars(WarmerStep) /\ WF_vars(CoordStep)

-----------------------------------------------------------------------------
(* Properties.                                                             *)

Reads == Slots \X Keys
(* Every read queued or handed to the kernel, and not waited for yet. *)
Flying == jobs \cup ring \cup UNION {pf[p].reads : p \in {q \in Parities : pf[q].inflight}}

(* Every variable has its type: the list stays as long as the cache has slots,
   and no more of them are filled than there are. *)
TypeOK ==
  /\ where \in [Keys -> Slots \cup {None}] /\ key \in [Slots -> Keys \cup {None}]
  /\ lru \in Seq(Slots) /\ NSlots \in SlotCounts /\ \A l \in Layers : Range(llist[l]) \subseteq Slots
  /\ filled \in 0 .. NSlots /\ used \subseteq Slots
  /\ cur_layer \in Layers /\ pass_asked \in 0 .. (NSlots + 1) /\ pass_larger \in BOOLEAN
  /\ content \in [Slots -> Keys \cup {None}]
  /\ jobs \subseteq Reads /\ ring \subseteq Reads /\ pf_flag \subseteq Slots
  /\ \A p \in Parities : /\ pf[p].reads \subseteq Reads /\ pf[p].layer \in Layers
                        /\ pf[p].inflight \in BOOLEAN
  /\ pending \in BOOLEAN /\ batch_rc \in {0, -1} /\ via_ring \in BOOLEAN
  /\ api_lock \in {"free", "caller"}
  /\ at \in {"idle", "hits", "settle", "loads", "reload", "start",
             "begun", "again", "pfloop", "pfdrop", "djoin", "freed"}
  /\ lost \in BOOLEAN /\ lease \subseteq (Slots \cup {None}) \X Keys
  /\ Range(warm) \subseteq Keys /\ warm_stop \in BOOLEAN /\ warm_over \in BOOLEAN
  /\ faults \in 0 .. MaxFaults

(* The map, its inverse, the count of slots in use and the two kinds of list,
   which begin, prefetch, a failed read ahead, demote and the warmer all rewrite
   piecemeal, agree: every slot in the one list once, and each expert's slot in
   its layer's list once. *)
MapConsistent ==
  /\ \A k \in Keys, s \in Slots : where[k] = s <=> key[s] = k
  /\ filled = Cardinality({s \in Slots : key[s] # None})
  /\ Cardinality(Range(lru)) = NSlots /\ \A s \in Slots : key[s] # None => s \in Range(lru)
  /\ \A l \in Layers :
       /\ Range(llist[l]) = {s \in Slots : key[s] # None /\ key[s][1] = l}
       /\ Len(llist[l]) = Cardinality(Range(llist[l]))

(* "Returns in slots[i] the bytes of expert ids[i]": every slot the caller
   computes on holds the expert it was given for, those ready at begin while the
   others are read, and all of them from finish until its next call, whatever
   the warmer and the reads ahead do meanwhile. *)
LeaseRight ==
  /\ \A r \in lease : r[1] # None /\ content[r[1]] = r[2]
  /\ at = "begun" =>
       \A i \in call.ready : content[call.got[i]] = <<call.layer, call.ids[i]>>

(* A read in flight, ahead or not, never lands in a slot given to another
   expert, nor in one the caller computes on, nor do two land in one slot; and
   destroy frees the arena only once no thread is left to read and no read can
   still land in it. *)
ReadsLandHome ==
  /\ \A r \in Flying : key[r[1]] = r[2] /\ \A q \in lease : q[1] # r[1]
  /\ \A r, q \in Flying : r[1] = q[1] => r = q
  /\ at = "freed" => Flying = {} /\ warm_over

(* A request for no more experts than there are slots always finds one for each:
   the reads ahead that hold the last ones are settled in time.  Nor does the
   filling ever find none, even where a failed read ahead emptied a slot it still
   holds. *)
NeverLost ==
  /\ at = "begun" => ~lost
  /\ Warming /\ where[Head(warm)] = None => victim({}) # None

(* "from then on no slot changes (there is nothing left to load), so a copy of
   it stays true - for a GPU": the arena given by janas_expert_cache_resident,
   with requests, reads ahead and demotions going on. *)
CopyTrue == copy # None => content = copy

(* Every call returns: finish from its wait for the ring or the coordinator,
   destroy from its join of a warmer that may hold the lock. *)
CallReturns == at \notin {"idle", "freed"} ~> at \in {"idle", "freed"}
=============================================================================
