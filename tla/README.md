# Verification of janas

TLA+ models of the concurrent and stateful core of janas, an inference engine
for large language models written in C (own code under `src/src/`, paths below
are relative to it), with TLC configurations that check them on small
instances and TLAPS proofs for every instance where the argument is in reach.

Contents: 1 the system, 2 the modules and the code, 3 the runs, 4 bounds,
5 fairness, 6 proofs, 7 disagreements with the code's own words, 8 what is
not modelled, 9 the plan.

To check everything: `tlc -config X.cfg M` for each pair of section 3, and
`tlapm M.tla` for each module named `...Proofs` (section 6).

## 1. The system: inventory

janas loads a model from disk, keeps what fits in memory, produces tokens on
CPU threads (and a GPU or NPU where there is one), and serves them through a
library, a terminal chat, a Node binding and an HTTP server with the OpenAI,
Anthropic and Ollama protocols.

    HTTP handlers --.                         .-- thread pool (common/pool.c)
    background      |    engine: one queue    |
    responses ------+--> one thread, one job -+-- expert cache (llm/expert_cache.c)
    runs -----------|    at a time            |        |
    batches, evals, |   (server/engine.c)     |   asynchronous reads (common/uring.c)
    vector stores --'                         '-- kernels, GPU, NPU
         |
         '--> document store, files (server/store.c, files_store.c)

### Parts with state that is hard to get right

| Part | State | Operations | Talks to | Hard because | Correct when |
|---|---|---|---|---|---|
| thread pool, `common/pool.c` | ticket, done flags, sleepers, two condition variables, function and argument in plain fields | create, set_active, run, destroy; the workers' loop | every kernel of the library calls run | lock-free publication against threads on the way to sleep; teams that shrink and grow; a thread that does not start | each thread of the team calls the run's function once, run returns after the last, nobody sleeps through a run, destroy joins all |
| expert cache, `llm/expert_cache.c` | the map expert to slot and its inverse, LRU list and one list per layer, stamps, reads queued, in the ring and ahead, the warmer's list | begin/finish, fetch_many, prefetch, demote, resident, destroy; warmer and coordinator threads | the model's layers and the GPU (`gpu_token_moe.c`) compute on the slots; ring and pool read | three kinds of reads overlap computation and each other; failures of some of several reads; the warmer takes the lock between calls | a slot in use holds its expert until the next call; no read lands elsewhere; a request that fits finds slots |
| engine and job queue, `server/engine.c` | queue, running job, closing and stop flags, jobs counted by references | submit, cancel, release, stop; the engine's loop | all handlers and workers of the server submit; `main.c` stops | jobs shared by up to three threads; two classes in one queue; a shutdown in which each step waits for threads that wait for another | references exact, order and positions right, every job taken is ended, the shutdown ends |
| background responses, `server/responses.c`, `responses_mcp.c` | cancelled flag, rounds, job of the moment | create, the rounds of tool calls, cancel, shutdown | engine, MCP servers, store | a cancel between two rounds; detached threads at shutdown | no round after a cancel; nothing touches the engine after it is freed |
| runs of the Assistants API, `server/runs.c` | the run's document, a flag its jobs watch | create, pass, cancel, tool outputs, stop and restart | engine, store, containers | a stop cuts a pass; cancel against the end of a pass | a run cut by a stop goes on at the next start |
| batches, `server/batches.c` | a document per batch (status, progress, lengths of two work files), the work files, one worker | create, cancel, get, list; the worker; stop, start | engine (low class), store, files | a kill at any step, cancels against the worker's saves, writes that fail | each line answered once and kept, a cancel sticks, every batch ends |
| document store, `server/store.c` | documents in memory, in order, with two limits, and a file for each | put, update, delete, list, trim; open | responses, conversations, assistants, runs, batches, evals | makes room by dropping the oldest, whoever uses it; kills between the steps on disk; writes that fail | what was acknowledged is found again, also after a restart; the order of the documents survives it |
| files and uploads, `files_store.c`, `uploads.c` | a table of uploads, their parts on disk, files with their .meta | add, delete; create, add part, complete, cancel | batches, vector stores, clients | parts joined outside the lock while creates make room | a completed upload is its parts, in order |
| vector stores, `vectors*.c` | per file: its JSON with a status, its chunks, its vectors, all on disk; a wake-up flag | attach, batch, cancel, update, detach, delete, search; a worker | engine (embeddings), files | each read and each write of a JSON is a section of its own: the worker against attaches, cancels, updates and deletes; restart | what is said indexed is found; no file waits for ever |
| evals, `evals.c` | runs of rows, saved row by row | create, cancel; a worker | engine (low class), store | as batches | each row graded once |
| containers, `containers.c` | sessions of the interpreter | create, run, expire, stop | runs and responses | two requests in one session, expiry | a session in use is not ended |
| asynchronous reads, `common/uring.c` | submission and completion rings, counts | queue, submit, wait | expert cache, model loading | short reads, a failing enter with reads in flight | a buffer is given back only when the kernel is done with it |
| kept conversations, `llm/api_keep*.c` | prefixes kept in memory and on disk | keep, find, evict | chat API | eviction while one is used | a prefix found is the one asked for |
| MCP client, `common/mcp_*.c` | a process or a connection, calls by number, deadlines | call, answer, restart | responses, chat | late answers, processes that end | an answer goes to its call |
| generation and tuner, `llm/generate.c`, `tuner.c` | drafted tokens and state to roll back; settings tried | accept, roll back; try, keep | model | roll back of every kind of state | output equal to that without drafts |
| Node binding, `node/` | a queue between two threads, replies | post, cancel, collect | library | replies collected while they run | each callback once |

### Parts that are algorithms, formats or I/O

Kernels and models, tokenizer, grammars and schemas, sampling, model files,
speech and vision, GPU and NPU back ends, codecs and hashes, the parsers and
printers of the HTTP protocols, HTTP and TLS, the sandbox, the download of
models, the services, the terminal programs, system information. Each is
listed in `PROJECT.json` with the reason it is left out (section 8).

The hazards these parts expose the code to, each at its line, are in
`PROJECT.json` under "hazards"; the properties of section 3 are aimed at them.

## 2. The modules and the code

| Module | Models | Kind |
|---|---|---|
| `ForkJoin` | the promise of `common/pool.h` | abstract specification |
| `ThreadPool` | `common/pool.c` | detailed, implements `ForkJoin` |
| `ThreadPoolProofs` | | proofs about `ThreadPool` |
| `UringProofs`, `DocStoreProofs`, `ServerEngineProofs`, `BatchesProofs`, `VectorStoresProofs`, `UploadsProofs`, `ExpertCacheProofs` | | proofs about the module each is named after |
| `ExpertCache`, `MCExpertCache` | `llm/expert_cache.c` | detailed; instances |
| `ServerEngine`, `MCServerEngine` | `server/engine.c` with the threads that submit to it (`chat*.c`, `responses*.c`, `runs.c`, the low workers) and the shutdown of `main.c` | composition; symmetry |
| `Batches` | `server/batches.c`, with `srv_files_add_parts` and the eviction of `store.c` | detailed, with stops and kills |
| `DocStore`, `MCDocStore` | `server/store.c`, `store_disk.c` | detailed, with kills; symmetry |
| `Uploads`, `MCUploads` | `server/uploads.c`, the joining and deleting of `files_store.c` | composition of the two, with kills; symmetry |
| `AsyncReads` | the promise of `common/uring.h` | abstract specification |
| `Uring` | `common/uring.c` and the kernel behind it | detailed, implements `AsyncReads` |
| `VectorStores` | `server/vectors.c` with the handlers of `vectors_api.c` and `vectors_batches.c` | composition, with stops and kills |

Definitions named `X_Y` next to a definition `X` are mutants: `X` changed the
way a plausible bug would. No specification uses them; each shows that the
property it is listed with in `PROJECT.json` can fail.

**ThreadPool.** Every atomic access another thread can see and every operation
on the mutex and the two condition variables is a step. The variables are the
fields of `struct janas_pool` and the locals `seen` and `t` of each worker; the
ticket keeps its packing (run * 256 + threads). `CreateThread`, `CreateFail`,
`SetActive`, `RunPrepare` ... `RunReturn`, `Destroy` ... `DestroyJoin` are the
caller, `LoadTicket` ... `StoreDone` the loop of `worker`. How long a worker
spins is left open: it may give up at any look. A wait on a condition variable
may end by itself. `calls` is history, used by the refinement mapping. The
code orders ticket, sleepers and stop sequentially consistently where their
order matters, so the interleaving of steps is the memory model. The number of
a run does not wrap: it is 64 bits wide in the code, less 8.

**ExpertCache.** The caller holds `api_lock` from begin to finish and in every
other call, so the loops of a call are steps (`Hit`, `Miss`, `PfTake`, ...)
that the warmer cannot enter, while reads are under way. A read lands when it
is waited for, the last moment it can, and until then its slot holds nothing
whole (`content`). `lease` is what the caller was given and computes on until
its next call. The linked lists are sequences, the stamps the set of slots of
the current request; `pf` has one set of reads ahead per parity of the layers,
as in the code. Which batches go through the ring and which through the
coordinator is `RingSizes`. Failing reads and submissions are steps of their
own, bounded by `MaxFaults`.

**ServerEngine.** A job is an object of a heap, with the fields its threads
share, freed at zero references; an action is one critical section of a lock
of the code. `Engine` is `engine_main` with `run`; `Submit` with `PlaceOf` and
`number_queue` the queue. The submitters are HTTP clients (whole and streamed,
the latter may go away), low workers (batches, evals, vector stores), passes of
runs (whose jobs watch a flag) and background responses with rounds of tool
calls. `Main` is the shutdown, in the order of `main.c`. What is produced is
abstracted to the number of choices and tokens.

**Batches.** A batch is a document of the store, and its two work files are
sequences of units: the text of line i is i, a line end is 0, a text written in
part is -i. The saves the code makes without `mu` are steps without it. `Stop`
loses what `srv_batches_stop` loses, `Crash` everything but the documents and
the files. Documents are saved whole (`DocStore` shows it), and `Evict` is the
store making room for another document at any moment: the worker's later saves
then find nothing to update. A batch whose input is not valid, and a time limit
that is over, are choices.

**DocStore.** Every operation holds the store's lock over its change of the
list and its writes, so operations do not interleave, but a kill falls between
any two steps on disk. `Put`, `Update`, `Delete` and `Open` change the list and
say what is left to do on disk (`saving`, `gone`); `WriteTmp`, `Rename`,
`WriteFails`, `Unsave`, `UnsaveFails` do it. The list is a function from names
to documents, whose order is that of `seq`; `KindVictims` and `ByteVictims` say
which documents the loops of `trim` and `trim_bytes` drop.

**Uploads.** A handler that holds the uploads' lock throughout is an action.
`srv_uploads_complete` lets it go: `Complete`, `JoinRoom`, `JoinPart` (one part
of the join, under no lock), `JoinRename`, `JoinMeta`, `CompleteEnd`, with other
requests, evictions and kills in between. A part's bytes are its name; the size
and the md5 that a complete compares are one check. A File is known by its
`.meta`; `Open` reads back what a kill left.

**Uring.** The thread's side is a step for each turn of the code's loops, since
the kernel goes on meanwhile: `SubmitEnter` and `WaitEnter` let the kernel take
any part of the queue, `Complete` publishes the end of a read, whole, short,
interrupted, at the end of the file or failed. `bad` is history, for the
refinement mapping. `ExpertCache` uses the ring as `AsyncReads` promises it: what
was queued ends, and the wait says whether all of it was read.

**VectorStores.** The lock of `vectors.c` covers one read or one write of a
file's JSON, never both together but in `srv_vectors_set_status`, so an action
is one such section or one access to the disk under no lock. `w` holds the
indexer's place and the locals of `index_file`, `cl` those of each client's
handler. A JSON carries, as history, which attachment it is (`att`), which one
the indexer had read when it set the status (`by`) and whether something had
gone wrong (`cause`). `created_at` is the count of attachments: two within one
second, which the indexer takes in either order, are not told apart in the code.

## 3. The runs

Passing runs; deadlock is checked in the pool's and the cache's. A server, a
store or a ring that has stopped, or has nothing to do, really may stay as it
is, and the bounds on requests and failures end the others.

| Run | Instance | Shows |
|---|---|---|
| `pool` (`ThreadPool.cfg`) | 3 threads, 3 runs, 1 wake-up out of nowhere | `NoStaleFn`: function and argument never change under a worker; `NoLostWakeup`: none sleeps through a ticket that wants it; `ImplementsForkJoin`: once per thread of the team, no return before the last; `CallsReturn`: run and destroy end |
| `cache` (`ExpertCache.cfg`) | 2 layers of 2 experts, 3 and 4 slots, reads ahead, a warmer | `MapConsistent`: map, inverse, counts and lists agree; `LeaseRight`: a slot in use holds its expert; `ReadsLandHome`: no read lands in a slot given to another, nor in freed memory; `CopyTrue`: once resident, the arena never changes |
| `cache_many` (`ExpertCacheMany.cfg`) | 3 layers, 4 slots, requests cut in pieces of one, a GPU that reads ahead while it computes, no warmer | `LeaseRight` for fetch_many, in both orders of replacement |
| `cache_faults` (`ExpertCacheFaults.cfg`) | 2 slots, one failing read or submission of any kind | `MapConsistent` through a failure; `NeverLost`: a request that fits finds slots, even when reads ahead hold all of them; `CallReturns`: every call ends, destroy included |
| `engine` (`ServerEngine.cfg`) | 2 clients (one streamed), a low worker, a background response with one round, a queue of 3 | `RefsExact`: no job freed early or leaked; `QueueInOrder`, `NoOvertaking`: clients first, everyone told its place, nobody overtaken by its own kind; `NoOrphan`: nobody waits for a job the engine has lost; `CancelsHold`: the stop reaches every client's job, and no round starts after a cancel |
| `engine_live` (`ServerEngineLive.cfg`) | a client, a run, a background response | `RequestsEnd`: a request taken is answered, what is cancelled ends; `ServerStops`: no step of the shutdown waits forever |
| `batches` (`Batches.cfg`) | 2 batches of 2 lines, one cancellable, a stop, a kill, a failure, an eviction | `WorkExact`: when a line is taken up the work files hold exactly the lines before it; `AnswersKept`: an uncancelled batch of a server that was only ever stopped ends with exactly its answers; `LineKeepsCancel`: progress and cancel do not overwrite each other; `BatchEnds`: a batch ends or was let go by the store, and does not come back |
| `store` (`DocStore.cfg`) | 2 kinds of 2 documents, caps 1 and 2, room for 3 of 8 bytes, 5 writes, 1 failure, 2 kills | `TypeOK` with the two limits of the list; `SeqOrder`: the numbers are an order, in the list and on disk, across restarts; `Durable`: between operations the files are the list, at any kill each is the document before or after, and a restart loses nothing the operation left alone |
| `uploads` (`Uploads.cfg`) | 3 uploads of 2 parts, room for 2, 3 completes, 1 deletion, 1 failure, kill or stop | `TypeOK` with the limit of the table; `PartsExact`: on disk exactly the parts that may still be needed; `FilesRight`: of an upload one File at most, made of the parts named, in order |
| `uring` (`Uring.cfg`) | a ring of 3, reads of 1 and 2 bytes, 2 batches, 2 hiccups | `KeepsPromise`: the refinement of `AsyncReads`; `BuffersBack`: no buffer given back while a read can land in it; `WaitEnds` |
| `vectors` (`VectorStores.cfg`) | a text file and one that is not, 2 attachments, 2 clients, 2 events of any kind | `StatusTrue`: completed means its own chunks and vectors, failed means an error; `WaitingEnds`: no file waits for ever, no wake-up is lost |

One run that TLC refutes, on a sentence of the code (section 7):
`batches_cancel_lost` (`BatchesCancelLost.cfg`).

## 4. Bounds, and why they are enough

The theorems of section 6 hold for every value of the constants: for the
invariants and action properties, which they state, the bounds below only matter
to find a mistake fast. For liveness they are what the checks rest on.

- `ThreadPool`: three threads are the caller, a worker in the team and one that
  is left out and wanted back; three runs are a large team, a small one and a
  large one again, with every other sequence. The proofs remove both bounds.
- `ExpertCache`: two layers are the two parities of reads ahead; three make a
  pass larger than the cache, which turns the order of replacement around. Two
  experts per layer are a hit and a miss in one request. Three slots for four
  experts force evictions, four make the cache resident, two let the reads
  ahead hold every slot. `Chunk` = 1 makes fetch_many take several requests.
  `PfMax` is an eighth of the slots in the code; with one read ahead on two to
  four slots the instances hold a larger share of the cache than the code does,
  so that the case of every slot stamped or held, which takes a request of most
  of a real cache, happens.
- `ServerEngine`: each kind of submitter at least once; two clients and a low
  worker for the order; `Jobs` covers one job per submitter and one that is
  being released or waited for by a cancel. A reply of one token has all the
  points at which it can be cancelled: before, between, after.
- `Batches`: the first line and the last differ; one batch is cancelled while
  the other waits; one stop, one kill and one failure at every step, also of
  the recovery from each other. Two stops were checked with the same outcome.
  One eviction: of the batch being run or of one that waits.
- `DocStore`: two kinds, for a cap counts per kind and the bytes over both; a
  cap of 1 and of 2, so that a restart finds more than it may keep; sizes 1 and 2
  in a store of 3, so that a document that grows drops several; five writes are
  two documents of each kind and one that is written again.
- `Uploads`: room for two of three uploads, so that a create evicts one being
  joined; two parts, so that an eviction falls between them and their order
  matters; room for one File and a half, so that a join is refused.
- `Uring`: three entries, so that one read ends, one is short and one is still to
  be taken; reads of two bytes, so that one can be short; two batches, so that
  what is left of one would show in the next.
- `VectorStores`: two files, so that the indexer chooses; two attachments, also of
  the same file; two events, so that a cancel or a detachment meets a stop, a
  kill or a failure. `FirstModel` and `Start` give a model to the first process
  and either to the next, so that old vectors meet none.
- Counters (`MaxRuns`, `MaxFaults`, `MaxStops`, `MaxCrashes`, `MaxRounds`,
  `MaxSpurious`, `MaxTokens`) are bounds in the guards, named as such where the
  constants are declared. Symmetry is used for jobs, slots, names and uploads in
  runs of invariants and action properties only; the list the slots start in is one of
  its permutations.

## 5. Fairness, and why the code justifies it

Weak fairness of threads that have something to do, nothing else: the pool's
caller once it has called run or destroy, and each worker; the cache's caller
once in a call, the warmer and the coordinator; the engine's thread, handlers
whose job is over, the shutdown once asked for; the batches' worker, and a
server that was stopped being started again; the thread that waits for the ring,
and the kernel, which ends every read it has; the indexer, and a handler that
has begun. These are threads of a system
whose scheduler runs each of them, and the waits of the code are for events of
these threads. Never assumed: that a client asks, stays or goes away, that a
stop is asked for, that a wake-up is spurious, that a read fails. Tool calls of
a response end because each is given `CALL_SECONDS` (`responses_mcp.c:262`). A
request to the engine ends because a reply is bounded in tokens; a batch, because its lines are
finite and stops and kills are bounded by the model.

## 6. Proofs

| Module | Theorem | Statement |
|---|---|---|
| `ThreadPoolProofs` | `PoolTypes` | `Spec => []TypeOK` |
| | `PoolNoStaleFn` | `Spec => []NoStaleFn` |
| | `PoolNoLostWakeup` | `Spec => []NoLostWakeup` |
| | `PoolImplementsForkJoin` | `Spec => FJ!FJSpec`, the refinement |
| `UringProofs` | `TypeCorrect` | `Spec => []TypeOK` |
| | `BuffersComeBack` | `Spec => []BuffersBack` |
| | `PromiseKept` | `Spec => KeepsPromise`, the refinement of `AsyncReads` |
| `DocStoreProofs` | `TypeCorrect` | `Spec => []TypeOK`, the two limits of the list with it |
| | `NumbersAreAnOrder` | `Spec => []SeqOrder` |
| | `StoreIsDurable` | `Spec => []Durable` |
| `ServerEngineProofs` | `TypeCorrect` | `Spec => []TypeOK` |
| | `RefsAreExact` | `Spec => []RefsExact` |
| | `QueueKeepsOrder` | `Spec => []QueueInOrder` |
| | `NobodyOvertakes` | `Spec => NoOvertaking`, an action property |
| | `NobodyOrphaned` | `Spec => []NoOrphan` |
| | `CancelsAreKept` | `Spec => []CancelsHold` |
| `BatchesProofs` | `TypeCorrect` | `Spec => []TypeOK` |
| | `WorkIsExact` | `Spec => []WorkExact` |
| | `AnswersAreKept` | `Spec => []AnswersKept` |
| | `LinesKeepCancels` | `Spec => LineKeepsCancel`, an action property |
| `VectorStoresProofs` | `TypeCorrect` | `Spec => []TypeOK` |
| | `StatusesAreTrue` | `Spec => []StatusTrue` |
| `UploadsProofs` | `TypeCorrect` | `Spec => []TypeOK`, the limit of the table with it |
| | `PartsAreExact` | `Spec => []PartsExact` |
| | `FilesAreRight` | `Spec => []FilesRight` |
| `ExpertCacheProofs` | `TypeCorrect` | `Spec => []TypeOK` |
| | `MapsAgree` | `Spec => []MapConsistent` |
| | `SlotAlwaysFound` | `Spec => []NeverLost` |
| | `LeasesHold` | `Spec => [](Unfailing => LeaseRight)` |
| | `ReadsComeHome` | `Spec => [](Unfailing => ReadsLandHome)` |
| | `CopyStaysTrue` | `Spec => [](Unfailing => CopyTrue)` |

They hold for every value of the constants within the assumption of their
module, named where the constants are declared:

- `PoolAssumption`: 1 to 255 threads, what `janas_pool_create` accepts;
- `UringAssumption`: a ring of at least one entry, reads of at least one byte;
- `StoreAssumption`: caps of at least one document, and a document no larger
  than the store (`store.c` refuses a larger one before it looks for room);
- `EngineAssumption`: a queue of at least one place, replies of at least one
  choice and one token, the streamed clients are clients, and the thread of a
  background response is no other submitter;
- `BatchesAssumption`: at least one batch, and only batches are cancelled;
- `VectorStoresAssumption`: finitely many files, those that are not text among
  them, and a file of at least one group of chunks;
- `UploadsAssumption`: a table of at least one upload, sizes and the bound on
  completes are numbers; of the bounds nothing else is needed;
- `CacheAssumption`: at least one layer, a cache of at least one of the slots,
  finitely many experts to a layer, requests of at least one expert and no more
  than the cache has slots (`model_ffn.c:799` cuts larger ones), batches through the
  ring and pieces of fetch_many of at least one read, and a background filling of
  experts of the model. How many reads ahead, and which reads fail, is open;
- `Unfailing`, a condition of three theorems on the cache only, and of the runs
  that check the same: no read fails and, where there is a background filling,
  no request of fetch_many is cut in pieces and no GPU reads ahead while it
  computes. Section 7 says what happens without it: a failed read leaves the
  map saying that its slot holds the expert, and the warmer makes stamps stale;
- that the value for "none" is not one of the things it stands beside.

Each theorem comes from an inductive invariant `IInv` of its module, which TLC
checked on the instances of section 3, and on larger ones, before it was proved:
none of the properties is inductive as it stands. The proof that a step keeps it
has a lemma per action, or per group of actions that do the same to the state.

**ThreadPool.** What the code relies on without saying it:

- `TicketInv`: the ticket is its run and its count, `last_active` is that count,
  and `grew` was computed from the team before;
- `LockInv`: the mutex is held by the thread whose place in the code says so;
- `SeenInv`: what a worker has seen is a ticket that was published; a worker of
  the last team whose run is over has its flag up; one that is past the test of
  its number is of the run in progress. This is why `run` may rewrite `fn` and
  `arg` without a lock: it does so only when no worker can be past that test;
- `SleepInv`: `sleepers` is the number of workers counted, and each sleeper is
  on the condition variable its last ticket chose;
- `WakeInv`: `NoLostWakeup` from the moment a worker has decided to sleep, still
  holding the mutex: the invariant proper says nothing of that moment;
- `CallsInv`: how often each thread has called the function of this run, which
  ties the pool to `ForkJoin`.

A worker that takes a ticket late may have loaded one older than the present
one only if that ticket left it out (the last conjunct of `SeenOf`): a run it
belongs to cannot end without it. The lemmas on the packing of the ticket are
where 255 is needed.

**Uring.** The code keeps two counts; the invariant says what they count.

- `PlaceInv`: every read that has not ended is in exactly one place, the
  submission queue, the kernel's hands or the completion queue, once, and
  nothing else is anywhere;
- `CountInv`: `pending` is how many there are, `to_submit` the length of the
  queue;
- `ReadInv`: no read is given more than it asked for, and a failed one shows in
  the wait's result;
- `ThreadInv`: where the thread is, and the part of the completions it has seen.

A wait that returns has `pending` = 0, hence no read anywhere: the buffers are
the caller's. The refinement mapping reads a slot's state off `done` and `bad`.
All but the types is said of a ring whose wait has not failed (section 7).

**DocStore.** `List` and `Written` are types in more detail. `Crossed`: no
document of the list has the number of another one's file, without which a
restart could mix two numbers; this is what makes `SeqOrder` inductive across
`Open`. `StepInv` and `DiskInv`: the files are the list but for what the
operation under way has still to do and for the keys on which a write failed.
`RoomInv` is for the restart that `Durable` speaks of: a document `Open` would
drop from what a kill left is one the operation was about to drop itself
(`Justified`), or nothing has to go.

**ServerEngine.** `RefInv` says who holds a job: one submitter, the engine once,
and one cancel, that of the response whose job it is; `refs` is the count of the
three, whence `RefsExact`. `EngInv`: the engine's job is out of the queue, is the
running one until `Clear`, and is over by then. `PcInv`: a submitter has a job
exactly while it waits for it and until it leaves. `number_queue` and the place
found by `PlaceOf` are lemmas on sequences (`InsertAt`, removal, renumbering).

**Batches.** `RecInv`: a document counts the lines it has run and the units it
wrote of them. `StageInv`: the worker's copy is the store's but for a cancel or
an eviction, and one line ahead between a line and its save; this is why a save
under `mu` adds exactly one line (`LineKeepsCancel`). `MuInv`: the copy a cancel
holds has the progress the store has, so the cancel takes none back. `WorkInv`:
the work files begin with the lines counted, each once, at every moment, and hold
nothing more where the worker is about to write; a kill leaves a beginning, which
is all `trim_work` needs. `KeptInv`: from finalizing on a batch is in the hands of
the worker of this process, and each work file is either still there or is the
File.

**VectorStores.** `WorkerInv` says what the indexer may rely on between its
unlocked accesses. While it has a file, the file's status is nobody's verdict (a
completed file is not indexed again), so the chunks it overwrites are not those
some status vouches for. The chunks it wrote are those of its attachment as long
as the JSON still is that attachment (`Same`): an attach in between takes a
number nobody has yet. And it has given up without an error only on a stop or
on a file no longer waiting, which is what keeps `failed` from being set without
a cause. `Moved` collects what a handler may do to a file; `MovedInv` shows once
for all of them that none makes this untrue. `AttInv` bounds the numbers: the
attachments made and those still in the hands of handlers were all asked for.

**Uploads.** `TableInv`: an upload is in the table once, from its create until
it is evicted or the server ends, and a table that is not empty has its
directory. `PartInv` says `PartsExact` of the numbers the code keeps: an upload
has parts only while it is pending or being joined, and the files are those
numbers. `JoinInv`: a join belongs to an upload marked completed, or evicted
since; what it has copied is the beginning of what was named, so that the file
renamed is all of it; and the mutex keeps a delete out while a file has no
`.meta` yet. `FileInv` is what a kill meets: a `.meta` on disk has beside it
nothing, or the whole content of the complete that wrote it, because the id of
the join under way has no `.meta` yet and the id being deleted has none any more
(`forget` removes the `.meta` first). And an upload that may be completed, or
is being joined, has made no File (`Unmade`), whence one File of an upload.

**ExpertCache.** Two invariants. `IInv` holds whatever fails, and gives the
first three theorems:

- `MapInv` is `MapConsistent` with the lists free of repetition. What a removal
  and a push to the front or the back do to a list are lemmas (`WithoutIs`,
  `FrontIs`, ...), and so is what the slot to reuse is (`VictimIs`): one nobody
  holds, and one whenever there is one;
- `FlagInv` and `SetInv`: the flagged slots are those of the two sets of reads
  ahead, which are apart; the slots of a set hold the experts it reads or, the set
  having failed, none; a set belongs to layers of its parity only;
- `GotInv` and `AheadInv`: what a request has found so far is stamped and its own,
  and while it chooses slots the reads ahead in flight are of later layers;
- `CountInv`: the slots stamped and the experts still to be found are together
  no more than there are slots, pieces of fetch_many to come included. With no
  slot held by reads ahead there is one for each: this is why settling both sets
  once, in the middle of a request, is enough;
- `RoomInv` is for the filling, which has no set settled for it: a slot is empty
  only where some slot is not held by reads ahead. A failed set empties slots it
  still holds, but the request that found it failed has a stamped slot that is
  not in it.

`NInv`, under `Unfailing` and on top of `IInv`, gives the other three:

- `ReadInv`: a read of the request is of a stamped slot, which keeps its expert
  until the wait, and the ring and the queue are empty where they should be;
- `BytesInv`: a slot with an expert has its bytes, or their read is coming;
- `LeaseInv`: the slots the caller computes on keep their experts, and no read is
  coming to them. Without a filling because they are stamped, whence `victim`
  spares them, also across the pieces of fetch_many;
- `OrderInv`: with a filling, which voids the stamps, because in the list they
  are before every empty slot, and the filling takes the last slot that is not
  flagged, and stops when none is empty. It is the order of the list, not the
  stamps, that protects the caller from the warmer;
- `CopyInv`: once resident, every expert is in its slot, the filling is over and
  no read is anywhere, so no request misses and nothing is read again.

Only model-checked: liveness (`CallsReturn`, `CallReturns`, `RequestsEnd`,
`ServerStops`, `BatchEnds`, `WaitEnds`, `WaitingEnds`), since the prover has no
rule for fairness and `ENABLED`. Every other property of the passing runs is the
statement of a theorem above.

## 7. Disagreements with the code's own words

`batches_cancel_lost` is a run, with its entry under "findings": "neither
overwrites the other" (`batches.c:610`), but the save of in_progress, without
the lock, overwrites a cancel.

Met while modelling, not kept as runs; the models show them with the constants
or the conditions named:

- cache: "Returns in slots[i] the bytes of expert ids[i]" (`expert_cache.h:161`).
  After a failed read of a request the map still says that the slot holds the
  expert, and the next request is a hit on it (`LeaseRight`, `MainFaults`);
- cache: fetch_many's requests "count as one, so that none takes a slot an
  earlier one gave" (`expert_cache.h:169`). The warmer's own request in between
  makes the stamps of the earlier ones stale (`LeaseRight`, `ExpertCacheMany.cfg`
  with a `WarmOrder` that fills the cache and `PfMax` = 0);
- engine: "the threads only keep their responses and go" (`responses.c:159`). A
  response that is in its tool calls when the server stops goes on to submit a
  round to the engine that was freed (`BAdopt` with `alive` false);
- engine: "their passes cut short: again at next start" (`main.c:613`). A pass
  whose job the stop cancelled, and which ends before `srv_runs_stop` raises its
  flag, is saved as completed (`RSave` with `main` = "http" and `res` =
  "cancelled");

- batches: an ended batch is put back as cancelling when the worker's save of
  its end falls between a cancel's load and save (1 batch, 1 line, cancellable;
  the property that an ended document does not change). This is why
  `AnswersKept` is of batches no client cancels;
- batches: a write cut short loses every answer of the batch, since the file is
  then longer than counted and `srv_files_add_parts` refuses it before it is
  removed; and a failing `srv_files_add_parts` loses them too (`AnswersKept`
  without `faults = 0`, `FaultKinds` = {"append"} or {"add"});
- batches: killed between the Files made and the last save, the batch ends
  completed without them (`AnswersKept` without `crashes = 0`);
- cache: with eight slots, a failed read ahead and a running warmer, the warmer
  takes a slot the caller computes on (`LeaseRight`, `PfFaults` with `WarmOrder`
  not empty): why `cache_faults` does not list `LeaseRight`;
- cache: the warmer evicts a demoted expert while slots are empty, although "it
  never evicts anything" (`expert_cache.h:137`);
- cache: a failed submission of the warmer's leaves its read queued, and the
  slot may be given to another expert first (`ReadsLandHome`, `MainFaults`): why
  `cache_faults` does not list `ReadsLandHome`;
- store: killed after an update that needs room was written and before the
  others are removed, the restart, which does not know which document was being
  saved, may drop that one, the oldest, instead of those (`Durable` excepts it);
- uploads: "nothing else may touch it now" (`uploads.c:372`), but a create that
  needs room drops a completed upload while its parts are joined: the complete
  then fails, or, when the parts were already read, answers with a File of which
  the reply, made from a copy, says nothing (`CompleteEnd` with `~In(u)`);
- ring: a failing `io_uring_enter` in a wait gives the buffers back with reads in
  flight (`WaitFails`), and their late completions would be counted in the next
  batch; the model stops there;
- vector stores: a file attached again while it is indexed is set to completed
  with the chunks of the strategy before (`StatusTrue` without `by = att`);
- vector stores: an update of a file's attributes writes back the whole JSON it
  read: a status set meanwhile is undone, so that a file is in progress with
  nobody told, and a file detached meanwhile is back (`old`);
- vector stores: a cancel between the indexer's last look at the status and its
  setting it is overwritten by completed; files of chunks written after a
  detachment stay on the disk.

## 8. What is not modelled, and why

`PROJECT.json` lists every part with its reason. In short: arithmetic on floats
(kernels, sampling, ranking, speech, vision) and large tables (tokenizer,
gazetteer) are out of a model checker's reach; parsers, printers and codecs keep
no state between calls and are better tested by generation; HTTP and TLS are
vendored libraries behind thin glue; services and terminal programs are I/O with
one thread. These are most of the repository's 200,000 lines: the share the
modules map is small because the concurrent and persistent core is small.

Within the modelled parts: statistics, traces, pinning, the `rebase` of the
expert cache and its synchronous `warm`, the texts of requests and answers, a
File sent whole, the metadata of vector stores and their search, the Windows
reads, and the read-only operations (get, list). A deletion of a vector store
against the indexer's unlocked writes is one step: what `nftw` has not yet
removed while a file is being written is not told apart.

## 9. The plan

Done, in this order: `ThreadPool` with `ForkJoin` (everything else runs on it),
`ExpertCache` (what the computation reads), `ServerEngine` (who runs what and
how it stops), `Batches` (work that outlives the process), the proofs of the
pool; then `DocStore`, `Uploads`, `Uring` with `AsyncReads`, `VectorStores`, and
`Batches` over a store that evicts; then the proofs about `Uring`, `DocStore`,
`ServerEngine`, `Batches`, `VectorStores`, `Uploads` and `ExpertCache`.

Next, to model, as far as they differ from what is there: evals (a worker of the
shape of `Batches`), the streams of runs, containers, the MCP client, kept
conversations, the tuner, the Node binding.
