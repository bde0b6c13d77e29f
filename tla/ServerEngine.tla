---------------------------- MODULE ServerEngine ----------------------------
(***************************************************************************)
(* The server's engine (src/server/engine.c): the model on a thread of its *)
(* own, which runs the jobs of one queue one after the other, and the      *)
(* threads that submit them: the HTTP handlers, the background responses   *)
(* with their rounds of tool calls, the passes of the Assistants' runs, the*)
(* low workers (batches, evals, vector stores), and the main thread, whose *)
(* shutdown stops all of them in main.c's order.                           *)
(*                                                                         *)
(* A job is an object of the heap shared by its submitter, the engine and  *)
(* whoever cancels it, counted by refs and freed at 0.  Each action is one *)
(* critical section of e->mu, j->mu, bg_mu or live_mu.                     *)
(***************************************************************************)
EXTENDS Integers, Sequences, FiniteSets, Functions

CONSTANTS
  Jobs,        \* the jobs the heap holds at most (a bound of the model)
  Clients,     \* HTTP connections, one request at a time
  Streams,     \* the clients answered as a stream, which may go away
  Lows,        \* the workers that set srv_engine_low
  Runs,        \* the passes of runs, whose jobs watch a flag
  Backs,       \* responses in the background
  MaxQueue,    \* e->max_queue
  NChoices,    \* j->n_choices of every job
  MaxTokens,   \* tokens of a reply at most (a bound of the model)
  MaxRounds,   \* rounds of tool calls of a response at most
  None

ASSUME EngineAssumption ==
  /\ Streams \subseteq Clients
  /\ MaxQueue \in Nat \ {0} /\ NChoices \in Nat \ {0}
  /\ MaxTokens \in Nat \ {0} /\ MaxRounds \in Nat
  /\ None \notin Jobs
  /\ Backs \cap (Clients \cup Lows \cup Runs) = {}   \* a thread is of one kind

VARIABLES
  job,      \* the heap: the fields of struct srv_job the threads share
  queue,    \* e->head .. e->tail; e->queued is its length
  running,  \* e->running
  closing,  \* e->closing
  stop,     \* e->stop
  alive,    \* e is not freed
  eng,      \* the engine's thread: where it is, its job, choice, token, rc
  pc,       \* where each submitter is
  mine,     \* the job each submitter holds
  flag,     \* me.cancel of each pass
  res,      \* the end of each pass's request, as its stream told it
  saved,    \* the status of each run in the store
  gone,     \* x->cancelled of each background response
  rounds,   \* x->mcp->rounds
  ours,     \* the job a cancel of the response holds while it waits
  told,     \* the low workers told to stop
  main      \* the main thread, from the moment it is asked to stop

engVars == <<queue, running, closing, stop, alive, eng>>
runVars == <<flag, res, saved>>
subVars == <<pc, mine, runVars, gone, rounds, ours>>
mainVars == <<told, main>>
vars == <<job, engVars, subVars, mainVars>>

Submitters == Clients \cup Lows \cup Runs \cup Backs

Errs == {"ok", "stopping", "failed"}
NoJob == [low |-> FALSE, watch |-> None, done |-> FALSE, cancel |-> FALSE,
          err |-> "ok", started |-> FALSE, pos |-> 0, refs |-> 0]

Up == main \in {"serve", "http"}          \* connections are served

-----------------------------------------------------------------------------
(* srv_job_release: the last one frees the job.  The heap is a parameter,   *)
(* so that one step can release a job and take another.                    *)
Release(h, j) ==
  [h EXCEPT ![j] = IF h[j].refs = 1 THEN NoJob
                   ELSE [h[j] EXCEPT !.refs = h[j].refs - 1]]

(* The client went away, or the submitter's flag says stop. *)
stopped(j) == job[j].cancel \/ (job[j].watch # None /\ flag[job[j].watch])

(* Where the jobs still waiting stand in the queue. *)
number_queue(h, q) ==
  [j \in Jobs |-> IF j \in Range(q)
                  THEN [h[j] EXCEPT !.pos = CHOOSE i \in DOMAIN q : q[i] = j]
                  ELSE h[j]]

\* Mutant: a client's job behind the batches'.
PlaceOf_AtTail(low, q) == Len(q) + 1
\* Mutant: a client's job before the others.
PlaceOf_AtHead(low, q) == IF low THEN Len(q) + 1 ELSE 1

(* The place of a new job: a client's before the first low one. *)
PlaceOf(low, q) ==
  IF low \/ \A i \in DOMAIN q : ~job[q[i]].low
  THEN Len(q) + 1
  ELSE CHOOSE i \in DOMAIN q : /\ job[q[i]].low
                               /\ \A k \in 1..(i - 1) : ~job[q[k]].low

InsertAt(q, i, j) == SubSeq(q, 1, i - 1) \o <<j>> \o SubSeq(q, i, Len(q))

\* Mutant: one job more than the queue may hold.
Taken_OneMore(low) == Len(queue) <= MaxQueue /\ ~stop /\ (closing => low)

(* srv_engine_submit's conditions: the queue full, stopping, or closing    *)
(* and a client's.                                                         *)
Taken(low) == Len(queue) < MaxQueue /\ ~stop /\ (closing => low)

(* srv_job_new and srv_engine_submit: the job is the submitter's and the   *)
(* engine's.  Refused, the submitter releases it and nothing is left.      *)
Enqueue(h, j, low, watch) ==
  LET q == InsertAt(queue, PlaceOf(low, queue), j)
  IN  /\ h[j].refs = 0
      /\ queue' = q
      /\ job' = number_queue([h EXCEPT ![j] = [NoJob EXCEPT !.low = low,
                                     !.watch = watch, !.refs = 2]], q)

Submit(s, j, low, watch, next) ==
  /\ Taken(low)
  /\ Enqueue(job, j, low, watch)
  /\ mine' = [mine EXCEPT ![s] = j]
  /\ pc' = [pc EXCEPT ![s] = next]
  /\ UNCHANGED <<running, closing, stop, alive, eng, mainVars>>

-----------------------------------------------------------------------------
(* The engine's thread (engine_main, run, run_one).                        *)

NoWork == [pc |-> "wait", j |-> None, k |-> 0, tok |-> 0, rc |-> "ok"]

Take ==
  /\ eng.pc = "wait" /\ ~stop /\ queue # <<>>
  /\ queue' = Tail(queue)
  /\ running' = Head(queue)
  /\ eng' = [NoWork EXCEPT !.pc = "start", !.j = Head(queue)]
  /\ job' = number_queue(job, Tail(queue))
  /\ UNCHANGED <<closing, stop, alive, subVars, mainVars>>

Exit ==
  /\ eng.pc = "wait" /\ stop
  /\ eng' = [eng EXCEPT !.pc = "exit"]
  /\ UNCHANGED <<job, queue, running, closing, stop, alive, subVars, mainVars>>

(* Steps that leave the queue and the engine's flags alone. *)
EngStep == UNCHANGED <<queue, running, closing, stop, alive, subVars, mainVars>>

Start ==
  /\ eng.pc = "start"
  /\ job' = [job EXCEPT ![eng.j].started = TRUE, ![eng.j].pos = 0]
  /\ eng' = [eng EXCEPT !.pc = IF stopped(eng.j) THEN "skip" ELSE "setup"]
  /\ EngStep

\* Mutant: a job skipped and left undone.
Skip_NotDone ==
  /\ eng.pc = "skip"
  /\ UNCHANGED job
  /\ eng' = [eng EXCEPT !.pc = "clear"]
  /\ EngStep

(* Gone while it waited: over without being run. *)
Skip ==
  /\ eng.pc = "skip"
  /\ job' = [job EXCEPT ![eng.j].done = TRUE]
  /\ eng' = [eng EXCEPT !.pc = "clear"]
  /\ EngStep

(* setup, and the jobs that generate nothing (count, embed). *)
Setup ==
  /\ eng.pc = "setup"
  /\ \/ eng' = [eng EXCEPT !.pc = "choice"]
     \/ eng' = [eng EXCEPT !.pc = "finish"]
     \/ eng' = [eng EXCEPT !.pc = "finish", !.rc = "failed"]
  /\ UNCHANGED job /\ EngStep

(* The head of run's loop on the choices. *)
Choice ==
  /\ eng.pc = "choice"
  /\ eng' = IF eng.rc # "ok" \/ eng.k = NChoices \/ stopped(eng.j)
            THEN [eng EXCEPT !.pc = "finish"]
            ELSE [eng EXCEPT !.pc = "token", !.tok = 0]
  /\ UNCHANGED job /\ EngStep

(* One token of run_one: the reply ends with it (its end, a stop string, a *)
(* failure, a stop asked for), or goes on.                                 *)
Token ==
  /\ eng.pc = "token"
  /\ \/ \E rc \in {"ok", "failed"} :
          eng' = [eng EXCEPT !.pc = "choice", !.k = @ + 1, !.tok = 0, !.rc = rc]
     \/ /\ ~stopped(eng.j) /\ eng.tok + 1 < MaxTokens
        /\ eng' = [eng EXCEPT !.tok = @ + 1]
  /\ UNCHANGED job /\ EngStep

(* run's end. *)
Finish ==
  /\ eng.pc = "finish"
  /\ job' = [job EXCEPT ![eng.j].done = TRUE,
                        ![eng.j].err = IF eng.rc = "ok" THEN @ ELSE eng.rc]
  /\ eng' = [eng EXCEPT !.pc = "clear"]
  /\ EngStep

Clear ==
  /\ eng.pc = "clear"
  /\ running' = None
  /\ eng' = [eng EXCEPT !.pc = "release"]
  /\ UNCHANGED <<job, queue, closing, stop, alive, subVars, mainVars>>

Drop ==
  /\ eng.pc = "release"
  /\ job' = Release(job, eng.j)
  /\ eng' = NoWork
  /\ EngStep

Engine == \/ Take \/ Exit \/ Start \/ Skip \/ Setup \/ Choice \/ Token
          \/ Finish \/ Clear \/ Drop

-----------------------------------------------------------------------------
(* The submitters.                                                         *)

SubStep == UNCHANGED <<engVars, mainVars>>

(* A handler's request taken; one refused is answered 429 at once.         *)
CSubmit(c) ==
  /\ pc[c] = "idle" /\ Up
  /\ \E j \in Jobs : Submit(c, j, FALSE, None, "wait")
  /\ UNCHANGED <<runVars, gone, rounds, ours>>

(* out_free: when the reply is over, or the stream's client is gone (or    *)
(* its connection is closed by the stop): then the job is cancelled.       *)
out_free(c) ==
  /\ pc[c] = "wait" /\ (job[mine[c]].done \/ c \in Streams)
  /\ job' = [job EXCEPT ![mine[c]].cancel = @ \/ ~job[mine[c]].done]
  /\ pc' = [pc EXCEPT ![c] = "leave"]
  /\ UNCHANGED <<mine, runVars, gone, rounds, ours>> /\ SubStep

Leave(s) ==
  /\ pc[s] = "leave"
  /\ job' = Release(job, mine[s])
  /\ mine' = [mine EXCEPT ![s] = None]
  /\ pc' = [pc EXCEPT ![s] = "idle"]
  /\ UNCHANGED <<runVars, gone, rounds, ours>> /\ SubStep

(* A low worker runs one request after the other until it is told to stop. *)
LSubmit(w) ==
  /\ pc[w] = "idle" /\ w \notin told
  /\ \E j \in Jobs : Submit(w, j, TRUE, None, "wait")
  /\ UNCHANGED <<runVars, gone, rounds, ours>>

(* The answer of a worker's job: waited for to its end. *)
WaitDone(s) ==
  /\ pc[s] = "wait" /\ job[mine[s]].done
  /\ pc' = [pc EXCEPT ![s] = "leave"]
  /\ UNCHANGED <<job, mine, runVars, gone, rounds, ours>> /\ SubStep

LExit(w) ==
  /\ pc[w] = "idle" /\ w \in told
  /\ pc' = [pc EXCEPT ![w] = "exit"]
  /\ UNCHANGED <<job, mine, runVars, gone, rounds, ours>> /\ SubStep

(* run_go, run_main, run_pass: a pass starts with its flag down and its    *)
(* run saved in progress, and asks for its response; refused, or at its    *)
(* end, it saves the run.  A further round of its tools is a further pass. *)
RSubmit(r) ==
  /\ pc[r] = "idle" /\ Up
  /\ \E j \in Jobs : Submit(r, j, FALSE, r, "wait")
  /\ flag' = [flag EXCEPT ![r] = FALSE]
  /\ saved' = [saved EXCEPT ![r] = "in_progress"]
  /\ UNCHANGED <<res, gone, rounds, ours>>

RRefused(r) ==
  /\ pc[r] = "idle" /\ Up /\ ~Taken(FALSE)
  /\ flag' = [flag EXCEPT ![r] = FALSE]
  /\ saved' = [saved EXCEPT ![r] = "in_progress"]
  /\ res' = [res EXCEPT ![r] = "failed"]
  /\ pc' = [pc EXCEPT ![r] = "save"]
  /\ UNCHANGED <<job, mine, gone, rounds, ours>> /\ SubStep

(* A client cancels the run. *)
RCancel(r) ==
  /\ pc[r] = "wait" /\ Up /\ ~flag[r]
  /\ flag' = [flag EXCEPT ![r] = TRUE]
  /\ UNCHANGED <<job, pc, mine, res, saved, gone, rounds, ours>> /\ SubStep

(* The status the job gives the response (status_of of responses_out.c). *)
status_of(j) == CASE job[j].cancel -> "cancelled"
                  [] ~job[j].cancel /\ job[j].err # "ok" -> "failed"
                  [] OTHER -> "completed"

(* The stream of the response to its end, and its job released. *)
RDone(r) ==
  /\ pc[r] = "wait" /\ job[mine[r]].done
  /\ res' = [res EXCEPT ![r] = status_of(mine[r])]
  /\ job' = Release(job, mine[r])
  /\ mine' = [mine EXCEPT ![r] = None]
  /\ pc' = [pc EXCEPT ![r] = "save"]
  /\ UNCHANGED <<flag, saved, gone, rounds, ours>> /\ SubStep

(* The run saved as its pass ended, unless the runs are stopping: then it  *)
(* is left as it is and taken up again at the next start.  Every response  *)
(* that did not fail completes the run, a cancelled one too.               *)
RSave(r) ==
  /\ pc[r] = "save"
  /\ saved' = [saved EXCEPT ![r] =
       CASE ~Up -> @
         [] Up /\ flag[r] -> "cancelled"
         [] Up /\ ~flag[r] /\ res[r] = "failed" -> "failed"
         [] OTHER -> "completed"]
  /\ pc' = [pc EXCEPT ![r] = "idle"]
  /\ UNCHANGED <<job, mine, flag, res, gone, rounds, ours>> /\ SubStep

(* srv_responses_create, background: taken, it is in bg_list from here on. *)
BSubmit(b) ==
  /\ pc[b] = "idle" /\ Up
  /\ \E j \in Jobs : Submit(b, j, FALSE, None, "wait")
  /\ gone' = [gone EXCEPT ![b] = FALSE]
  /\ rounds' = [rounds EXCEPT ![b] = 0]
  /\ UNCHANGED <<runVars, ours>>

(* bg_main after wait_done: the reply's tool calls (resp_mcp_round), or    *)
(* nothing more to run.                                                    *)
BDone(b) ==
  /\ pc[b] = "wait" /\ job[mine[b]].done
  /\ \/ pc' = [pc EXCEPT ![b] = "keep"]
     \/ /\ job[mine[b]].err = "ok" /\ ~job[mine[b]].cancel
        /\ rounds[b] < MaxRounds
        /\ pc' = [pc EXCEPT ![b] = "tools"]
  /\ UNCHANGED <<job, mine, runVars, gone, rounds, ours>> /\ SubStep

BTools(b) ==
  /\ pc[b] = "tools"
  /\ pc' = [pc EXCEPT ![b] = "adopt"]
  /\ UNCHANGED <<job, mine, runVars, gone, rounds, ours>> /\ SubStep

\* Mutant: a round after the cancel.
BAdopt_KeepsGoing(b) ==
  /\ pc[b] = "adopt"
  /\ \/ /\ alive
        /\ \E j \in Jobs : /\ j # mine[b]
                           /\ Taken(FALSE)
                           /\ Enqueue(Release(job, mine[b]), j, FALSE, None)
                           /\ mine' = [mine EXCEPT ![b] = j]
        /\ pc' = [pc EXCEPT ![b] = "wait"]
        /\ rounds' = [rounds EXCEPT ![b] = @ + 1]
     \/ /\ alive => ~Taken(FALSE)
        /\ pc' = [pc EXCEPT ![b] = "keep"]
        /\ UNCHANGED <<job, queue, mine, rounds>>
  /\ UNCHANGED <<running, closing, stop, alive, eng, runVars, gone, ours, mainVars>>

(* resp_adopt, under bg_mu, then the release of the job before.  Of a      *)
(* freed engine it reads what is left there: its stop, or anything, and    *)
(* the thread never returns.                                               *)
BAdopt(b) ==
  /\ pc[b] = "adopt"
  /\ \/ /\ alive /\ ~gone[b]
        /\ \E j \in Jobs : /\ j # mine[b]
                           /\ Taken(FALSE)
                           /\ Enqueue(Release(job, mine[b]), j, FALSE, None)
                           /\ mine' = [mine EXCEPT ![b] = j]
        /\ pc' = [pc EXCEPT ![b] = "wait"]
        /\ rounds' = [rounds EXCEPT ![b] = @ + 1]
     \/ /\ gone[b] \/ (alive => ~Taken(FALSE))
        /\ pc' = [pc EXCEPT ![b] = "keep"]
        /\ UNCHANGED <<job, queue, mine, rounds>>
     \/ /\ ~alive /\ ~gone[b]
        /\ pc' = [pc EXCEPT ![b] = "lost"]
        /\ UNCHANGED <<job, queue, mine, rounds>>
  /\ UNCHANGED <<running, closing, stop, alive, eng, runVars, gone, ours, mainVars>>

(* resp_keep, the list left, resp_free. *)
BKeep(b) ==
  /\ pc[b] = "keep"
  /\ pc' = [pc EXCEPT ![b] = "leave"]
  /\ UNCHANGED <<job, mine, runVars, gone, rounds, ours>> /\ SubStep

\* Mutant: the job waited for without a reference.
BCancel_NoRef(b) ==
  /\ pc[b] \in {"wait", "tools", "adopt", "keep"} /\ Up /\ ours[b] = None
  /\ gone' = [gone EXCEPT ![b] = TRUE]
  /\ job' = [job EXCEPT ![mine[b]].cancel = TRUE]
  /\ ours' = [ours EXCEPT ![b] = mine[b]]
  /\ UNCHANGED <<pc, mine, runVars, rounds>> /\ SubStep

(* srv_responses_cancel, under bg_mu: the job running, and no round after  *)
(* it; a reference of its own while it waits.                              *)
BCancel(b) ==
  /\ pc[b] \in {"wait", "tools", "adopt", "keep"} /\ Up /\ ours[b] = None
  /\ gone' = [gone EXCEPT ![b] = TRUE]
  /\ job' = [job EXCEPT ![mine[b]].cancel = TRUE, ![mine[b]].refs = @ + 1]
  /\ ours' = [ours EXCEPT ![b] = mine[b]]
  /\ UNCHANGED <<pc, mine, runVars, rounds>> /\ SubStep

BCancelled(b) ==
  /\ ours[b] # None /\ job[ours[b]].done
  /\ job' = Release(job, ours[b])
  /\ ours' = [ours EXCEPT ![b] = None]
  /\ UNCHANGED <<pc, mine, runVars, gone, rounds>> /\ SubStep

Client(c) == CSubmit(c) \/ out_free(c) \/ Leave(c)
Low(w) == LSubmit(w) \/ WaitDone(w) \/ Leave(w) \/ LExit(w)
Run(r) == RSubmit(r) \/ RRefused(r) \/ RCancel(r) \/ RDone(r) \/ RSave(r)
Back(b) == \/ BSubmit(b) \/ BDone(b) \/ BTools(b) \/ BAdopt(b) \/ BKeep(b)
           \/ Leave(b) \/ BCancel(b) \/ BCancelled(b)

-----------------------------------------------------------------------------
(* The main thread's shutdown (main.c 611-620).                            *)

(* cancel_job: an error that says so, for the client still there. *)
cancel_job(r) == [r EXCEPT !.cancel = TRUE,
                           !.err = IF @ = "ok" THEN "stopping" ELSE @]

srv_engine_cancel_clients ==
  /\ main = "serve"
  /\ closing' = TRUE
  /\ job' = [j \in Jobs |->
               IF j \in Range(queue) \cup {running} /\ ~job[j].low
               THEN cancel_job(job[j]) ELSE job[j]]
  /\ main' = "http"
  /\ UNCHANGED <<queue, running, stop, alive, eng, subVars, told>>

(* srv_http_stop: returns when no handler is running and every stream is   *)
(* closed.                                                                 *)
srv_http_stop ==
  /\ main = "http"
  /\ \A c \in Clients : pc[c] = "idle"
  /\ \A b \in Backs : ours[b] = None
  /\ main' = "runs"
  /\ UNCHANGED <<job, engVars, subVars, told>>

(* srv_runs_stop: its flag goes up with the step before; it waits for the  *)
(* passes to end.                                                          *)
srv_runs_stop ==
  /\ main = "runs"
  /\ \A r \in Runs : pc[r] = "idle"
  /\ main' = "lows"
  /\ UNCHANGED <<job, engVars, subVars, told>>

(* srv_evals_stop, srv_batches_stop, srv_vectors_stop: one told to stop    *)
(* and waited for, then the next.                                          *)
StopLow(w) ==
  /\ main = "lows"
  /\ w \in Lows \ told /\ \A v \in told : pc[v] = "exit"
  /\ told' = told \cup {w}
  /\ UNCHANGED <<job, engVars, subVars, main>>

\* Mutant: the engine's thread not told.
srv_engine_stop_NoFlag ==
  /\ main = "lows" /\ \A w \in Lows : pc[w] = "exit"
  /\ main' = "join"
  /\ UNCHANGED <<job, engVars, subVars, told>>

(* srv_engine_stop, to the join. *)
srv_engine_stop ==
  /\ main = "lows" /\ \A w \in Lows : pc[w] = "exit"
  /\ stop' = TRUE
  /\ main' = "join"
  /\ UNCHANGED <<job, queue, running, closing, alive, eng, subVars, told>>

\* Mutant: the jobs left in the queue released and not ended.
EndLeft_NotDone(h, q) ==
  [j \in Jobs |-> IF j \in Range(q) THEN Release(h, j)[j] ELSE h[j]]

(* After the join: the jobs left in the queue end, as released. *)
EndLeft(h, q) ==
  [j \in Jobs |-> IF j \in Range(q)
                  THEN Release([h EXCEPT ![j].done = TRUE,
                                         ![j].err = "stopping"], j)[j]
                  ELSE h[j]]

EndQueue ==
  /\ main = "join" /\ eng.pc = "exit"
  /\ job' = EndLeft(job, queue)
  /\ queue' = <<>>
  /\ main' = "free"
  /\ UNCHANGED <<running, closing, stop, alive, eng, subVars, told>>

Free ==
  /\ main = "free"
  /\ alive' = FALSE
  /\ main' = "shutdown"
  /\ UNCHANGED <<job, queue, running, closing, stop, eng, subVars, told>>

(* srv_responses_shutdown: until bg_list is empty, or for 5 s. *)
srv_responses_shutdown ==
  /\ main = "shutdown"
  /\ main' = "over"
  /\ UNCHANGED <<job, engVars, subVars, told>>

Main == \/ srv_engine_cancel_clients \/ srv_http_stop \/ srv_runs_stop
        \/ (\E w \in Lows : StopLow(w)) \/ srv_engine_stop
        \/ EndQueue \/ Free \/ srv_responses_shutdown

-----------------------------------------------------------------------------
Init ==
  /\ job = [j \in Jobs |-> NoJob]
  /\ queue = <<>> /\ running = None
  /\ closing = FALSE /\ stop = FALSE /\ alive = TRUE
  /\ eng = NoWork
  /\ pc = [s \in Submitters |-> "idle"]
  /\ mine = [s \in Submitters |-> None]
  /\ flag = [r \in Runs |-> FALSE]
  /\ res = [r \in Runs |-> "completed"]
  /\ saved = [r \in Runs |-> "completed"]
  /\ gone = [b \in Backs |-> FALSE]
  /\ rounds = [b \in Backs |-> 0]
  /\ ours = [b \in Backs |-> None]
  /\ told = {} /\ main = "serve"

Next == \/ Engine \/ Main
        \/ \E c \in Clients : Client(c)
        \/ \E w \in Lows : Low(w)
        \/ \E r \in Runs : Run(r)
        \/ \E b \in Backs : Back(b)

Spec == Init /\ [][Next]_vars

(* The threads run; requests need not come, clients need not go away, and  *)
(* nobody need ask for the stop.                                           *)
Fairness ==
  /\ WF_vars(Engine)
  /\ WF_vars(Main /\ main # "serve")
  /\ \A c \in Clients : /\ WF_vars(out_free(c) /\ job[mine[c]].done)
                        /\ WF_vars(Leave(c))
  /\ \A w \in Lows : /\ WF_vars(WaitDone(w)) /\ WF_vars(Leave(w))
                     /\ WF_vars(LExit(w))
  /\ \A r \in Runs : WF_vars(RDone(r)) /\ WF_vars(RSave(r))
  /\ \A b \in Backs : /\ WF_vars(BDone(b)) /\ WF_vars(BTools(b))
                      /\ WF_vars(BAdopt(b)) /\ WF_vars(BKeep(b))
                      /\ WF_vars(Leave(b)) /\ WF_vars(BCancelled(b))

FairSpec == Spec /\ Fairness

-----------------------------------------------------------------------------
(* Every variable keeps its type. *)
TypeOK ==
  /\ job \in [Jobs -> [low : BOOLEAN, watch : Runs \cup {None}, done : BOOLEAN,
                       cancel : BOOLEAN, err : Errs, started : BOOLEAN,
                       pos : 0..MaxQueue, refs : 0..4]]
  /\ queue \in Seq(Jobs) /\ Len(queue) <= MaxQueue
  /\ running \in Jobs \cup {None}
  /\ closing \in BOOLEAN /\ stop \in BOOLEAN /\ alive \in BOOLEAN
  /\ eng \in [pc : {"wait", "start", "skip", "setup", "choice", "token",
                    "finish", "clear", "release", "exit"},
              j : Jobs \cup {None}, k : 0..NChoices, tok : 0..(MaxTokens - 1),
              rc : Errs]
  /\ pc \in [Submitters -> {"idle", "wait", "leave", "exit", "tools", "adopt",
                            "keep", "save", "lost"}]
  /\ mine \in [Submitters -> Jobs \cup {None}]
  /\ res \in [Runs -> {"completed", "failed", "cancelled"}]
  /\ saved \in [Runs -> {"in_progress", "completed", "failed", "cancelled"}]
  /\ flag \in [Runs -> BOOLEAN] /\ gone \in [Backs -> BOOLEAN]
  /\ rounds \in [Backs -> 0..MaxRounds]
  /\ ours \in [Backs -> Jobs \cup {None}]
  /\ told \subseteq Lows
  /\ main \in {"serve", "http", "runs", "lows", "join", "free", "shutdown",
               "over"}

(* How many threads will still touch job j: its submitter, the engine and  *)
(* those that wait for its cancelling.                                     *)
Holders(j) ==
  Cardinality({s \in Submitters : mine[s] = j})
    + (IF j \in Range(queue) \/ eng.j = j THEN 1 ELSE 0)
    + Cardinality({b \in Backs : ours[b] = j})

(* refs counts exactly the threads that will still use the job: it is not  *)
(* freed under one of them, and it is freed after the last.                *)
RefsExact == \A j \in Jobs : job[j].refs = Holders(j)

(* The queue through arrivals, takes and cancels: the requests the clients *)
(* wait for stand before the batches', and each job that waits is told     *)
(* where it stands.                                                        *)
QueueInOrder ==
  \A i \in DOMAIN queue :
    /\ job[queue[i]].pos = i
    /\ \A k \in DOMAIN queue :
         i < k => (job[queue[i]].low => job[queue[k]].low)

(* a stands before b in q. *)
Before(q, a, b) == \E i, k \in DOMAIN q : i < k /\ q[i] = a /\ q[k] = b

(* Nobody overtakes a request of its own kind: who waits keeps the order,  *)
(* and who comes stands behind those that came before.                     *)
NoOvertaking ==
  [][ \A a \in Range(queue), b \in Range(queue') :
        (a \in Range(queue') /\ job[a].low = job'[b].low /\ a # b
           /\ (b \in Range(queue) => Before(queue, a, b)))
        => Before(queue', a, b) ]_queue

(* What is cancelled stays so.  Once the server is closing, every client's *)
(* request the engine still has to end is cancelled, the one just out of   *)
(* the queue too: none keeps a connection waiting for a whole reply.  And  *)
(* a response that was cancelled between two rounds starts no other.       *)
CancelsHold ==
  /\ closing => \A j \in Jobs :
       (j \in Range(queue) \/ eng.j = j) /\ ~job[j].low /\ ~job[j].done
         => job[j].cancel
  /\ \A b \in Backs : gone[b] /\ pc[b] = "wait" => job[mine[b]].cancel

(* Nobody waits for a job that the engine no longer has and that is not    *)
(* over: the wait would never end.                                         *)
NoOrphan ==
  \A s \in Submitters : pc[s] = "wait" /\ ~job[mine[s]].done
    => mine[s] \in Range(queue) \/ eng.j = mine[s]

(* A client whose request was taken is answered, and a run or a response   *)
(* that is cancelled ends.                                                 *)
RequestsEnd ==
  /\ \A c \in Clients : pc[c] = "wait" ~> pc[c] # "wait"
  /\ \A r \in Runs : (pc[r] = "wait" /\ flag[r]) ~> pc[r] = "idle"
  /\ \A b \in Backs : ours[b] # None ~> ours[b] = None

(* Asked to stop, the server stops: no step of the shutdown waits forever. *)
ServerStops == main = "http" ~> main = "over"

=============================================================================
