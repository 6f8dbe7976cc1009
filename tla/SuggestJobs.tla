----------------------------- MODULE SuggestJobs -----------------------------
(***************************************************************************)
(* The asynchronous suggest jobs of ai-service.  POST /suggest writes the  *)
(* status "pending" to Redis and enqueues a Celery message in the same     *)
(* Redis; a child process of the Celery worker takes the message, runs     *)
(* _run_suggest and acknowledges late.  A client polls GET /jobs/{job_id}. *)
(*                                                                         *)
(* Statuses and results are keys of their own, written with one TTL each.  *)
(* A job id is a fresh uuid, so every job has exactly one message, which   *)
(* is queued, held by a child, or unacknowledged by a worker that died.    *)
(*                                                                         *)
(* A child runs each task in an event loop of its own (asyncio.run), but   *)
(* keeps one Redis client for all of them (cache.py _client).  The client  *)
(* puts a connection back into its pool with the loop it was opened in; in *)
(* a later task every call on it raises a RuntimeError and puts it back    *)
(* again.                                                                  *)
(***************************************************************************)
EXTENDS Faults

CONSTANTS
  Jobs,       \* job ids
  Children,   \* child processes of the worker
  NoJob

ASSUME JobsAssumption == NoJob \notin Jobs

VARIABLES
  submit,   \* POST /suggest: new; storing, enqueuing: its next call; 202 or 500
  status,   \* the key ai:status:{job_id}, none when absent
  result,   \* jobs whose key ai:result:{job_id} exists
  queue,    \* messages waiting in the broker
  unacked,  \* messages whose worker died before it acknowledged them
  child,    \* the next call of a child, idle between two messages
  cjob,     \* the job of the message it holds
  stale     \* children whose pool has a connection of a loop that has ended

apiVars == submit
storeVars == <<status, result>>
workerVars == <<queue, unacked, child, cjob, stale>>
jobVars == <<apiVars, storeVars, workerVars>>

Held == {cjob[c] : c \in Children} \ {NoJob}

JobsTypeOK ==
  /\ submit \in [Jobs -> {"new", "storing", "enqueuing", "202", "500"}]
  /\ status \in [Jobs -> {"none", "pending", "processing", "done", "failed"}]
  /\ result \subseteq Jobs
  /\ queue \subseteq Jobs
  /\ unacked \subseteq Jobs
  /\ child \in [Children -> {"idle", "start", "call", "store", "finish", "fail", "ack", "err"}]
  /\ cjob \in [Children -> Jobs \cup {NoJob}]
  /\ stale \subseteq Children

JobsInit ==
  /\ submit = [j \in Jobs |-> "new"]
  /\ status = [j \in Jobs |-> "none"]
  /\ result = {}
  /\ queue = {}
  /\ unacked = {}
  /\ child = [c \in Children |-> "idle"]
  /\ cjob = [c \in Children |-> NoJob]
  /\ stale = {}

SetStatus(j, s) == status' = [status EXCEPT ![j] = s] /\ UNCHANGED result

----------------------------------------------------------------------------
(* POST /suggest                                                           *)

Submit(j) ==
  /\ submit[j] = "new"
  /\ submit' = [submit EXCEPT ![j] = "storing"]
  /\ NoFault
  /\ UNCHANGED <<storeVars, workerVars>>

(* An exception of either call, or a crash of the process, is an error for *)
(* the client, whether the call had its effect or not; after the first     *)
(* call it leaves a status "pending" behind.                               *)
StoreJob(j) ==
  /\ submit[j] = "storing"
  /\ \/ SetStatus(j, "pending") /\ submit' = [submit EXCEPT ![j] = "enqueuing"] /\ NoFault
     \/ /\ Fault("api")
        /\ submit' = [submit EXCEPT ![j] = "500"]
        /\ SetStatus(j, "pending") \/ UNCHANGED storeVars
  /\ UNCHANGED workerVars

(* The message is on its way before the status is stored. *)
EnqueueJobEarly(j) ==
  /\ submit[j] = "storing"
  /\ queue' = queue \cup {j}
  /\ NoFault
  /\ UNCHANGED <<apiVars, storeVars, unacked, child, cjob, stale>>

EnqueueJob(j) ==
  /\ submit[j] = "enqueuing"
  /\ \/ queue' = queue \cup {j} /\ submit' = [submit EXCEPT ![j] = "202"] /\ NoFault
     \/ /\ Fault("api")
        /\ submit' = [submit EXCEPT ![j] = "500"]
        /\ queue' \in {queue, queue \cup {j}}
  /\ UNCHANGED <<storeVars, unacked, child, cjob, stale>>

----------------------------------------------------------------------------
(* The worker: _run_suggest, call by call                                  *)

At(c, pc) == child[c] = pc
Goto(c, pc) == child' = [child EXCEPT ![c] = pc] /\ UNCHANGED <<queue, unacked, cjob, stale>>

Take(c, j) ==
  /\ At(c, "idle")
  /\ j \in queue
  /\ queue' = queue \ {j}
  /\ child' = [child EXCEPT ![c] = "start"]
  /\ cjob' = [cjob EXCEPT ![c] = j]
  /\ NoFault
  /\ UNCHANGED <<apiVars, storeVars, unacked, stale>>

(* The status "processing" is written before the try: an exception of this *)
(* call ends the task.  With a stale connection it raises and writes       *)
(* nothing; a write whose answer is lost has happened all the same.        *)
Start(c) ==
  /\ At(c, "start")
  /\ \/ /\ c \in stale
        /\ Goto(c, "err") /\ UNCHANGED storeVars
        /\ NoFault
     \/ /\ c \notin stale
        /\ SetStatus(cjob[c], "processing") /\ Goto(c, "call")
        /\ NoFault
     \/ /\ c \notin stale
        /\ SetStatus(cjob[c], "processing") \/ UNCHANGED storeVars
        /\ Goto(c, "err")
        /\ Fault("redis")
  /\ UNCHANGED apiVars

(* domains.suggest: an answer it cannot parse is a fallback result, an     *)
(* exception of the LLM call is not caught before the except of the task.  *)
Call(c) ==
  /\ At(c, "call")
  /\ \/ Goto(c, "store") /\ NoFault
     \/ Fault("llm") /\ Goto(c, "fail")
  /\ UNCHANGED <<apiVars, storeVars>>

(* The status is published before the result is there. *)
StoreResultLate(c) ==
  /\ At(c, "store")
  /\ SetStatus(cjob[c], "done")
  /\ Goto(c, "finish")
  /\ NoFault
  /\ UNCHANGED apiVars

StoreResult(c) ==
  /\ At(c, "store")
  /\ \/ result' = result \cup {cjob[c]} /\ Goto(c, "finish") /\ NoFault
     \/ Fault("redis") /\ Goto(c, "fail") /\ result' \in {result, result \cup {cjob[c]}}
  /\ UNCHANGED <<apiVars, status>>

Finish(c) ==
  /\ At(c, "finish")
  /\ \/ SetStatus(cjob[c], "done") /\ Goto(c, "ack") /\ NoFault
     \/ /\ Fault("redis")
        /\ Goto(c, "fail")
        /\ SetStatus(cjob[c], "done") \/ UNCHANGED storeVars
  /\ UNCHANGED apiVars

(* The exception is logged and nothing else. *)
FailSilently(c) ==
  /\ At(c, "fail")
  /\ Goto(c, "ack")
  /\ NoFault
  /\ UNCHANGED <<apiVars, storeVars>>

(* The call is made within the except: its own exception ends the task.    *)
Fail(c) ==
  /\ At(c, "fail")
  /\ \/ SetStatus(cjob[c], "failed") /\ Goto(c, "ack") /\ NoFault
     \/ /\ Fault("redis")
        /\ Goto(c, "err")
        /\ SetStatus(cjob[c], "failed") \/ UNCHANGED storeVars
  /\ UNCHANGED apiVars

(* task_acks_late: success and failure alike acknowledge when the task has *)
(* ended; an acknowledgement that fails leaves the message unacknowledged. *)
(* The task's loop has ended, and the connection it used stays in the      *)
(* pool.  A connection that was lost with the last call is not in the way  *)
(* of the next task, which opens another.                                  *)
Ack(c) ==
  /\ child[c] \in {"ack", "err"}
  /\ child' = [child EXCEPT ![c] = "idle"]
  /\ cjob' = [cjob EXCEPT ![c] = NoJob]
  /\ \/ stale' = stale \cup {c}
     \/ At(c, "err") /\ UNCHANGED stale
  /\ \/ UNCHANGED unacked /\ NoFault
     \/ Fault("redis") /\ unacked' = unacked \cup {cjob[c]}
  /\ UNCHANGED <<apiVars, storeVars, queue>>

ChildStep(c) ==
  Start(c) \/ Call(c) \/ StoreResult(c) \/ Finish(c) \/ Fail(c) \/ Ack(c)

----------------------------------------------------------------------------
(* What the worker's processes and Celery do to the messages               *)

(* A child is killed: the parent reports the task as failed and            *)
(* acknowledges, task_reject_on_worker_lost not being set, and starts      *)
(* another child.                                                          *)
ChildKilled(c) ==
  /\ ~At(c, "idle")
  /\ Fault("child")
  /\ child' = [child EXCEPT ![c] = "idle"]
  /\ cjob' = [cjob EXCEPT ![c] = NoJob]
  /\ stale' = stale \ {c}
  /\ UNCHANGED <<apiVars, storeVars, queue, unacked>>

(* The worker dies with all its children and is started again. *)
WorkerCrash ==
  /\ Held # {}
  /\ Fault("crash")
  /\ unacked' = unacked \cup Held
  /\ child' = [c \in Children |-> "idle"]
  /\ cjob' = [c \in Children |-> NoJob]
  /\ stale' = {}
  /\ UNCHANGED <<apiVars, storeVars, queue>>

(* The visibility timeout is shorter than a task. *)
RestoreHeld(j) ==
  /\ j \in unacked \cup Held
  /\ unacked' = unacked \ {j}
  /\ queue' = queue \cup {j}
  /\ NoFault
  /\ UNCHANGED <<apiVars, storeVars, child, cjob, stale>>

(* The visibility timeout of the Redis transport passes. *)
Restore(j) ==
  /\ j \in unacked
  /\ unacked' = unacked \ {j}
  /\ queue' = queue \cup {j}
  /\ NoFault
  /\ UNCHANGED <<apiVars, storeVars, child, cjob, stale>>

----------------------------------------------------------------------------
(* Redis deletes a key when its TTL is over.  The TTL equals the           *)
(* visibility timeout: when a message is delivered again, the keys of the  *)
(* earlier run are about to go.  A run is over long before the keys it has *)
(* written itself are due, and a status "done" is younger than its result. *)

(* A run of j has just written the status. *)
JustTold(j) == \E c \in Children : cjob[c] = j /\ child[c] \notin {"start", "err"}

(* It has just stored the result, and is about to tell so or has told so. *)
JustStored(j) ==
  \/ \E c \in Children : cjob[c] = j /\ At(c, "finish")
  \/ JustTold(j) /\ status[j] = "done"

ExpireResult(j) ==
  /\ j \in result
  /\ ~JustStored(j)
  /\ result' = result \ {j}
  /\ NoFault
  /\ UNCHANGED <<apiVars, status, workerVars>>

ExpireStatus(j) ==
  /\ submit[j] \in {"202", "500"}
  /\ status[j] # "none"
  /\ ~JustTold(j)
  /\ status[j] = "done" => j \notin result
  /\ SetStatus(j, "none")
  /\ NoFault
  /\ UNCHANGED <<apiVars, workerVars>>

Expire(j) == ExpireResult(j) \/ ExpireStatus(j)

----------------------------------------------------------------------------
(* The answers of GET /jobs/{job_id}.  A result that is gone when a job    *)
(* was read to be done is answered as "processing".                        *)

StatusUnchecked(j) == status[j]

StatusAnswer(j) == IF status[j] = "none" THEN "404" ELSE status[j]

ResultAnswer(j) == IF j \in result THEN "done" ELSE "processing"

----------------------------------------------------------------------------

JobsNext ==
  \/ \E j \in Jobs :
       \/ StoreJob(j) \/ EnqueueJob(j)
       \/ Restore(j)
       \/ Expire(j)
       \/ \E c \in Children : Take(c, j)
  \/ \E c \in Children : ChildStep(c) \/ ChildKilled(c)
  \/ WorkerCrash

----------------------------------------------------------------------------
(* Property                                                                *)

(* Under any fault, with stale connections and while keys of an earlier    *)
(* run expire, ai-service is the job queue its clients see: a job is run   *)
(* by one child at a time, its keys are written by that child alone and in *)
(* the order of its run, and "done" is told only with a result on record   *)
(* (ai.py suggest_endpoint, tasks.py _run_suggest, celery_app.py).         *)
Board == INSTANCE JobQueue WITH
  closed <- {j \in Jobs : submit[j] \in {"202", "500"}},
  waiting <- queue \cup unacked,
  taken <- {cjob[c] : c \in {d \in Children : child[d] = "start"}},
  running <- {cjob[c] : c \in {d \in Children :
                                  child[d] \in {"call", "store", "finish", "fail", "ack"}}},
  over <- {cjob[c] : c \in {d \in Children : child[d] = "err"}},
  told <- status,
  results <- result

IsJobQueue == Board!QueueSpec
=============================================================================
