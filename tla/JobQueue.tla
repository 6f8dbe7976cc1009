------------------------------ MODULE JobQueue ------------------------------
(***************************************************************************)
(* What ai-service promises of an asynchronous job, with neither worker    *)
(* processes nor a broker: a job is offered once, waits, and is run by one *)
(* worker at a time, possibly again after a crash.  Only its run writes    *)
(* its status, processing first and then how it ended; done is told with a *)
(* result on record, which stays until the run is settled.  A run may      *)
(* break off and tell nothing more.                                        *)
(***************************************************************************)
CONSTANT Jobs

VARIABLES
  closed,   \* jobs whose submission has ended, one way or the other
  waiting,  \* jobs that somebody will run
  taken,    \* jobs some worker has in hand but has not begun
  running,  \* jobs some worker has begun
  over,     \* jobs whose run broke off, but which the worker still has in hand
  told,     \* what a client that asks for the status reads
  results   \* jobs with a result on record

queueVars == <<closed, waiting, taken, running, over, told, results>>

Tell(j, s) == told' = [told EXCEPT ![j] = s]

Hands == taken \cup running \cup over

QueueInit ==
  /\ closed = {} /\ waiting = {} /\ taken = {} /\ running = {} /\ over = {}
  /\ told = [j \in Jobs |-> "none"]
  /\ results = {}

(* The submission: once it has ended, nobody says "pending" of the job.    *)
Announce(j) ==
  /\ j \notin closed
  /\ Tell(j, "pending")
  /\ UNCHANGED <<closed, waiting, taken, running, over, results>>

Offer(j) ==
  /\ j \notin closed
  /\ closed' = closed \cup {j}
  /\ waiting' = waiting \cup {j}
  /\ UNCHANGED <<taken, running, over, told, results>>

Refuse(j) ==
  /\ j \notin closed
  /\ closed' = closed \cup {j}
  /\ Tell(j, "pending") \/ UNCHANGED told
  /\ UNCHANGED <<waiting, taken, running, over, results>>

(* A run. *)
TakeUp(j) ==
  /\ j \in waiting
  /\ waiting' = waiting \ {j}
  /\ taken' = taken \cup {j}
  /\ UNCHANGED <<closed, running, over, told, results>>

Begin(j) ==
  /\ j \in taken
  /\ taken' = taken \ {j}
  /\ running' = running \cup {j}
  /\ Tell(j, "processing")
  /\ UNCHANGED <<closed, waiting, over, results>>

(* The run breaks off at its first word. *)
Miss(j) ==
  /\ j \in taken
  /\ taken' = taken \ {j}
  /\ over' = over \cup {j}
  /\ Tell(j, "processing") \/ UNCHANGED told
  /\ UNCHANGED <<closed, waiting, running, results>>

Record(j) ==
  /\ j \in running
  /\ told[j] = "processing"
  /\ results' = results \cup {j}
  /\ UNCHANGED <<closed, waiting, taken, running, over, told>>

Done(j) ==
  /\ j \in running \cap results
  /\ told[j] = "processing"
  /\ Tell(j, "done")
  /\ UNCHANGED <<closed, waiting, taken, running, over, results>>

Failed(j) ==
  /\ j \in running
  /\ told[j] \in {"processing", "done"}
  /\ Tell(j, "failed")
  /\ UNCHANGED <<closed, waiting, taken, running, over, results>>

(* It breaks off at its last word. *)
BreakOff(j) ==
  /\ j \in running
  /\ told[j] \in {"processing", "done"}
  /\ running' = running \ {j}
  /\ over' = over \cup {j}
  /\ Tell(j, "failed") \/ UNCHANGED told
  /\ UNCHANGED <<closed, waiting, taken, results>>

(* The worker is rid of the job. *)
Drop(j) ==
  /\ j \in Hands
  /\ taken' = taken \ {j} /\ running' = running \ {j} /\ over' = over \ {j}
  /\ UNCHANGED <<closed, waiting, told, results>>

(* Some of the jobs in hand have to be run again. *)
Redeliver(S) ==
  /\ S # {}
  /\ waiting' = waiting \cup S
  /\ taken' = taken \ S /\ running' = running \ S /\ over' = over \ S
  /\ UNCHANGED <<closed, told, results>>

(* A record may go at any time, but not the result just told to be there.  *)
ForgetResult(j) ==
  /\ j \in running => told[j] # "done"
  /\ results' = results \ {j}
  /\ UNCHANGED <<closed, waiting, taken, running, over, told>>

(* Nor the status of a run that has begun, nor a "done" before its result. *)
Forget(j) ==
  /\ j \in closed \ running
  /\ told[j] = "done" => j \notin results
  /\ Tell(j, "none")
  /\ UNCHANGED <<closed, waiting, taken, running, over, results>>

QueueNext ==
  \/ \E j \in Jobs :
       \/ Announce(j) \/ Offer(j) \/ Refuse(j)
       \/ TakeUp(j) \/ Begin(j) \/ Miss(j) \/ Record(j) \/ Done(j) \/ Failed(j) \/ BreakOff(j)
       \/ Drop(j)
       \/ ForgetResult(j) \/ Forget(j)
  \/ \E S \in SUBSET Hands : Redeliver(S)

QueueSpec == QueueInit /\ [][QueueNext]_queueVars
=============================================================================
