------------------------------- MODULE AiPanel -------------------------------
(***************************************************************************)
(* The suggest tab of the web app's AiPanel against ai-service: Run posts  *)
(* the list, and an interval then polls the job.  The browser runs the     *)
(* callbacks one at a time, but it does not wait for the answer of one     *)
(* poll before the next tick, and clearInterval does not cancel a request  *)
(* that is under way.                                                      *)
(*                                                                         *)
(* A panel that is opened again starts over; the other tabs, which share   *)
(* its loading flag, and the jobStatus text are not modelled.              *)
(***************************************************************************)
EXTENDS SuggestJobs

CONSTANTS
  Polls,  \* bound: poll requests under way at a time
  Error   \* what the panel shows after a failed Run

ASSUME PanelAssumption == Error \notin Jobs \cup {NoJob}

VARIABLES
  loading,   \* Run is disabled
  asked,     \* the jobs whose POST it waits for
  jobId,     \* the job of the last Run
  interval,  \* the job pollRef's interval asks for
  poll,      \* a request: its job, and what has become of it
  shown      \* the job whose result is displayed, Error, or NoJob: nothing

panelVars == <<loading, asked, jobId, interval, poll, shown>>
aiVars == <<jobVars, panelVars, faults>>

Answers == {"pending", "processing", "done", "failed", "404", "error"}
NoPoll == [job |-> NoJob, at |-> "free"]

PanelTypeOK ==
  /\ JobsTypeOK
  /\ loading \in BOOLEAN
  /\ asked \subseteq Jobs
  /\ jobId \in Jobs \cup {NoJob}
  /\ interval \in Jobs \cup {NoJob}
  /\ poll \in [Polls -> [job : Jobs, at : {"status", "result"} \cup Answers] \cup {NoPoll}]
  /\ shown \in Jobs \cup {NoJob, Error}

AiInit ==
  /\ FaultsInit
  /\ JobsInit
  /\ loading = FALSE
  /\ asked = {} /\ jobId = NoJob /\ interval = NoJob
  /\ poll = [p \in Polls |-> NoPoll]
  /\ shown = NoJob

(* run, up to its await. *)
Run(j) ==
  /\ ~loading
  /\ Submit(j)
  /\ loading' = TRUE
  /\ asked' = asked \cup {j}
  /\ jobId' = NoJob /\ interval' = NoJob /\ shown' = NoJob
  /\ UNCHANGED poll

(* The answer to the POST.  After an error the finally block leaves        *)
(* loading as it is, since the tab is "suggest".                           *)
Submitted(j) ==
  /\ j \in asked
  /\ submit[j] \in {"202", "500"}
  /\ asked' = asked \ {j}
  /\ \/ /\ submit[j] = "202"
        /\ jobId' = j /\ interval' = j
        /\ NoFault
        /\ UNCHANGED shown
     \/ /\ IF submit[j] = "500" THEN NoFault ELSE Fault("net")
        /\ shown' = Error
        /\ UNCHANGED <<jobId, interval>>
  /\ UNCHANGED <<loading, poll, jobVars>>

Tick(p) ==
  /\ interval # NoJob
  /\ poll[p] = NoPoll
  /\ poll' = [poll EXCEPT ![p] = [job |-> interval, at |-> "status"]]
  /\ NoFault
  /\ UNCHANGED <<loading, asked, jobId, interval, shown, jobVars>>

(* get_job reads the status, and the result of a job that is done. *)
Read(p) ==
  LET j == poll[p].job
  IN  /\ \/ /\ poll[p].at = "status"
            /\ poll' = [poll EXCEPT ![p].at =
                          IF status[j] = "done" THEN "result" ELSE StatusAnswer(j)]
            /\ NoFault
         \/ /\ poll[p].at = "result"
            /\ poll' = [poll EXCEPT ![p].at = ResultAnswer(j)]
            /\ NoFault
         \/ /\ poll[p].at \in {"status", "result"}
            /\ Fault("net")
            /\ poll' = [poll EXCEPT ![p].at = "error"]
      /\ UNCHANGED <<loading, asked, jobId, interval, shown, jobVars>>

(* The interval ends, and Run stays as it is. *)
StopIntervalOnly == interval' = NoJob /\ UNCHANGED loading

(* Run is enabled, and the interval goes on. *)
UnlockOnly == loading' = FALSE /\ UNCHANGED interval

StopPolling == interval' = NoJob /\ loading' = FALSE

(* The catch does not end the polling. *)
AnsweredNoCatch(p) ==
  /\ poll[p].at \in Answers
  /\ poll' = [poll EXCEPT ![p] = NoPoll]
  /\ IF poll[p].at = "done"
     THEN StopPolling /\ shown' = poll[p].job
     ELSE UNCHANGED <<interval, loading, shown>>
  /\ NoFault
  /\ UNCHANGED <<asked, jobId, jobVars>>

(* The answer reaches the interval's callback, which acts upon the panel   *)
(* as it is now.  Nothing but "done" and an exception end the polling.     *)
Answered(p) ==
  /\ poll[p].at \in Answers
  /\ poll' = [poll EXCEPT ![p] = NoPoll]
  /\ CASE poll[p].at = "done"             -> StopPolling /\ shown' = poll[p].job
       [] poll[p].at \in {"404", "error"} -> StopPolling /\ UNCHANGED shown
       [] OTHER                           -> UNCHANGED <<interval, loading, shown>>
  /\ NoFault
  /\ UNCHANGED <<asked, jobId, jobVars>>

----------------------------------------------------------------------------

AiNext ==
  \/ \E j \in Jobs : Run(j) \/ Submitted(j)
  \/ \E p \in Polls : Tick(p) \/ Read(p) \/ Answered(p)
  \/ JobsNext /\ UNCHANGED panelVars

AiSpec == AiInit /\ [][AiNext]_aiVars

(* Requests are served, the interval ticks, the worker runs and is         *)
(* restarted, Redis restores messages and deletes expired keys.            *)
AiFairness ==
  /\ \A j \in Jobs :
       /\ WF_aiVars((StoreJob(j) \/ EnqueueJob(j)) /\ UNCHANGED panelVars)
       /\ WF_aiVars(Restore(j) /\ UNCHANGED panelVars)
       /\ WF_aiVars(Expire(j) /\ UNCHANGED panelVars)
       /\ WF_aiVars(Submitted(j))
       /\ SF_aiVars(\E c \in Children : Take(c, j) /\ UNCHANGED panelVars)
  /\ \A c \in Children : WF_aiVars(ChildStep(c) /\ UNCHANGED panelVars)
  /\ \A p \in Polls : WF_aiVars(Tick(p)) /\ WF_aiVars(Read(p)) /\ WF_aiVars(Answered(p))

AiFairSpec == AiSpec /\ AiFairness

----------------------------------------------------------------------------
(* Properties                                                              *)

InHand == queue \cup unacked \cup Held

(* No message is let go of while its job's status is open, crashes of the  *)
(* worker and late acknowledgements notwithstanding (task_acks_late, "jobs *)
(* survive worker crashes").  The exceptions are a task that an exception  *)
(* of its first or last write has ended, and a child that is killed.       *)
JobsKept ==
  [][\A j \in InHand \ InHand' :
       \/ status[j] \in {"done", "failed"}
       \/ \E c \in Children : cjob[c] = j /\ (At(c, "err") \/ ChildKilled(c))]_aiVars

(* What the API wrote cannot overwrite what the worker wrote: a job that   *)
(* has been taken up is never "pending" again (ai.py suggest_endpoint).    *)
NeverPendingAgain ==
  [][\A j \in Jobs :
       status[j] \in {"processing", "done", "failed"} => status'[j] # "pending"]_aiVars

(* Whoever finds "done" finds the result as well, unless both are about to *)
(* expire: "done" is published only when the result is stored (tasks.py    *)
(* _run_suggest).                                                          *)
DoneHasResult ==
  [][\A j \in Jobs : status[j] # "done" /\ status'[j] = "done" => j \in result]_aiVars

(* "Any exception": "Log + set status="failed" with error string": a task  *)
(* that leaves the worker has told how it ended (tasks.py _run_suggest,    *)
(* suggest_task).                                                          *)
TasksTell ==
  [][\A j \in InHand \ InHand' : status[j] \in {"done", "failed"}]_aiVars

(* The panel does not poll for ever: an abandoned or failed job's status   *)
(* expires at last, and the 404 ends the polling (AiPanel.tsx startPoll).  *)
PollingEnds ==
  \A j \in Jobs : interval = j ~> interval # j

(* Run is enabled again, unless its own POST failed: then the error is on  *)
(* the screen, and Run stays disabled (AiPanel.tsx run, startPoll).        *)
RunComesBack == loading ~> (~loading \/ shown = Error)

(* "Client polls GET /jobs/{job_id} until status is done, gets clustered   *)
(* meal suggestions": what the panel shows is the result of its last Run   *)
(* (AiPanel.tsx startPoll).  It holds while no two polls overlap.          *)
ShowsOwnJob == shown \in Jobs => shown = jobId
=============================================================================
