-------------------------- MODULE SuggestJobsProofs --------------------------
(***************************************************************************)
(* The suggest jobs and the panel that polls them, for any number of jobs, *)
(* children, polls and faults.                                             *)
(*                                                                         *)
(* The inductive invariant says where a job's one message is: before the   *)
(* API enqueued it nowhere, then in exactly one of the queue, a child and  *)
(* the unacknowledged messages, and so that nobody but the child that      *)
(* holds the message writes the job's keys.                                *)
(***************************************************************************)
EXTENDS AiPanel, TLAPS

(* A child has a job exactly while it works. *)
ChildrenBusy == \A c \in Children : child[c] = "idle" <=> cjob[c] = NoJob

(* No two places have the message of one job. *)
OneMessage ==
  /\ queue \cap unacked = {}
  /\ \A c \in Children : cjob[c] \notin queue \cup unacked
  /\ \A c, d \in Children : cjob[c] = cjob[d] /\ cjob[c] # NoJob => c = d

(* What the API has not enqueued nobody has, and it is pending at most. *)
Unsubmitted ==
  \A j \in Jobs :
    submit[j] \in {"new", "storing", "enqueuing"} =>
      /\ j \notin queue \cup unacked
      /\ \A c \in Children : cjob[c] # j
      /\ status[j] \in {"none", "pending"}

(* The result is there before the status tells so. *)
ResultFirst == \A c \in Children : child[c] = "finish" => cjob[c] \in result

MessageInv == ChildrenBusy /\ OneMessage /\ Unsubmitted /\ ResultFirst

JobsInv == PanelTypeOK /\ MessageInv

(* What a child has told so far of the job it works on. *)
RunTold ==
  \A c \in Children :
    /\ child[c] \in {"call", "store", "finish"} => status[cjob[c]] = "processing"
    /\ child[c] = "fail" => status[cjob[c]] \in {"processing", "done"}
    /\ child[c] = "ack" => status[cjob[c]] \in {"done", "failed"}

(* A step of ai-service. *)
ServiceStep == JobsNext \/ \E j \in Jobs : Submit(j)

----------------------------------------------------------------------------
(* The invariant over a step of ai-service                                 *)

(* ai-service starts with nothing to do. *)
LEMMA JobsInitInv == JobsInit => JobsTypeOK /\ MessageInv
<1> SUFFICES ASSUME JobsInit PROVE JobsTypeOK /\ MessageInv
  OBVIOUS
<1> USE DEF JobsInit
<1>1. JobsTypeOK
  BY DEF JobsTypeOK
<1>2. ChildrenBusy /\ OneMessage /\ ResultFirst
  BY DEF ChildrenBusy, OneMessage, ResultFirst
<1>3. Unsubmitted
  BY JobsAssumption DEF Unsubmitted
<1> QED BY <1>1, <1>2, <1>3 DEF MessageInv

(* The types, and that a child works exactly while it has a job. *)
LEMMA JobsTypeStep ==
  ASSUME JobsTypeOK, ChildrenBusy, ServiceStep
  PROVE  JobsTypeOK' /\ ChildrenBusy'
<1> USE JobsAssumption
    DEF JobsTypeOK, ChildrenBusy, apiVars, storeVars, workerVars, SetStatus, At, Goto, Held
<1> DEFINE Good == JobsTypeOK' /\ ChildrenBusy'
<1>1. ASSUME NEW j \in Jobs, Submit(j) \/ StoreJob(j) \/ EnqueueJob(j) PROVE Good
  BY <1>1 DEF Submit, StoreJob, EnqueueJob
<1>2. ASSUME NEW j \in Jobs, Restore(j) \/ Expire(j) PROVE Good
  BY <1>2 DEF Restore, Expire, ExpireResult, ExpireStatus
<1>3. ASSUME NEW j \in Jobs, NEW c \in Children, Take(c, j) PROVE Good
  BY <1>3 DEF Take
<1>4. ASSUME NEW c \in Children, ChildStep(c) PROVE Good
  <2>1. cjob[c] \in Jobs
    BY <1>4 DEF ChildStep, Start, Call, StoreResult, Finish, Fail, Ack
  <2>2. CASE Start(c) \/ Call(c)
    BY <2>1, <2>2 DEF Start, Call
  <2>3. CASE StoreResult(c) \/ Finish(c)
    BY <2>1, <2>3 DEF StoreResult, Finish
  <2>4. CASE Fail(c) \/ Ack(c)
    BY <2>1, <2>4 DEF Fail, Ack
  <2> QED BY <1>4, <2>2, <2>3, <2>4 DEF ChildStep
<1>5. ASSUME NEW c \in Children, ChildKilled(c) PROVE Good
  BY <1>5 DEF ChildKilled
<1>6. ASSUME WorkerCrash PROVE Good
  BY <1>6 DEF WorkerCrash
<1> QED BY <1>1, <1>2, <1>3, <1>4, <1>5, <1>6 DEF ServiceStep, JobsNext

(* The message of a job moves from one place to the next. *)
LEMMA MessageStep ==
  ASSUME JobsTypeOK, MessageInv, ServiceStep
  PROVE  OneMessage' /\ Unsubmitted' /\ ResultFirst'
<1> USE JobsAssumption
    DEF JobsTypeOK, MessageInv, ChildrenBusy, OneMessage, Unsubmitted, ResultFirst,
        apiVars, storeVars, workerVars, SetStatus, At, Goto, Held
<1> DEFINE Good == OneMessage' /\ Unsubmitted' /\ ResultFirst'
<1>1. ASSUME NEW j \in Jobs, Submit(j) PROVE Good
  BY <1>1 DEF Submit
<1>2. ASSUME NEW j \in Jobs, StoreJob(j) PROVE Good
  BY <1>2 DEF StoreJob
<1>3. ASSUME NEW j \in Jobs, EnqueueJob(j) PROVE Good
  BY <1>3 DEF EnqueueJob
<1>4. ASSUME NEW j \in Jobs, Restore(j) PROVE Good
  BY <1>4 DEF Restore
<1>5. ASSUME NEW j \in Jobs, Expire(j) PROVE Good
  BY <1>5 DEF Expire, ExpireResult, ExpireStatus, JustStored
<1>6. ASSUME NEW j \in Jobs, NEW c \in Children, Take(c, j) PROVE Good
  BY <1>6 DEF Take
<1>7. ASSUME NEW c \in Children, ChildStep(c) PROVE Good
  <2>1. cjob[c] \in Jobs /\ child[c] # "idle" /\ submit[cjob[c]] \in {"202", "500"}
    BY <1>7 DEF ChildStep, Start, Call, StoreResult, Finish, Fail, Ack
  <2>2. CASE Start(c) \/ Call(c)
    BY <2>1, <2>2 DEF Start, Call
  <2>3. CASE StoreResult(c)
    BY <2>1, <2>3 DEF StoreResult
  <2>4. CASE Finish(c) \/ Fail(c)
    BY <2>1, <2>4 DEF Finish, Fail
  <2>5. CASE Ack(c)
    BY <2>1, <2>5 DEF Ack
  <2> QED BY <1>7, <2>2, <2>3, <2>4, <2>5 DEF ChildStep
<1>8. ASSUME NEW c \in Children, ChildKilled(c) PROVE Good
  BY <1>8 DEF ChildKilled
<1>9. ASSUME WorkerCrash PROVE Good
  BY <1>9 DEF WorkerCrash
<1> QED
  BY <1>1, <1>2, <1>3, <1>4, <1>5, <1>6, <1>7, <1>8, <1>9 DEF ServiceStep, JobsNext

----------------------------------------------------------------------------
(* The whole system                                                        *)

(* A step of the panel alone, or of ai-service. *)
LEMMA PanelOrService ==
  AiNext => ServiceStep \/ UNCHANGED jobVars
  BY DEF AiNext, ServiceStep, Run, Submitted, Tick, Read, Answered

(* The types of the panel. *)
LEMMA PanelTypeStep ==
  ASSUME PanelTypeOK, AiNext, JobsTypeOK'
  PROVE  PanelTypeOK'
<1> USE PanelAssumption DEF PanelTypeOK, Answers
<1>1. ASSUME NEW j \in Jobs, Run(j) PROVE PanelTypeOK'
  BY <1>1 DEF Run
<1>2. ASSUME NEW j \in Jobs, Submitted(j) PROVE PanelTypeOK'
  BY <1>2 DEF Submitted
<1>3. ASSUME NEW p \in Polls, Tick(p) PROVE PanelTypeOK'
  BY <1>3 DEF Tick
<1>4. ASSUME NEW p \in Polls, Read(p) PROVE PanelTypeOK'
  <2>1. poll[p].job \in Jobs /\ poll[p] \in [job : Jobs, at : {"status", "result"} \cup Answers]
    BY <1>4 DEF Read, NoPoll
  <2>2. StatusAnswer(poll[p].job) \in Answers /\ ResultAnswer(poll[p].job) \in Answers
    BY <2>1 DEF StatusAnswer, ResultAnswer, JobsTypeOK
  <2> QED BY <1>4, <2>1, <2>2 DEF Read
<1>5. ASSUME NEW p \in Polls, Answered(p) PROVE PanelTypeOK'
  <2>1. poll[p].job \in Jobs
    BY <1>5 DEF Answered, NoPoll
  <2> QED BY <1>5, <2>1 DEF Answered, StopPolling
<1>6. ASSUME UNCHANGED panelVars PROVE PanelTypeOK'
  BY <1>6 DEF panelVars
<1> QED BY <1>1, <1>2, <1>3, <1>4, <1>5, <1>6 DEF AiNext

(* The invariant is inductive. *)
LEMMA JobsInvStep == JobsInv /\ [AiNext]_aiVars => JobsInv'
<1> SUFFICES ASSUME JobsInv, [AiNext]_aiVars PROVE JobsInv'
  OBVIOUS
<1> USE DEF JobsInv, PanelTypeOK
<1>1. ASSUME UNCHANGED jobVars PROVE JobsTypeOK' /\ MessageInv'
  BY <1>1 DEF jobVars, apiVars, storeVars, workerVars, JobsTypeOK, MessageInv, ChildrenBusy,
     OneMessage, Unsubmitted, ResultFirst
<1>2. ASSUME ServiceStep PROVE JobsTypeOK' /\ MessageInv'
  BY <1>2, JobsTypeStep, MessageStep DEF MessageInv
<1>3. CASE AiNext
  BY <1>1, <1>2, <1>3, PanelOrService, PanelTypeStep
<1>4. CASE UNCHANGED aiVars
  BY <1>1, <1>4 DEF aiVars, panelVars
<1> QED BY <1>3, <1>4

LEMMA JobsInvariant == AiSpec => []JobsInv
<1>1. AiInit => JobsInv
  BY JobsInitInv DEF AiInit, JobsInv, PanelTypeOK, NoPoll
<1> QED BY <1>1, JobsInvStep, PTL DEF AiSpec

----------------------------------------------------------------------------
(* Theorems                                                                *)

(* Every variable of the panel and of ai-service keeps its type. *)
THEOREM PanelTypesHold == AiSpec => []PanelTypeOK
  BY JobsInvariant, PTL DEF JobsInv

(* A job that was taken up is never pending again, whatever fails: only    *)
(* suggest_endpoint writes pending, and before it enqueues (ai.py).        *)
THEOREM NoJobIsPendingAgain == AiSpec => NeverPendingAgain
<1> DEFINE Step == \A j \in Jobs :
             status[j] \in {"processing", "done", "failed"} => status'[j] # "pending"
<1>1. JobsInv /\ [AiNext]_aiVars => [Step]_aiVars
  <2> SUFFICES ASSUME JobsInv, AiNext, NEW j \in Jobs,
                      status[j] \in {"processing", "done", "failed"}
               PROVE  status'[j] # "pending"
    BY DEF aiVars
  <2> USE JobsAssumption
      DEF JobsInv, PanelTypeOK, JobsTypeOK, MessageInv, Unsubmitted, storeVars, SetStatus
  <2>1. CASE UNCHANGED status
    BY <2>1
  <2>2. ASSUME NEW i \in Jobs, StoreJob(i) PROVE status'[j] # "pending"
    BY <2>2 DEF StoreJob
  <2>3. ASSUME NEW i \in Jobs, Expire(i) PROVE status'[j] # "pending"
    BY <2>3 DEF Expire, ExpireResult, ExpireStatus
  <2>4. ASSUME NEW c \in Children, ChildStep(c) PROVE status'[j] # "pending"
    BY <2>4 DEF ChildStep, Start, Call, StoreResult, Finish, Fail, Ack
  <2>5. UNCHANGED status \/ (\E i \in Jobs : StoreJob(i) \/ Expire(i))
          \/ \E c \in Children : ChildStep(c)
    BY PanelOrService DEF ServiceStep, JobsNext, Submit, EnqueueJob, Restore, Take, ChildKilled,
       WorkerCrash, jobVars
  <2> QED BY <2>1, <2>2, <2>3, <2>4, <2>5
<1> QED BY <1>1, JobsInvariant, PTL DEF AiSpec, NeverPendingAgain

(* Whatever fails, done is published only with the result in its place     *)
(* (tasks.py _run_suggest).                                                *)
THEOREM DoneComesWithResult == AiSpec => DoneHasResult
<1> DEFINE Step == \A j \in Jobs : status[j] # "done" /\ status'[j] = "done" => j \in result
<1>1. JobsInv /\ [AiNext]_aiVars => [Step]_aiVars
  <2> SUFFICES ASSUME JobsInv, AiNext, NEW j \in Jobs, status[j] # "done", status'[j] = "done"
               PROVE  j \in result
    BY DEF aiVars
  <2> USE JobsAssumption
      DEF JobsInv, PanelTypeOK, JobsTypeOK, MessageInv, ResultFirst, storeVars, SetStatus
  <2>1. CASE UNCHANGED status
    BY <2>1
  <2>2. ASSUME NEW i \in Jobs, StoreJob(i) PROVE j \in result
    BY <2>2 DEF StoreJob
  <2>3. ASSUME NEW i \in Jobs, Expire(i) PROVE j \in result
    BY <2>3 DEF Expire, ExpireResult, ExpireStatus
  <2>4. ASSUME NEW c \in Children, ChildStep(c) PROVE j \in result
    BY <2>4 DEF ChildStep, Start, Call, StoreResult, Finish, Fail, Ack, At
  <2>5. UNCHANGED status \/ (\E i \in Jobs : StoreJob(i) \/ Expire(i))
          \/ \E c \in Children : ChildStep(c)
    BY PanelOrService DEF ServiceStep, JobsNext, Submit, EnqueueJob, Restore, Take, ChildKilled,
       WorkerCrash, jobVars
  <2> QED BY <2>1, <2>2, <2>3, <2>4, <2>5
<1> QED BY <1>1, JobsInvariant, PTL DEF AiSpec, DoneHasResult

----------------------------------------------------------------------------
(* Jobs in hand                                                            *)

LEMMA RunToldStep ==
  ASSUME JobsInv, RunTold, ServiceStep
  PROVE  RunTold'
<1> USE JobsAssumption
    DEF JobsInv, PanelTypeOK, JobsTypeOK, MessageInv, ChildrenBusy, OneMessage, Unsubmitted,
        RunTold, apiVars, storeVars, workerVars, SetStatus, At, Goto, Held
<1>1. ASSUME NEW j \in Jobs, Submit(j) \/ StoreJob(j) PROVE RunTold'
  BY <1>1 DEF Submit, StoreJob
<1>2. ASSUME NEW j \in Jobs, EnqueueJob(j) PROVE RunTold'
  BY <1>2 DEF EnqueueJob
<1>3. ASSUME NEW j \in Jobs, Restore(j) PROVE RunTold'
  BY <1>3 DEF Restore
<1>4. ASSUME NEW j \in Jobs, Expire(j) PROVE RunTold'
  BY <1>4 DEF Expire, ExpireResult, ExpireStatus, JustTold
<1>5. ASSUME NEW j \in Jobs, NEW c \in Children, Take(c, j) PROVE RunTold'
  BY <1>5 DEF Take
<1>6. ASSUME NEW c \in Children, ChildStep(c) PROVE RunTold'
  <2>1. cjob[c] \in Jobs /\ child[c] # "idle"
    BY <1>6 DEF ChildStep, Start, Call, StoreResult, Finish, Fail, Ack
  <2>2. CASE Start(c) \/ Call(c)
    BY <2>1, <2>2 DEF Start, Call
  <2>3. CASE StoreResult(c)
    BY <2>1, <2>3 DEF StoreResult
  <2>4. CASE Finish(c) \/ Fail(c)
    BY <2>1, <2>4 DEF Finish, Fail
  <2>5. CASE Ack(c)
    BY <2>1, <2>5 DEF Ack
  <2> QED BY <1>6, <2>2, <2>3, <2>4, <2>5 DEF ChildStep
<1>7. ASSUME NEW c \in Children, ChildKilled(c) PROVE RunTold'
  BY <1>7 DEF ChildKilled
<1>8. ASSUME WorkerCrash PROVE RunTold'
  BY <1>8 DEF WorkerCrash
<1> QED
  BY <1>1, <1>2, <1>3, <1>4, <1>5, <1>6, <1>7, <1>8 DEF ServiceStep, JobsNext

LEMMA RunToldInvariant == AiSpec => []RunTold
<1>1. AiInit => RunTold
  BY DEF AiInit, JobsInit, RunTold
<1>2. JobsInv /\ RunTold /\ [AiNext]_aiVars => RunTold'
  <2> SUFFICES ASSUME JobsInv, RunTold, [AiNext]_aiVars PROVE RunTold'
    OBVIOUS
  <2>1. CASE ServiceStep
    BY <2>1, RunToldStep
  <2>2. ASSUME UNCHANGED jobVars PROVE RunTold'
    BY <2>2 DEF jobVars, apiVars, storeVars, workerVars, RunTold
  <2> QED BY <2>1, <2>2, PanelOrService DEF aiVars
<1> QED BY <1>1, <1>2, JobsInvariant, PTL DEF AiSpec

(* Whatever fails, and for any number of jobs and children, a message is   *)
(* let go of only when its task has told how it ended, unless an exception *)
(* of its first or last write has ended the task or its child was killed   *)
(* (tasks.py _run_suggest, celery_app.py task_acks_late).                  *)
THEOREM JobsAreKept == AiSpec => JobsKept
<1> DEFINE Step == \A j \in InHand \ InHand' :
             \/ status[j] \in {"done", "failed"}
             \/ \E c \in Children : cjob[c] = j /\ (At(c, "err") \/ ChildKilled(c))
<1>1. JobsInv /\ RunTold /\ [AiNext]_aiVars => [Step]_aiVars
  <2> SUFFICES ASSUME JobsInv, RunTold, AiNext, NEW j \in InHand, j \notin InHand'
               PROVE  \/ status[j] \in {"done", "failed"}
                      \/ \E c \in Children : cjob[c] = j /\ (At(c, "err") \/ ChildKilled(c))
    BY DEF aiVars
  <2> DEFINE LetGo == \/ status[j] \in {"done", "failed"}
                     \/ \E c \in Children : cjob[c] = j /\ (At(c, "err") \/ ChildKilled(c))
  <2>0. \/ \E i \in Jobs : Submit(i) \/ StoreJob(i) \/ Expire(i) \/ EnqueueJob(i) \/ Restore(i)
        \/ \E i \in Jobs, c \in Children : Take(c, i)
        \/ \E c \in Children : Start(c) \/ Call(c) \/ StoreResult(c) \/ Finish(c) \/ Fail(c)
        \/ \E c \in Children : Ack(c) \/ ChildKilled(c)
        \/ WorkerCrash
        \/ UNCHANGED workerVars
    BY PanelOrService DEF ServiceStep, JobsNext, ChildStep, jobVars
  <2> USE JobsAssumption
      DEF JobsInv, PanelTypeOK, JobsTypeOK, MessageInv, ChildrenBusy, InHand, Held,
          apiVars, storeVars, workerVars
  <2>1. ASSUME UNCHANGED workerVars PROVE FALSE
    BY <2>1
  <2>2. ASSUME NEW i \in Jobs, EnqueueJob(i) \/ Restore(i) PROVE FALSE
    BY <2>2 DEF EnqueueJob, Restore
  <2>3. ASSUME NEW i \in Jobs, NEW c \in Children, Take(c, i) PROVE FALSE
    BY <2>3 DEF Take, At
  <2>4. ASSUME NEW c \in Children, Ack(c) PROVE LetGo
    <3>1. cjob[c] = j
      BY <2>4 DEF Ack
    <3>2. child[c] = "ack" => status[j] \in {"done", "failed"}
      BY <3>1 DEF RunTold
    <3> QED BY <2>4, <3>1, <3>2 DEF Ack, At
  <2>5. ASSUME NEW c \in Children, ChildKilled(c) PROVE LetGo
    <3>1. cjob[c] = j
      BY <2>5 DEF ChildKilled
    <3> QED BY <2>5, <3>1
  <2>6. ASSUME WorkerCrash PROVE FALSE
    BY <2>6 DEF WorkerCrash
  <2>7. ASSUME NEW c \in Children,
               Start(c) \/ Call(c) \/ StoreResult(c) \/ Finish(c) \/ Fail(c)
        PROVE  FALSE
    BY <2>7 DEF Start, Call, StoreResult, Finish, Fail, Goto
  <2>8. ASSUME NEW i \in Jobs, Submit(i) \/ StoreJob(i) \/ Expire(i) PROVE FALSE
    BY <2>1, <2>8 DEF Submit, StoreJob, Expire, ExpireResult, ExpireStatus
  <2> HIDE DEF LetGo, JobsInv, PanelTypeOK, JobsTypeOK, MessageInv, ChildrenBusy, InHand, Held,
              workerVars
  <2>9. LetGo
    BY <2>0, <2>1, <2>2, <2>3, <2>4, <2>5, <2>6, <2>7, <2>8
  <2> QED BY <2>9 DEF LetGo
<1> QED BY <1>1, JobsInvariant, RunToldInvariant, PTL DEF AiSpec, JobsKept

----------------------------------------------------------------------------
(* The refinement                                                          *)

Closed == {j \in Jobs : submit[j] \in {"202", "500"}}
Waiting == queue \cup unacked
Taken == {cjob[c] : c \in {d \in Children : child[d] = "start"}}
Running == {cjob[c] : c \in {d \in Children :
                                child[d] \in {"call", "store", "finish", "fail", "ack"}}}
Over == {cjob[c] : c \in {d \in Children : child[d] = "err"}}

(* Who has a job in hand, and where it is not. *)
LEMMA InOneHand ==
  ASSUME JobsInv, NEW c \in Children, child[c] # "idle"
  PROVE  /\ cjob[c] \in Jobs
         /\ \A d \in Children : cjob[d] = cjob[c] => d = c
         /\ child[c] = "start" => cjob[c] \in Taken \ (Running \cup Over)
         /\ child[c] = "err" => cjob[c] \in Over \ (Taken \cup Running)
         /\ child[c] \notin {"start", "err"} => cjob[c] \in Running \ (Taken \cup Over)
BY DEF JobsInv, PanelTypeOK, JobsTypeOK, MessageInv, ChildrenBusy, OneMessage, Taken, Running, Over

LEMMA HeldIsInHand ==
  ASSUME JobsInv
  PROVE  Held = Taken \cup Running \cup Over
BY JobsAssumption
DEF JobsInv, PanelTypeOK, JobsTypeOK, MessageInv, ChildrenBusy, Held, Taken, Running, Over

(* A child goes on with the job it has. *)
LEMMA GoesOn ==
  ASSUME JobsInv, NEW c \in Children, child[c] \notin {"idle", "err"}, NEW pc,
         pc \in {"call", "store", "finish", "fail", "ack", "err"}, Goto(c, pc)
  PROVE  /\ Taken' = Taken \ {cjob[c]}
         /\ pc = "err" => Running' = Running \ {cjob[c]} /\ Over' = Over \cup {cjob[c]}
         /\ pc # "err" => Running' = Running \cup {cjob[c]} /\ Over' = Over
<1>1. cjob' = cjob /\ child' = [child EXCEPT ![c] = pc] /\ DOMAIN child = Children
  BY DEF Goto, JobsInv, PanelTypeOK, JobsTypeOK
<1>2. child'[c] = pc /\ \A d \in Children : d # c => child'[d] = child[d]
  BY <1>1
<1>3. \A d \in Children : cjob[d] = cjob[c] => d = c
  BY InOneHand
<1>4. Taken' = Taken \ {cjob[c]}
  BY <1>1, <1>2, <1>3 DEF Taken
<1>5. CASE pc = "err"
  <2>1. Running' = Running \ {cjob[c]}
    BY <1>1, <1>2, <1>3, <1>5 DEF Running
  <2>2. Over' = Over \cup {cjob[c]}
    BY <1>1, <1>2, <1>5 DEF Over
  <2> QED BY <1>4, <1>5, <2>1, <2>2
<1>6. CASE pc # "err"
  <2>1. child[c] \in {"start", "call", "store", "finish", "fail", "ack"}
    BY DEF JobsInv, PanelTypeOK, JobsTypeOK
  <2>2. Running' = Running \cup {cjob[c]}
    BY <1>1, <1>2, <1>6, <2>1 DEF Running
  <2>3. Over' = Over
    BY <1>1, <1>2, <1>6, <2>1 DEF Over
  <2> QED BY <1>4, <1>6, <2>2, <2>3
<1> QED BY <1>5, <1>6

(* A child is rid of its job. *)
LEMMA LetsGo ==
  ASSUME JobsInv, NEW c \in Children, child[c] # "idle",
         child' = [child EXCEPT ![c] = "idle"], cjob' = [cjob EXCEPT ![c] = NoJob]
  PROVE  /\ Taken' = Taken \ {cjob[c]}
         /\ Running' = Running \ {cjob[c]}
         /\ Over' = Over \ {cjob[c]}
<1>1. DOMAIN child = Children /\ DOMAIN cjob = Children
  BY DEF JobsInv, PanelTypeOK, JobsTypeOK
<1>2. /\ child'[c] = "idle"
      /\ \A d \in Children : d # c => child'[d] = child[d] /\ cjob'[d] = cjob[d]
  BY <1>1
<1>3. \A d \in Children : cjob[d] = cjob[c] => d = c
  BY InOneHand
<1>4. Taken' = Taken \ {cjob[c]}
  BY <1>2, <1>3 DEF Taken
<1>5. Running' = Running \ {cjob[c]}
  BY <1>2, <1>3 DEF Running
<1>6. Over' = Over \ {cjob[c]}
  BY <1>2, <1>3 DEF Over
<1> QED BY <1>4, <1>5, <1>6

(* What an idle child takes up was waiting. *)
LEMMA TakesUp ==
  ASSUME JobsInv, NEW c \in Children, NEW j \in Jobs, Take(c, j)
  PROVE  Taken' = Taken \cup {j} /\ Running' = Running /\ Over' = Over
<1>1. /\ child[c] = "idle" /\ DOMAIN child = Children /\ DOMAIN cjob = Children
      /\ child' = [child EXCEPT ![c] = "start"] /\ cjob' = [cjob EXCEPT ![c] = j]
  BY DEF Take, At, JobsInv, PanelTypeOK, JobsTypeOK
<1>2. /\ child'[c] = "start" /\ cjob'[c] = j
      /\ \A d \in Children : d # c => child'[d] = child[d] /\ cjob'[d] = cjob[d]
  BY <1>1
<1>3. Taken' = Taken \cup {j}
  BY <1>1, <1>2 DEF Taken
<1>4. Running' = Running /\ Over' = Over
  BY <1>1, <1>2 DEF Running, Over
<1> QED BY <1>3, <1>4

(* Nobody has in hand what was not handed over. *)
LEMMA HandedOver ==
  ASSUME JobsInv
  PROVE  /\ Taken \cup Running \cup Over \subseteq Closed
         /\ \A j \in Jobs : submit[j] \in {"storing", "enqueuing"} => j \notin Closed
<1>1. ASSUME NEW c \in Children, child[c] # "idle" PROVE cjob[c] \in Closed
  BY <1>1, InOneHand DEF JobsInv, PanelTypeOK, JobsTypeOK, MessageInv, Unsubmitted, Closed
<1> QED BY <1>1 DEF Taken, Running, Over, Closed

(* A step of the API is one of the submission, or moves nothing. *)
LEMMA SubmitRefines ==
  ASSUME JobsInv, NEW j \in Jobs, Submit(j) \/ StoreJob(j) \/ EnqueueJob(j)
  PROVE  Board!QueueNext \/ UNCHANGED Board!queueVars
<1> USE DEF apiVars, storeVars, workerVars
<1>0. /\ submit \in [Jobs -> {"new", "storing", "enqueuing", "202", "500"}]
      /\ j \notin Closed /\ UNCHANGED <<Taken, Running, Over, result>>
  <2>1. UNCHANGED <<child, cjob, result>>
    BY DEF Submit, StoreJob, EnqueueJob, SetStatus
  <2>2. submit \in [Jobs -> {"new", "storing", "enqueuing", "202", "500"}]
    BY DEF JobsInv, PanelTypeOK, JobsTypeOK
  <2> QED BY <2>1, <2>2 DEF Submit, StoreJob, EnqueueJob, Closed, Taken, Running, Over
<1>1. CASE Submit(j)
  <2>1. Closed' = Closed
    BY <1>0, <1>1 DEF Submit, Closed
  <2>2. UNCHANGED Board!queueVars
    BY <1>0, <1>1, <2>1 DEF Submit, Board!queueVars, Closed, Taken, Running, Over
  <2> QED BY <2>2
<1>2. ASSUME SetStatus(j, "pending"), submit' = [submit EXCEPT ![j] = "enqueuing"],
             UNCHANGED workerVars
      PROVE  Board!QueueNext
  <2>1. Closed' = Closed
    BY <1>0, <1>2 DEF Closed
  <2>2. Board!Announce(j)
    BY <1>0, <1>2, <2>1 DEF SetStatus, Board!Announce, Board!Tell, Closed, Taken, Running, Over
  <2> QED BY <2>2 DEF Board!QueueNext
<1>3. ASSUME submit' = [submit EXCEPT ![j] = "500"], SetStatus(j, "pending") \/ UNCHANGED storeVars,
             UNCHANGED workerVars
      PROVE  Board!QueueNext
  <2>1. Closed' = Closed \cup {j}
    BY <1>0, <1>3 DEF Closed
  <2>2. Board!Refuse(j)
    BY <1>0, <1>3, <2>1 DEF SetStatus, Board!Refuse, Board!Tell, Closed, Taken, Running, Over
  <2> QED BY <2>2 DEF Board!QueueNext
<1>4. ASSUME submit' = [submit EXCEPT ![j] = "202"] \/ submit' = [submit EXCEPT ![j] = "500"],
             queue' = queue \cup {j}, UNCHANGED <<storeVars, unacked, child, cjob, stale>>
      PROVE  Board!QueueNext
  <2>1. Closed' = Closed \cup {j}
    BY <1>0, <1>4 DEF Closed
  <2>2. queue' \cup unacked' = (queue \cup unacked) \cup {j}
    BY <1>4
  <2>3. Board!Offer(j)
    BY <1>0, <1>4, <2>1, <2>2 DEF Board!Offer, Closed, Taken, Running, Over
  <2> QED BY <2>3 DEF Board!QueueNext
<1>5. CASE StoreJob(j)
  BY <1>2, <1>3, <1>5 DEF StoreJob
<1>6. CASE EnqueueJob(j)
  BY <1>3, <1>4, <1>6 DEF EnqueueJob
<1> QED BY <1>1, <1>5, <1>6

(* A step of a child is one of its run. *)
LEMMA RunRefines ==
  ASSUME JobsInv, RunTold, NEW c \in Children, ChildStep(c), NEW j, j = cjob[c]
  PROVE  Board!QueueNext \/ UNCHANGED Board!queueVars
<1> USE DEF apiVars, storeVars, workerVars
<1>0. /\ child[c] # "idle" /\ j \in Jobs
      /\ child[c] = "start" => j \in Taken \ (Running \cup Over)
      /\ child[c] = "err" => j \in Over \ (Taken \cup Running)
      /\ child[c] \notin {"start", "err"} => j \in Running \ (Taken \cup Over)
  <2>1. child[c] # "idle"
    BY DEF ChildStep, Start, Call, StoreResult, Finish, Fail, Ack, At
  <2> QED BY <2>1, InOneHand
<1>1. UNCHANGED submit /\ Closed' = Closed
  BY DEF ChildStep, Start, Call, StoreResult, Finish, Fail, Ack, SetStatus, Closed
<1>w. ASSUME NEW pc, Goto(c, pc) PROVE UNCHANGED <<queue, unacked>>
  BY <1>w DEF Goto
<1>2. CASE Start(c)
  <2>1. /\ child[c] = "start"
        /\ \/ SetStatus(j, "processing") /\ Goto(c, "call")
           \/ (SetStatus(j, "processing") \/ UNCHANGED storeVars) /\ Goto(c, "err")
    BY <1>2 DEF Start, At
  <2>2. UNCHANGED <<queue, unacked, result>>
    BY <1>w, <2>1 DEF SetStatus
  <2>3. CASE SetStatus(j, "processing") /\ Goto(c, "call")
    <3>1. Taken' = Taken \ {j} /\ Running' = Running \cup {j} /\ Over' = Over
      BY <2>1, <2>3, GoesOn
    <3>2. Board!Begin(j)
      BY <1>0, <1>1, <2>1, <2>2, <2>3, <3>1
      DEF SetStatus, Board!Begin, Board!Tell, Closed, Taken, Running, Over
    <3> QED BY <1>0, <3>2 DEF Board!QueueNext
  <2>4. CASE (SetStatus(j, "processing") \/ UNCHANGED storeVars) /\ Goto(c, "err")
    <3>1. Taken' = Taken \ {j} /\ Over' = Over \cup {j} /\ Running' = Running
      BY <1>0, <2>1, <2>4, GoesOn
    <3>2. status' = [status EXCEPT ![j] = "processing"] \/ status' = status
      BY <2>4 DEF SetStatus
    <3>3. Board!Miss(j)
      BY <1>0, <1>1, <2>1, <2>2, <3>1, <3>2
      DEF Board!Miss, Board!Tell, Closed, Taken, Running, Over
    <3> QED BY <1>0, <3>3 DEF Board!QueueNext
  <2> QED BY <2>1, <2>3, <2>4
<1>g. ASSUME child[c] \notin {"idle", "start", "err"},
             Goto(c, "store") \/ Goto(c, "finish") \/ Goto(c, "fail") \/ Goto(c, "ack")
      PROVE  UNCHANGED <<Taken, Running, Over, Waiting>>
  <2>1. UNCHANGED <<Taken, Running, Over>>
    BY <1>0, <1>g, GoesOn
  <2> QED BY <1>g, <1>w, <2>1 DEF Waiting
<1>3. CASE Call(c)
  <2>1. UNCHANGED <<Taken, Running, Over, Waiting, status, result>>
    BY <1>3, <1>g DEF Call, At
  <2>2. UNCHANGED Board!queueVars
    BY <1>1, <2>1 DEF Board!queueVars, Closed, Taken, Running, Over, Waiting
  <2> QED BY <2>2
<1>4. CASE StoreResult(c)
  <2>1. /\ UNCHANGED <<Taken, Running, Over, Waiting, status>>
        /\ result' = result \cup {j} \/ result' = result
        /\ child[c] = "store"
    BY <1>4, <1>g DEF StoreResult, At
  <2>2. j \in Running /\ status[j] = "processing"
    BY <1>0, <2>1 DEF RunTold
  <2>3. CASE result' = result
    <3>1. UNCHANGED Board!queueVars
      BY <1>1, <2>1, <2>3 DEF Board!queueVars, Closed, Taken, Running, Over, Waiting
    <3> QED BY <3>1
  <2>4. CASE result' = result \cup {j}
    <3>1. Board!Record(j)
      BY <1>1, <2>1, <2>2, <2>4 DEF Board!Record, Closed, Taken, Running, Over, Waiting
    <3> QED BY <1>0, <3>1 DEF Board!QueueNext
  <2> QED BY <2>1, <2>3, <2>4
<1>5. CASE Finish(c)
  <2>1. /\ UNCHANGED <<Taken, Running, Over, Waiting, result>>
        /\ SetStatus(j, "done") \/ UNCHANGED status
        /\ child[c] = "finish"
    BY <1>5, <1>g DEF Finish, SetStatus, At
  <2>2. j \in Running /\ status[j] = "processing" /\ j \in result
    BY <1>0, <2>1 DEF RunTold, JobsInv, MessageInv, ResultFirst
  <2>3. CASE UNCHANGED status
    <3>1. UNCHANGED Board!queueVars
      BY <1>1, <2>1, <2>3 DEF Board!queueVars, Closed, Taken, Running, Over, Waiting
    <3> QED BY <3>1
  <2>4. CASE SetStatus(j, "done")
    <3>1. Board!Done(j)
      BY <1>1, <2>1, <2>2, <2>4
      DEF SetStatus, Board!Done, Board!Tell, Closed, Taken, Running, Over, Waiting
    <3> QED BY <1>0, <3>1 DEF Board!QueueNext
  <2> QED BY <2>1, <2>3, <2>4
<1>6. CASE Fail(c)
  <2>1. /\ UNCHANGED <<queue, unacked, result>>
        /\ child[c] = "fail"
        /\ \/ SetStatus(j, "failed") /\ Goto(c, "ack")
           \/ (SetStatus(j, "failed") \/ UNCHANGED storeVars) /\ Goto(c, "err")
    BY <1>6, <1>w DEF Fail, SetStatus, At
  <2>2. j \in Running \ (Taken \cup Over) /\ status[j] \in {"processing", "done"}
    BY <1>0, <2>1 DEF RunTold
  <2>3. CASE SetStatus(j, "failed") /\ Goto(c, "ack")
    <3>1. UNCHANGED <<Taken, Running, Over, Waiting>>
      BY <1>g, <2>1, <2>3
    <3>2. Board!Failed(j)
      BY <1>1, <2>1, <2>2, <2>3, <3>1
      DEF SetStatus, Board!Failed, Board!Tell, Closed, Taken, Running, Over, Waiting
    <3> QED BY <1>0, <3>2 DEF Board!QueueNext
  <2>4. CASE (SetStatus(j, "failed") \/ UNCHANGED storeVars) /\ Goto(c, "err")
    <3>1. Taken' = Taken /\ Over' = Over \cup {j} /\ Running' = Running \ {j}
      BY <2>1, <2>2, <2>4, GoesOn
    <3>2. status' = [status EXCEPT ![j] = "failed"] \/ status' = status
      BY <2>4 DEF SetStatus
    <3>3. Board!BreakOff(j)
      BY <1>1, <2>1, <2>2, <3>1, <3>2
      DEF Board!BreakOff, Board!Tell, Closed, Taken, Running, Over
    <3> QED BY <1>0, <3>3 DEF Board!QueueNext
  <2> QED BY <2>1, <2>3, <2>4
<1>7. CASE Ack(c)
  <2>1. Taken' = Taken \ {j} /\ Running' = Running \ {j} /\ Over' = Over \ {j}
    BY <1>0, <1>7, LetsGo DEF Ack
  <2>2. j \in Taken \cup Running \cup Over
    BY <1>0
  <2>3. CASE UNCHANGED unacked
    <3>1. Board!Drop(j)
      BY <1>1, <1>7, <2>1, <2>2, <2>3
      DEF Ack, Board!Drop, Board!Hands, Closed, Taken, Running, Over
    <3> QED BY <1>0, <3>1 DEF Board!QueueNext
  <2>4. CASE unacked' = unacked \cup {j}
    <3>1. queue' \cup unacked' = (queue \cup unacked) \cup {j}
      BY <1>7, <2>4 DEF Ack
    <3>2. PICK S : S = {j}
      OBVIOUS
    <3>3. Board!Redeliver(S)
      BY <1>1, <1>7, <2>1, <3>1, <3>2 DEF Ack, Board!Redeliver, Closed, Taken, Running, Over
    <3>4. S \in SUBSET (Taken \cup Running \cup Over)
      BY <2>2, <3>2
    <3> QED BY <3>3, <3>4 DEF Board!QueueNext, Board!Hands, Taken, Running, Over
  <2> QED BY <1>7, <2>3, <2>4 DEF Ack
<1> QED BY <1>2, <1>3, <1>4, <1>5, <1>6, <1>7 DEF ChildStep

(* Each step of ai-service is a step of the job queue or moves nothing. *)
LEMMA ServiceRefines ==
  ASSUME JobsInv, RunTold, ServiceStep
  PROVE  Board!QueueNext \/ UNCHANGED Board!queueVars
<1> USE DEF apiVars, storeVars, workerVars
<1> DEFINE Good == Board!QueueNext \/ UNCHANGED Board!queueVars
<1>1. ASSUME NEW j \in Jobs, Submit(j) \/ StoreJob(j) \/ EnqueueJob(j) PROVE Good
  BY <1>1, SubmitRefines
<1>2. ASSUME NEW c \in Children, ChildStep(c) PROVE Good
  <2>1. PICK j : j = cjob[c]
    OBVIOUS
  <2> QED BY <1>2, <2>1, RunRefines
<1>3. ASSUME NEW j \in Jobs, NEW c \in Children, Take(c, j) PROVE Good
  <2>1. /\ j \in queue /\ queue' \cup unacked' = (queue \cup unacked) \ {j}
        /\ UNCHANGED <<submit, status, result>>
    BY <1>3 DEF Take, JobsInv, MessageInv, OneMessage
  <2>2. Taken' = Taken \cup {j} /\ Running' = Running /\ Over' = Over
    BY <1>3, TakesUp
  <2>3. Board!TakeUp(j)
    BY <2>1, <2>2 DEF Board!TakeUp, Taken, Running, Over
  <2> QED BY <2>3 DEF Board!QueueNext
<1>4. ASSUME NEW j \in Jobs, Restore(j) PROVE Good
  <2>1. /\ queue' \cup unacked' = queue \cup unacked
        /\ UNCHANGED <<submit, status, result, child, cjob>>
    BY <1>4 DEF Restore
  <2>2. UNCHANGED Board!queueVars
    BY <2>1 DEF Board!queueVars
  <2> QED BY <2>2
<1>r. ASSUME NEW j \in Jobs, ~JustTold(j) PROVE j \notin Running
  BY <1>r DEF JustTold, Running
<1>5. ASSUME NEW j \in Jobs, ExpireResult(j) PROVE Good
  <2>1. j \in Running => status[j] # "done"
    BY <1>5, <1>r DEF ExpireResult, JustStored
  <2>2. Board!ForgetResult(j)
    BY <1>5, <2>1 DEF ExpireResult, Board!ForgetResult, Taken, Running, Over
  <2> QED BY <2>2 DEF Board!QueueNext
<1>6. ASSUME NEW j \in Jobs, ExpireStatus(j) PROVE Good
  <2>1. j \in Closed \ Running
    BY <1>6, <1>r DEF ExpireStatus, Closed
  <2>2. Board!Forget(j)
    BY <1>6, <2>1
    DEF ExpireStatus, SetStatus, Board!Forget, Board!Tell, Closed, Taken, Running, Over
  <2> QED BY <2>2 DEF Board!QueueNext
<1>7. ASSUME NEW c \in Children, ChildKilled(c) PROVE Good
  <2>1. child[c] # "idle"
    BY <1>7 DEF ChildKilled, At
  <2>2. PICK j : j = cjob[c]
    OBVIOUS
  <2>3. /\ Taken' = Taken \ {j} /\ Running' = Running \ {j} /\ Over' = Over \ {j}
        /\ j \in Taken \cup Running \cup Over /\ j \in Jobs
    BY <1>7, <2>1, <2>2, LetsGo, InOneHand DEF ChildKilled
  <2>4. Board!Drop(j)
    BY <1>7, <2>3 DEF ChildKilled, Board!Drop, Board!Hands, Taken, Running, Over
  <2> QED BY <2>3, <2>4 DEF Board!QueueNext
<1>8. ASSUME WorkerCrash PROVE Good
  <2>0. PICK S : S = Taken \cup Running \cup Over
    OBVIOUS
  <2>1. /\ S # {} /\ queue' \cup unacked' = (queue \cup unacked) \cup S
        /\ UNCHANGED <<submit, status, result>>
    BY <1>8, <2>0, HeldIsInHand DEF WorkerCrash
  <2>2. Taken' = {} /\ Running' = {} /\ Over' = {}
    BY <1>8 DEF WorkerCrash, Taken, Running, Over
  <2>3. Taken \ S = {} /\ Running \ S = {} /\ Over \ S = {}
    BY <2>0
  <2>4. Board!Redeliver(S)
    BY <2>1, <2>2, <2>3 DEF Board!Redeliver, Taken, Running, Over
  <2>5. S \in SUBSET (Taken \cup Running \cup Over)
    BY <2>0
  <2> QED BY <2>4, <2>5 DEF Board!QueueNext, Board!Hands, Taken, Running, Over
<1> QED
  BY <1>1, <1>2, <1>3, <1>4, <1>5, <1>6, <1>7, <1>8 DEF ServiceStep, JobsNext, Expire

(* ai-service implements the job queue, for any number of jobs and         *)
(* children and whatever fails (ai.py suggest_endpoint, tasks.py           *)
(* _run_suggest).                                                          *)
THEOREM ServiceIsJobQueue == AiSpec => IsJobQueue
<1>1. AiInit => Board!QueueInit
  BY DEF AiInit, JobsInit, Board!QueueInit
<1>2. JobsInv /\ RunTold /\ [AiNext]_aiVars => [Board!QueueNext]_(Board!queueVars)
  <2> SUFFICES ASSUME JobsInv, RunTold, [AiNext]_aiVars
               PROVE  [Board!QueueNext]_(Board!queueVars)
    OBVIOUS
  <2>1. CASE ServiceStep
    BY <2>1, ServiceRefines
  <2>2. ASSUME UNCHANGED jobVars PROVE UNCHANGED Board!queueVars
    BY <2>2 DEF jobVars, apiVars, storeVars, workerVars, Board!queueVars
  <2> QED BY <2>1, <2>2, PanelOrService DEF aiVars
<1> QED
  BY <1>1, <1>2, JobsInvariant, RunToldInvariant, PTL DEF AiSpec, IsJobQueue, Board!QueueSpec

----------------------------------------------------------------------------
(* The panel when its polls do not overlap                                 *)

OnePollAtATime == \A p, q \in Polls : p = q

(* Whatever is under way is about the job of the last Run, and nothing is  *)
(* under way while Run is enabled.                                         *)
PanelOwnsAll ==
  /\ ~loading => asked = {} /\ interval = NoJob /\ \A p \in Polls : poll[p] = NoPoll
  /\ \A i, j \in asked : i = j
  /\ asked # {} => /\ jobId = NoJob /\ interval = NoJob /\ shown = NoJob
                  /\ \A p \in Polls : poll[p] = NoPoll
  /\ interval # NoJob => interval = jobId
  /\ \A p \in Polls : poll[p] # NoPoll => poll[p].job = jobId
  /\ ShowsOwnJob

LEMMA PanelOwnsAllStep ==
  ASSUME OnePollAtATime, JobsInv, PanelOwnsAll, AiNext
  PROVE  PanelOwnsAll'
<1> USE JobsAssumption, PanelAssumption
    DEF JobsInv, PanelTypeOK, OnePollAtATime, PanelOwnsAll, ShowsOwnJob
<1>1. ASSUME NEW j \in Jobs, Run(j) PROVE PanelOwnsAll'
  BY <1>1 DEF Run
<1>2. ASSUME NEW j \in Jobs, Submitted(j) PROVE PanelOwnsAll'
  BY <1>2 DEF Submitted
<1>3. ASSUME NEW p \in Polls, Tick(p) PROVE PanelOwnsAll'
  BY <1>3 DEF Tick, NoPoll
<1>4. ASSUME NEW p \in Polls, Read(p) PROVE PanelOwnsAll'
  <2>1. poll[p] # NoPoll /\ poll[p] \in [job : Jobs, at : {"status", "result"} \cup Answers]
    BY <1>4 DEF Read, NoPoll
  <2>2. \E a : poll' = [poll EXCEPT ![p].at = a]
    BY <1>4 DEF Read
  <2>3. poll'[p].job = poll[p].job /\ \A q \in Polls : q # p => poll'[q] = poll[q]
    BY <2>1, <2>2
  <2> QED BY <1>4, <2>1, <2>3 DEF Read
<1>5. ASSUME NEW p \in Polls, Answered(p) PROVE PanelOwnsAll'
  <2>1. poll[p] # NoPoll /\ poll[p].job \in Jobs
    BY <1>5 DEF Answered, NoPoll, Answers
  <2>2. \A q \in Polls : poll'[q] = NoPoll
    BY <1>5 DEF Answered
  <2>3. \/ StopPolling /\ shown' = poll[p].job
        \/ StopPolling /\ UNCHANGED shown
        \/ UNCHANGED <<interval, loading, shown>>
    BY <1>5 DEF Answered
  <2>4. UNCHANGED <<asked, jobId>> /\ asked = {} /\ loading
    BY <1>5, <2>1 DEF Answered
  <2> QED BY <2>1, <2>2, <2>3, <2>4 DEF StopPolling
<1>6. ASSUME UNCHANGED panelVars PROVE PanelOwnsAll'
  BY <1>6 DEF panelVars
<1> QED BY <1>1, <1>2, <1>3, <1>4, <1>5, <1>6 DEF AiNext

(* The panel shows the job of its last Run whenever each poll is answered  *)
(* before the next tick, whatever fails: what puts another job on display  *)
(* is the overlap of polls and nothing else (AiPanel.tsx startPoll).       *)
THEOREM ShowsOwnJobUnlessPollsOverlap ==
  ASSUME OnePollAtATime
  PROVE  AiSpec => []ShowsOwnJob
<1>1. AiInit => PanelOwnsAll
  BY JobsAssumption DEF AiInit, PanelOwnsAll, ShowsOwnJob
<1>2. JobsInv /\ PanelOwnsAll /\ [AiNext]_aiVars => PanelOwnsAll'
  <2> SUFFICES ASSUME JobsInv, PanelOwnsAll, [AiNext]_aiVars PROVE PanelOwnsAll'
    OBVIOUS
  <2>1. CASE UNCHANGED aiVars
    BY <2>1 DEF aiVars, panelVars, PanelOwnsAll, ShowsOwnJob
  <2> QED BY <2>1, PanelOwnsAllStep
<1>3. PanelOwnsAll => ShowsOwnJob
  BY DEF PanelOwnsAll
<1> QED BY <1>1, <1>2, <1>3, JobsInvariant, PTL DEF AiSpec

----------------------------------------------------------------------------
(* Why Run comes back                                                      *)

(* While Run is disabled somebody is about to enable it: a POST is to be   *)
(* answered or an interval ticks; else the error is on the screen.         *)
SomebodyUnlocks == loading => asked # {} \/ interval # NoJob \/ shown = Error

(* However polls overlap and whatever fails, the panel is never left       *)
(* disabled with nothing under way: the safety half of RunComesBack        *)
(* (AiPanel.tsx run, startPoll).                                           *)
THEOREM RunIsNeverStuck == AiSpec => []SomebodyUnlocks
<1>1. AiInit => SomebodyUnlocks
  BY DEF AiInit, SomebodyUnlocks
<1>2. JobsInv /\ SomebodyUnlocks /\ [AiNext]_aiVars => SomebodyUnlocks'
  <2> SUFFICES ASSUME JobsInv, SomebodyUnlocks, [AiNext]_aiVars PROVE SomebodyUnlocks'
    OBVIOUS
  <2> USE JobsAssumption DEF SomebodyUnlocks
  <2>1. ASSUME NEW j \in Jobs, Run(j) \/ Submitted(j) PROVE SomebodyUnlocks'
    BY <2>1 DEF Run, Submitted
  <2>2. ASSUME NEW p \in Polls, Answered(p) PROVE SomebodyUnlocks'
    <3>1. StopPolling \/ UNCHANGED <<interval, loading, shown>>
      BY <2>2 DEF Answered
    <3>2. UNCHANGED asked
      BY <2>2 DEF Answered
    <3> QED BY <3>1, <3>2 DEF StopPolling
  <2>3. ASSUME UNCHANGED <<loading, asked, interval, shown>> PROVE SomebodyUnlocks'
    BY <2>3
  <2> QED BY <2>1, <2>2, <2>3 DEF AiNext, Tick, Read, aiVars, panelVars
<1> QED BY <1>1, <1>2, JobsInvariant, PTL DEF AiSpec
=============================================================================
