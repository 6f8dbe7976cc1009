---------------------------- MODULE SagaBenchmark ----------------------------
(***************************************************************************)
(* The program of experiments/saga-benchmark, run against the stack: it    *)
(* registers users, fills their lists, deletes their accounts and polls    *)
(* list-service until the lists are gone.  The "availability" experiment   *)
(* then deletes a second group of users while list-service is stopped,     *)
(* starts it, waits for their lists to go and counts what is left.         *)
(*                                                                         *)
(* The stack is what deleting an account promises, no more.  "saga" is the *)
(* experiment without a second group.  Times are not modelled, nor items,  *)
(* which the program creates and never looks at.                           *)
(***************************************************************************)
EXTENDS DeletionPromise, FiniteSets, Faults

CONSTANTS
  Base,         \* the users of the first group
  Degraded,     \* those of the second
  NumSections,  \* sections per user
  Concurrency   \* the capacity of sem

VARIABLES
  phase,    \* create, measure, setup, delete, drain, audit; done, aborted
  job,      \* what the goroutine of a user is about to do in this phase
  made,     \* sections it has asked for
  tokens,   \* users whose registration succeeded
  verdict,  \* what is recorded of a user
  orphans,  \* users the audit counts
  listUp    \* the container of list-service runs

progVars == <<phase, job, made, tokens, verdict, orphans>>
benchVars == <<promiseVars, progVars, listUp, faults>>

Phases == {"create", "measure", "setup", "delete", "drain", "audit", "done", "aborted"}
Busy == {"register", "fill", "delete", "poll"}

BenchTypeOK ==
  /\ account \in [UserIds -> {"unused", "live", "deleted"}]
  /\ visible \in [UserIds -> SUBSET SectionIds]
  /\ phase \in Phases
  /\ job \in [UserIds -> {"waiting", "over"} \cup Busy]
  /\ made \in [UserIds -> 0..NumSections]
  /\ tokens \subseteq UserIds
  /\ verdict \in [UserIds -> {"none", "failed", "deleted", "cleaned", "timeout"}]
  /\ orphans \subseteq UserIds
  /\ listUp \in BOOLEAN

BenchInit ==
  /\ FaultsInit
  /\ PromiseInit
  /\ phase = "create"
  /\ job = [u \in UserIds |-> "waiting"]
  /\ made = [u \in UserIds |-> 0]
  /\ tokens = {} /\ orphans = {}
  /\ verdict = [u \in UserIds |-> "none"]
  /\ listUp = TRUE

----------------------------------------------------------------------------
(* getSections                                                             *)

(* list-service answers an object with the field "sections". *)
Body(u) == [kind |-> "object", sections |-> visible[u]]

(* json.Decode into a []any: of anything but an array it returns an error, *)
(* which nobody looks at, and leaves the slice as it was, nil.             *)
DecodeSlice(body) == IF body.kind = "array" THEN body.sections ELSE {}

Empty(u) == listUp /\ DecodeSlice(Body(u)) = {} /\ NoFault
Sections(u) == listUp /\ DecodeSlice(Body(u)) # {} /\ NoFault
Failing == IF listUp THEN Fault("net") ELSE NoFault

----------------------------------------------------------------------------
(* The goroutines of a phase                                               *)

(* The users a phase goes through. *)
Crew ==
  CASE phase = "create"  -> Base
    [] phase = "measure" -> Base \cap tokens
    [] phase = "setup"   -> Degraded
    [] phase = "delete"  -> Degraded \cap tokens
    [] phase = "drain"   -> {u \in Degraded : verdict[u] = "deleted"}
    [] phase = "audit"   -> tokens
    [] OTHER             -> {}

Active == {u \in UserIds : job[u] \in Busy}

Goto(u, j) == job' = [job EXCEPT ![u] = j]
Record(u, v) == verdict' = [verdict EXCEPT ![u] = v]

(* sem <- struct{}{}; go func ... *)
Spawn(u) ==
  /\ phase \in {"create", "measure", "setup", "delete"}
  /\ u \in Crew
  /\ job[u] = "waiting"
  /\ Cardinality(Active) < Concurrency
  /\ Goto(u, IF phase \in {"create", "setup"} THEN "register" ELSE "delete")
  /\ NoFault
  /\ UNCHANGED <<phase, made, tokens, verdict, orphans, listUp, promiseVars>>

(* An error may be the answer to a registration that was carried out. *)
Register(u) ==
  /\ job[u] = "register"
  /\ \/ Open(u) /\ tokens' = tokens \cup {u} /\ Goto(u, "fill") /\ NoFault
     \/ /\ Fault("net")
        /\ Open(u) \/ UNCHANGED promiseVars
        /\ Goto(u, "over")
        /\ UNCHANGED tokens
  /\ UNCHANGED <<phase, made, verdict, orphans, listUp>>

(* A section that could not be created is skipped; an error may be the     *)
(* answer to one that was.                                                 *)
Fill(u) ==
  /\ job[u] = "fill"
  /\ made[u] < NumSections
  /\ made' = [made EXCEPT ![u] = @ + 1]
  /\ \/ listUp /\ (NoFault \/ Fault("net")) /\ \E s \in SectionIds : Add(u, s)
     \/ Failing /\ UNCHANGED promiseVars
  /\ UNCHANGED <<phase, job, tokens, verdict, orphans, listUp>>

Filled(u) ==
  /\ job[u] = "fill"
  /\ made[u] = NumSections
  /\ Goto(u, "over")
  /\ NoFault
  /\ UNCHANGED <<phase, made, tokens, verdict, orphans, listUp, promiseVars>>

(* An error may be the answer to a deletion that was carried out. *)
DeleteAccount(u, err) ==
  IF err
  THEN Fault("net") /\ (Close(u) \/ UNCHANGED promiseVars)
  ELSE NoFault /\ Close(u)

(* The group of the "delete" phase is polled later. *)
Delete(u) ==
  /\ job[u] = "delete"
  /\ \/ /\ DeleteAccount(u, FALSE)
        /\ Record(u, "deleted")
        /\ Goto(u, IF phase = "measure" THEN "poll" ELSE "over")
     \/ /\ DeleteAccount(u, TRUE)
        /\ Record(u, "failed")
        /\ Goto(u, "over")
  /\ UNCHANGED <<phase, made, tokens, orphans, listUp>>

(* An empty list ends the wait, and so does any error; the last of the     *)
(* polls that see sections ends it too.                                    *)
Poll(u) ==
  /\ job[u] = "poll"
  /\ \/ (Empty(u) \/ Failing) /\ Record(u, "cleaned")
     \/ Sections(u) /\ Record(u, "timeout")
  /\ Goto(u, "over")
  /\ UNCHANGED <<phase, made, tokens, orphans, listUp, promiseVars>>

(* One goroutine goes round the users that are left. *)
Drain(u) ==
  /\ phase = "drain"
  /\ u \in Crew
  /\ Empty(u) \/ Failing
  /\ Record(u, "cleaned")
  /\ UNCHANGED <<phase, job, made, tokens, orphans, listUp, promiseVars>>

(* countOrphans, of every user that was registered. *)
Audit(u) ==
  /\ phase = "audit"
  /\ u \in Crew
  /\ job[u] = "waiting"
  /\ \/ Sections(u) /\ orphans' = orphans \cup {u}
     \/ (Empty(u) \/ Failing) /\ UNCHANGED orphans
  /\ Goto(u, "over")
  /\ UNCHANGED <<phase, made, tokens, verdict, listUp, promiseVars>>

----------------------------------------------------------------------------
(* From phase to phase                                                     *)

(* A goroutine that has not returned would go on in the new phase. *)
Begin(ph) ==
  /\ phase' = ph
  /\ job' = [u \in UserIds |-> IF job[u] = "over" THEN "waiting" ELSE job[u]]
  /\ UNCHANGED <<made, tokens, verdict, orphans, promiseVars>>

(* wg.Wait() *)
AllOver == \A u \in Crew : job[u] = "over"

Created ==
  /\ phase = "create" /\ AllOver
  /\ Begin(IF Base \cap tokens = {} THEN "aborted" ELSE "measure")
  /\ NoFault
  /\ UNCHANGED listUp

Measured ==
  /\ phase = "measure" /\ AllOver
  /\ Begin(IF Degraded = {} THEN "done" ELSE "setup")
  /\ NoFault
  /\ UNCHANGED listUp

(* docker compose stop returns when the container has stopped. *)
StopList ==
  /\ phase = "setup" /\ AllOver
  /\ \/ /\ Degraded \cap tokens # {}
        /\ Begin("delete")
        /\ listUp' = FALSE
        /\ NoFault
     \/ /\ IF Degraded \cap tokens = {} THEN NoFault ELSE Fault("docker")
        /\ Begin("aborted")
        /\ UNCHANGED listUp

(* A container that does not start, or does not get healthy, ends the      *)
(* experiment as it stands.                                                *)
StartList ==
  /\ phase = "delete" /\ AllOver
  /\ \/ Begin("drain") /\ listUp' = TRUE /\ NoFault
     \/ Begin("aborted") /\ listUp' \in BOOLEAN /\ Fault("docker")

(* Everybody's lists are gone, or recoveryWait is over. *)
Drained == phase = "drain" /\ Begin("audit") /\ NoFault /\ UNCHANGED listUp

Audited == phase = "audit" /\ AllOver /\ Begin("done") /\ NoFault /\ UNCHANGED listUp

(* The stack keeps its promise while list-service runs. *)
CleansUp(u) == listUp /\ Purge(u) /\ NoFault /\ UNCHANGED <<progVars, listUp>>

----------------------------------------------------------------------------

BenchNext ==
  \/ \E u \in UserIds :
       \/ Spawn(u) \/ Register(u) \/ Fill(u) \/ Filled(u) \/ Delete(u) \/ Poll(u)
       \/ Drain(u) \/ Audit(u) \/ CleansUp(u)
  \/ Created \/ Measured \/ StopList \/ StartList \/ Drained \/ Audited

BenchSpec == BenchInit /\ [][BenchNext]_benchVars

----------------------------------------------------------------------------
(* Properties                                                              *)

(* "Time from 204 response until list-service returns empty sections":     *)
(* whoever is recorded as cleaned has no sections left (main.go            *)
(* measureDeletion, availability.go runBaselinePhase and the drain loop).  *)
CleanedMeansGone ==
  \A u \in UserIds : verdict[u] = "cleaned" => visible[u] = {}

(* Nobody is recorded as deleted who was not, whichever answers were lost  *)
(* (main.go deleteAccount).                                                *)
RecordedMeansDeleted ==
  \A u \in UserIds :
    verdict[u] \in {"deleted", "cleaned", "timeout"} => account[u] = "deleted"

(* wg.Wait keeps the phases apart: the first group is measured with        *)
(* list-service up, the second is deleted with list-service down, and what *)
(* is polled and audited afterwards is polled with list-service up.        *)
PhasesApart ==
  /\ phase # "aborted" => (listUp <=> phase # "delete")
  /\ \A u \in Active : u \in IF phase \in {"create", "measure"} THEN Base ELSE Degraded
  /\ \A u \in Active : phase \in {"create", "measure", "setup", "delete"}
  /\ \A u \in Active : job[u] \in {"register", "fill"} <=> phase \in {"create", "setup"}

(* The semaphore: no more goroutines work at a time than -concurrency      *)
(* says, in every phase.                                                   *)
PoolBounded == Cardinality(Active) <= Concurrency

(* What the audit and the timeouts would have reported, they never report, *)
(* whatever is left in list_db (main.go getSections).                      *)
NeverSeesSections ==
  orphans = {} /\ \A u \in UserIds : verdict[u] # "timeout"
=============================================================================
