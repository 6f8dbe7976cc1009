------------------------- MODULE SagaBenchmarkProofs -------------------------
(***************************************************************************)
(* The benchmark, for any users, groups and pool: its phases do not mix,   *)
(* its pool is bounded, what it records of deletions is true, and what it  *)
(* would record of lists that stay it never records.                       *)
(***************************************************************************)
EXTENDS SagaBenchmark, FiniteSetTheorems, TLAPS

(* The flags of the program, and two groups of its users. *)
Flags ==
  /\ IsFiniteSet(UserIds)
  /\ Base \subseteq UserIds /\ Degraded \subseteq UserIds
  /\ NumSections \in Nat
  /\ Concurrency \in Nat

(* Only the list of a deleted user is waited for. *)
PollsDeleted == \A u \in UserIds : job[u] = "poll" => account[u] = "deleted"

(* Whoever works is one of those that wg.Wait waits for. *)
ActiveInCrew == Active \subseteq Crew

BenchInv == BenchTypeOK /\ PhasesApart /\ ActiveInCrew /\ PollsDeleted /\ RecordedMeansDeleted

----------------------------------------------------------------------------

LEMMA BenchInitially == Flags /\ BenchInit => BenchInv /\ PoolBounded /\ NeverSeesSections
<1> SUFFICES ASSUME Flags, BenchInit
             PROVE  BenchInv /\ PoolBounded /\ NeverSeesSections
    OBVIOUS
<1> USE DEF Flags, BenchInit, PromiseInit
<1>1. BenchTypeOK
    BY DEF BenchTypeOK, Phases
<1>2. Active = {}
    BY DEF Active, Busy
<1>3. PhasesApart /\ ActiveInCrew /\ PollsDeleted /\ RecordedMeansDeleted /\ NeverSeesSections
    BY <1>2 DEF PhasesApart, ActiveInCrew, PollsDeleted, RecordedMeansDeleted, NeverSeesSections
<1>4. PoolBounded
    BY <1>2, FS_EmptySet DEF PoolBounded
<1> QED BY <1>1, <1>3, <1>4 DEF BenchInv

(* The promise's steps leave a deleted account deleted. *)
AccountStep(u) ==
  \/ Open(u) \/ Close(u) \/ Purge(u) \/ UNCHANGED promiseVars
  \/ \E s \in SectionIds : Add(u, s)

LEMMA AccountsStayDeleted ==
  ASSUME BenchTypeOK, NEW u \in UserIds, AccountStep(u)
  PROVE  /\ account' \in [UserIds -> {"unused", "live", "deleted"}]
         /\ visible' \in [UserIds -> SUBSET SectionIds]
         /\ \A v \in UserIds : account[v] = "deleted" => account'[v] = "deleted"
  BY DEF AccountStep, BenchTypeOK, Open, Close, Add, Purge, promiseVars

PhaseEnds == Created \/ Measured \/ StopList \/ StartList \/ Drained \/ Audited

(* wg.Wait leaves nobody at work; the drain loop starts nobody. *)
LEMMA NobodyWorks ==
  ASSUME BenchTypeOK, PhasesApart, ActiveInCrew, PhaseEnds
  PROVE  Active = {}
<1>1. AllOver \/ phase = "drain"
    BY DEF PhaseEnds, Created, Measured, StopList, StartList, Drained, Audited
<1>2. CASE AllOver
    BY <1>2 DEF AllOver, ActiveInCrew, Active, Busy
<1>3. CASE phase = "drain"
    BY <1>3 DEF PhasesApart
<1> QED BY <1>1, <1>2, <1>3

(* So no goroutine outlives its phase. *)
LEMMA FreshPhase ==
  ASSUME BenchTypeOK, Active = {}, NEW ph \in Phases, Begin(ph)
  PROVE  /\ job' \in [UserIds -> {"waiting", "over"} \cup Busy]
         /\ Active' = {}
         /\ \A u \in UserIds : job'[u] = "waiting"
         /\ phase' = ph
         /\ UNCHANGED <<made, tokens, verdict, orphans, account, visible>>
<1>1. \A u \in UserIds : job[u] \in {"waiting", "over"}
    BY DEF BenchTypeOK, Active
<1> QED BY <1>1 DEF Begin, Active, Busy, promiseVars

(* Nobody falls out of the crew before the phase ends. *)
LEMMA StaysInCrew ==
  ASSUME PhasesApart, ActiveInCrew, phase' = phase, tokens \subseteq tokens', Active' \subseteq Active
  PROVE  ActiveInCrew'
<1>1. CASE Active' = {}
    BY <1>1 DEF ActiveInCrew
<1>2. CASE phase \in {"create", "measure", "setup", "delete"}
  <2>1. Crew \subseteq Crew'
      <3>1. CASE phase = "create"  BY <3>1 DEF Crew
      <3>2. CASE phase = "measure" BY <3>2 DEF Crew
      <3>3. CASE phase = "setup"   BY <3>3 DEF Crew
      <3>4. CASE phase = "delete"  BY <3>4 DEF Crew
      <3> QED BY <1>2, <3>1, <3>2, <3>3, <3>4
  <2> QED BY <2>1 DEF ActiveInCrew
<1> QED BY <1>1, <1>2 DEF PhasesApart

LEMMA BenchStep ==
  ASSUME Flags, BenchInv, [BenchNext]_benchVars
  PROVE  BenchInv'
<1> USE DEF BenchInv
<1>1. ASSUME NEW u \in UserIds, Spawn(u)
      PROVE  BenchInv'
  <2>1. BenchTypeOK'
      BY <1>1 DEF Spawn, Goto, BenchTypeOK, Phases, Busy, promiseVars
  <2>2. PhasesApart'
      BY <1>1 DEF Spawn, Goto, Crew, BenchTypeOK, Phases, Busy, PhasesApart, Active, promiseVars
  <2>3. PollsDeleted' /\ RecordedMeansDeleted'
      BY <1>1 DEF Spawn, Goto, BenchTypeOK, PollsDeleted, RecordedMeansDeleted, promiseVars
  <2>4. ActiveInCrew'
    <3>1. Crew' = Crew
        BY <1>1 DEF Spawn, Crew
    <3>2. Active' \subseteq Active \cup {u}
        BY <1>1 DEF Spawn, Goto, BenchTypeOK, Active
    <3> QED BY <1>1, <3>1, <3>2 DEF Spawn, ActiveInCrew
  <2> QED BY <2>1, <2>2, <2>3, <2>4
<1>2. ASSUME NEW u \in UserIds, Register(u)
      PROVE  BenchInv'
  <2>1. AccountStep(u)
      BY <1>2 DEF Register, AccountStep
  <2>2. BenchTypeOK'
      BY <1>2, <2>1, AccountsStayDeleted DEF Register, Goto, BenchTypeOK, Phases, Busy
  <2>3. PhasesApart'
      BY <1>2 DEF Register, Goto, BenchTypeOK, Phases, Busy, PhasesApart, Active
  <2>4. PollsDeleted' /\ RecordedMeansDeleted'
      BY <1>2, <2>1, AccountsStayDeleted
      DEF Register, Goto, BenchTypeOK, Busy, PollsDeleted, RecordedMeansDeleted
  <2>9. ActiveInCrew'
    <3>1. phase' = phase /\ tokens \subseteq tokens' /\ Active' \subseteq Active
        BY <1>2 DEF Register, Goto, BenchTypeOK, Active, Busy
    <3> QED BY <3>1, StaysInCrew
  <2> QED BY <2>2, <2>3, <2>4, <2>9
<1>3. ASSUME NEW u \in UserIds, Fill(u)
      PROVE  BenchInv'
  <2>1. AccountStep(u)
      BY <1>3 DEF Fill, AccountStep
  <2>2. BenchTypeOK'
      BY <1>3, <2>1, AccountsStayDeleted DEF Fill, Flags, BenchTypeOK, Phases, Busy
  <2>3. PhasesApart'
      BY <1>3 DEF Fill, PhasesApart, Active
  <2>4. PollsDeleted' /\ RecordedMeansDeleted'
      BY <1>3, <2>1, AccountsStayDeleted DEF Fill, PollsDeleted, RecordedMeansDeleted
  <2>9. ActiveInCrew'
    <3>1. phase' = phase /\ tokens \subseteq tokens' /\ Active' \subseteq Active
        BY <1>3 DEF Fill, Active
    <3> QED BY <3>1, StaysInCrew
  <2> QED BY <2>2, <2>3, <2>4, <2>9
<1>4. ASSUME NEW u \in UserIds, Filled(u)
      PROVE  BenchInv'
  <2>1. BenchTypeOK' /\ PhasesApart' /\ PollsDeleted' /\ RecordedMeansDeleted'
      BY <1>4 DEF Filled, Goto, BenchTypeOK, Phases, Busy, PhasesApart, Active, PollsDeleted,
                  RecordedMeansDeleted, promiseVars
  <2>9. ActiveInCrew'
    <3>1. phase' = phase /\ tokens \subseteq tokens' /\ Active' \subseteq Active
        BY <1>4 DEF Filled, Goto, BenchTypeOK, Active, Busy
    <3> QED BY <3>1, StaysInCrew
  <2> QED BY <2>1, <2>9
<1>5. ASSUME NEW u \in UserIds, Delete(u)
      PROVE  BenchInv'
  <2>1. AccountStep(u)
      BY <1>5 DEF Delete, DeleteAccount, AccountStep
  <2>2. BenchTypeOK'
      BY <1>5, <2>1, AccountsStayDeleted
      DEF Delete, DeleteAccount, Goto, Record, BenchTypeOK, Phases, Busy
  <2>3. PhasesApart'
      BY <1>5 DEF Delete, Goto, BenchTypeOK, Phases, Busy, PhasesApart, Active
  <2>4. verdict'[u] = "deleted" \/ job'[u] = "poll" => account'[u] = "deleted"
      BY <1>5 DEF Delete, DeleteAccount, Close, Goto, Record, BenchTypeOK
  <2>5. PollsDeleted' /\ RecordedMeansDeleted'
      BY <1>5, <2>1, <2>4, AccountsStayDeleted
      DEF Delete, DeleteAccount, Goto, Record, BenchTypeOK, PollsDeleted, RecordedMeansDeleted
  <2>9. ActiveInCrew'
    <3>1. phase' = phase /\ tokens \subseteq tokens' /\ Active' \subseteq Active
        BY <1>5 DEF Delete, Goto, BenchTypeOK, Active, Busy
    <3> QED BY <3>1, StaysInCrew
  <2> QED BY <2>2, <2>3, <2>5, <2>9
<1>6. ASSUME NEW u \in UserIds, Poll(u)
      PROVE  BenchInv'
  <2>1. BenchTypeOK'
      BY <1>6 DEF Poll, Goto, Record, BenchTypeOK, Phases, Busy, promiseVars
  <2>2. PhasesApart'
      BY <1>6 DEF Poll, Goto, BenchTypeOK, Phases, Busy, PhasesApart, Active
  <2>3. PollsDeleted' /\ RecordedMeansDeleted'
      BY <1>6 DEF Poll, Goto, Record, BenchTypeOK, PollsDeleted, RecordedMeansDeleted, promiseVars
  <2>9. ActiveInCrew'
    <3>1. phase' = phase /\ tokens \subseteq tokens' /\ Active' \subseteq Active
        BY <1>6 DEF Poll, Goto, BenchTypeOK, Active, Busy
    <3> QED BY <3>1, StaysInCrew
  <2> QED BY <2>1, <2>2, <2>3, <2>9
<1>7. ASSUME NEW u \in UserIds, Drain(u)
      PROVE  BenchInv'
  <2>1. BenchTypeOK' /\ PhasesApart'
      BY <1>7 DEF Drain, Record, BenchTypeOK, Phases, PhasesApart, Active, promiseVars
  <2>2. account[u] = "deleted"
      BY <1>7 DEF Drain, Crew, RecordedMeansDeleted
  <2>3. PollsDeleted' /\ RecordedMeansDeleted'
      BY <1>7, <2>2
      DEF Drain, Record, BenchTypeOK, PollsDeleted, RecordedMeansDeleted, promiseVars
  <2>9. ActiveInCrew'
    <3>1. phase' = phase /\ tokens \subseteq tokens' /\ Active' \subseteq Active
        BY <1>7 DEF Drain, Active
    <3> QED BY <3>1, StaysInCrew
  <2> QED BY <2>1, <2>3, <2>9
<1>8. ASSUME NEW u \in UserIds, Audit(u)
      PROVE  BenchInv'
  <2>1. BenchTypeOK'
      BY <1>8 DEF Audit, Goto, BenchTypeOK, Phases, Busy, promiseVars
  <2>2. PhasesApart'
      BY <1>8 DEF Audit, Goto, BenchTypeOK, Phases, Busy, PhasesApart, Active
  <2>3. PollsDeleted' /\ RecordedMeansDeleted'
      BY <1>8 DEF Audit, Goto, BenchTypeOK, PollsDeleted, RecordedMeansDeleted, promiseVars
  <2>9. ActiveInCrew'
    <3>1. phase' = phase /\ tokens \subseteq tokens' /\ Active' \subseteq Active
        BY <1>8 DEF Audit, Goto, BenchTypeOK, Active, Busy
    <3> QED BY <3>1, StaysInCrew
  <2> QED BY <2>1, <2>2, <2>3, <2>9
<1>9. ASSUME NEW u \in UserIds, CleansUp(u)
      PROVE  BenchInv'
  <2>1. AccountStep(u)
      BY <1>9 DEF CleansUp, AccountStep
  <2>2. BenchTypeOK' /\ PhasesApart' /\ PollsDeleted' /\ RecordedMeansDeleted'
      BY <1>9, <2>1, AccountsStayDeleted
      DEF CleansUp, progVars, BenchTypeOK, Phases, PhasesApart, Active, PollsDeleted,
          RecordedMeansDeleted
  <2>9. ActiveInCrew'
    <3>1. phase' = phase /\ tokens \subseteq tokens' /\ Active' \subseteq Active
        BY <1>9 DEF CleansUp, progVars, Active
    <3> QED BY <3>1, StaysInCrew
  <2> QED BY <2>2, <2>9
<1>10. CASE PhaseEnds
  <2>0. Active = {}
      BY <1>10, NobodyWorks
  <2>1. PICK ph \in Phases : Begin(ph)
      BY <1>10 DEF PhaseEnds, Created, Measured, StopList, StartList, Drained, Audited, Phases
  <2>2. listUp' \in BOOLEAN /\ (phase' # "aborted" => (listUp' <=> phase' # "delete"))
      BY <1>10, <2>0, <2>1, FreshPhase
      DEF PhaseEnds, Created, Measured, StopList, StartList, Drained, Audited, BenchTypeOK, PhasesApart,
          Begin
  <2>3. BenchTypeOK' /\ PhasesApart' /\ ActiveInCrew'
      BY <2>0, <2>1, <2>2, FreshPhase DEF BenchTypeOK, PhasesApart, ActiveInCrew
  <2>4. PollsDeleted' /\ RecordedMeansDeleted'
      BY <2>0, <2>1, FreshPhase DEF PollsDeleted, RecordedMeansDeleted
  <2> QED BY <2>3, <2>4
<1>11. CASE UNCHANGED benchVars
  <2>1. BenchTypeOK' /\ PhasesApart' /\ PollsDeleted' /\ RecordedMeansDeleted'
      BY <1>11 DEF benchVars, progVars, promiseVars, BenchTypeOK, Phases, PhasesApart, Active,
                   PollsDeleted, RecordedMeansDeleted
  <2>2. ActiveInCrew'
      BY <1>11 DEF benchVars, progVars, ActiveInCrew, Active, Crew
  <2> QED BY <2>1, <2>2
<1> QED BY <1>1, <1>2, <1>3, <1>4, <1>5, <1>6, <1>7, <1>8, <1>9, <1>10, <1>11 DEF BenchNext, PhaseEnds

(* Only Spawn starts a goroutine, one, and where there is room. *)
LEMMA PoolStep ==
  ASSUME Flags, BenchTypeOK, PoolBounded, [BenchNext]_benchVars
  PROVE  PoolBounded'
<1>1. IsFiniteSet(Active)
    BY FS_Subset DEF Flags, Active
<1>2. ASSUME Active' \subseteq Active
      PROVE  PoolBounded'
  <2>1. Cardinality(Active') <= Cardinality(Active) /\ Cardinality(Active') \in Nat
      BY <1>1, <1>2, FS_Subset, FS_CardinalityType
  <2> QED BY <1>1, <2>1, FS_CardinalityType DEF PoolBounded, Flags
<1>3. ASSUME NEW u \in UserIds, Spawn(u)
      PROVE  PoolBounded'
  <2>1. Active' \subseteq Active \cup {u}
      BY <1>3 DEF Spawn, Goto, BenchTypeOK, Active
  <2>2. /\ IsFiniteSet(Active \cup {u})
        /\ Cardinality(Active \cup {u}) <= Cardinality(Active) + 1
      BY <1>1, FS_AddElement, FS_CardinalityType
  <2>3. Cardinality(Active') <= Cardinality(Active \cup {u})
      BY <2>1, <2>2, FS_Subset
  <2>4. IsFiniteSet(Active')
      BY <2>1, <2>2, FS_Subset
  <2> QED BY <1>1, <1>3, <2>2, <2>3, <2>4, FS_CardinalityType DEF Spawn, PoolBounded, Flags
<1>4. ASSUME NEW u \in UserIds,
             Register(u) \/ Fill(u) \/ Filled(u) \/ Delete(u) \/ Poll(u) \/ Drain(u) \/ Audit(u)
               \/ CleansUp(u)
      PROVE  Active' \subseteq Active
  BY <1>4
  DEF Register, Fill, Filled, Delete, DeleteAccount, Poll, Drain, Audit, CleansUp, progVars, Goto,
              BenchTypeOK, Active, Busy
<1>5. CASE Created \/ Measured \/ StopList \/ StartList \/ Drained \/ Audited
  <2>1. PICK ph \in Phases : Begin(ph)
      BY <1>5 DEF Created, Measured, StopList, StartList, Drained, Audited, Phases
  <2>2. Active' = Active
      BY <2>1 DEF Begin, BenchTypeOK, Active, Busy
  <2> QED BY <1>2, <2>2
<1>6. CASE UNCHANGED benchVars
  BY <1>2, <1>6 DEF benchVars, progVars, Active
<1> QED BY <1>2, <1>3, <1>4, <1>5, <1>6 DEF BenchNext

(* Whatever the body holds, the slice stays nil. *)
LEMMA NothingDecoded == \A u : ~Sections(u)
  BY DEF Sections, DecodeSlice, Body

LEMMA BlindStep ==
  ASSUME BenchTypeOK, NeverSeesSections, [BenchNext]_benchVars
  PROVE  NeverSeesSections'
<1>1. ASSUME NEW u \in UserIds,
             Spawn(u) \/ Register(u) \/ Fill(u) \/ Filled(u) \/ Delete(u) \/ Poll(u) \/ Drain(u)
      PROVE  NeverSeesSections'
  BY <1>1, NothingDecoded
  DEF Spawn, Register, Fill, Filled, Delete, DeleteAccount, Poll, Drain, Record, BenchTypeOK,
      NeverSeesSections
<1>2. ASSUME NEW u \in UserIds, Audit(u) \/ CleansUp(u)
      PROVE  NeverSeesSections'
  BY <1>2, NothingDecoded DEF Audit, CleansUp, progVars, NeverSeesSections
<1>3. CASE Created \/ Measured \/ StopList \/ StartList \/ Drained \/ Audited
  BY <1>3 DEF Created, Measured, StopList, StartList, Drained, Audited, Begin, NeverSeesSections
<1>4. CASE UNCHANGED benchVars
  BY <1>4 DEF benchVars, progVars, NeverSeesSections
<1> QED BY <1>1, <1>2, <1>3, <1>4 DEF BenchNext

----------------------------------------------------------------------------

THEOREM BenchInvariant ==
  ASSUME Flags
  PROVE  BenchSpec => [](BenchInv /\ PoolBounded /\ NeverSeesSections)
<1>1. BenchInit => BenchInv /\ PoolBounded /\ NeverSeesSections
    BY BenchInitially
<1>2. BenchInv /\ PoolBounded /\ NeverSeesSections /\ [BenchNext]_benchVars
        => (BenchInv /\ PoolBounded /\ NeverSeesSections)'
    BY BenchStep, PoolStep, BlindStep DEF BenchInv
<1> QED BY <1>1, <1>2, PTL DEF BenchSpec

(* Deletions are recorded truthfully, whichever answers are lost (main.go *)
(* measureDeletion, availability.go runDegradedDeletes).                  *)
THEOREM DeletionsAreRecorded ==
  ASSUME Flags
  PROVE  BenchSpec => []RecordedMeansDeleted
<1>1. BenchInv => RecordedMeansDeleted
    BY DEF BenchInv
<1> QED BY <1>1, BenchInvariant, PTL

(* The first group is measured with list-service up, the second is deleted *)
(* with list-service down and polled with it up again, because wg.Wait     *)
(* lets no goroutine outlive its phase (availability.go createTestUsers,   *)
(* runBaselinePhase, runDegradedDeletes).                                  *)
THEOREM PhasesStayApart ==
  ASSUME Flags
  PROVE  BenchSpec => []PhasesApart
<1>1. BenchInv => PhasesApart
    BY DEF BenchInv
<1> QED BY <1>1, BenchInvariant, PTL

(* The audit counts no orphan and no measurement times out, whatever is    *)
(* left in list_db (main.go getSections).                                  *)
THEOREM BenchIsBlind ==
  ASSUME Flags
  PROVE  BenchSpec => []NeverSeesSections
<1> QED BY BenchInvariant, PTL
=============================================================================
