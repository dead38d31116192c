---------------------------- MODULE RunCase_proofs ----------------------------
(***************************************************************************)
(* Proofs about a run (RunCase) and the limiter it goes through (VmSlots). *)
(* The inductive invariant of RunCase follows the thread: what each of its *)
(* steps has made sure of holds from then on, because the runner is no     *)
(* longer running once the thread has left its wait.  That of VmSlots      *)
(* counts the threads inside the limiter.                                  *)
(***************************************************************************)
EXTENDS RunCase, VmSlots, FiniteSetTheorems, TLAPS

Before == {"clear", "spawn", "wait"}
Judged == {"outputs", "trace", "state", "load", "done"}

\* The process: it runs only while the thread waits for it, and it has a return code when
\* it ended by itself.
ProcessInv ==
    /\ pc \in {"clear", "spawn"} => runner = "none"
    /\ pc = "wait" => runner \in {"running", "exited"}
    /\ pc \notin Before => runner # "running"
    /\ runner = "exited" => rc \in {0, 1}
    /\ pc \in Before => ~ timed_out /\ ~ os_error
    /\ pc \in Judged \cup {"collect"} /\ ~ timed_out /\ ~ os_error => runner = "exited"
    /\ runner = "none" => open = None
    /\ open # None => files[open] # None

\* The files: none is left over, and each is there from the step on that sees to it.
FilesInv ==
    /\ pc # "clear" => \A f \in StaleFiles : files[f] # None => files[f].by # "old"
    /\ pc \in {"trace", "state", "load", "done"} =>
          \A f \in {"stdout", "stderr", "console"} : files[f] # None
    /\ pc \in {"state", "load", "done"} =>
          /\ files["raw_trace"] # None /\ ~ files["raw_trace"].torn
          /\ files["raw_trace"].by = "runner" => ordered
          /\ files["events"] # None /\ ~ files["events"].torn => ordered
    /\ pc \in {"load", "done"} =>
          /\ files["external_state"] # None
          /\ files["run_result"] # None /\ files["run_result"].by = "host"
    /\ pc = "done" => ~ files["external_state"].torn

\* The verdict: it was reached with the report that is still there.
VerdictInv ==
    pc \in Judged => status = RunStatus /\ ~ Torn("runner_result")

IInv == TypeOK /\ ProcessInv /\ FilesInv /\ VerdictInv

-----------------------------------------------------------------------------
LEMMA InitIInv == Init => IInv
<1> SUFFICES ASSUME Init PROVE IInv
  OBVIOUS
<1>1. files \in [Files -> Content \cup {None}]
  <2>1. Written("old", "ok") \in Content
    BY DEF Written, Content, Status
  <2>2. [Written("old", "ok") EXCEPT !.torn = TRUE] \in Content
    BY DEF Written, Content, Status
  <2>3. QED
    BY <2>1, <2>2 DEF Init
<1>2. TypeOK
  BY <1>1 DEF Init, TypeOK, Status
<1>3. ProcessInv /\ FilesInv /\ VerdictInv
  BY NoneAssumption DEF Init, ProcessInv, FilesInv, VerdictInv, Before, Judged
<1>4. QED
  BY <1>2, <1>3 DEF IInv

\* What the runner may write changes nothing that was made sure of.
LEMMA OpensPreserves ==
    ASSUME IInv, NEW f \in StaleFiles, NEW s \in Status, RunnerOpens(f, s)
    PROVE  IInv'
<1> USE NoneAssumption DEF IInv, RunnerOpens
<1>1. pc = "wait"
  BY DEF TypeOK, ProcessInv, Before
<1>2. f \in Files /\ files'[f] # None
  <2>1. [by |-> "runner", torn |-> TRUE, status |-> s] \in Content
    BY DEF Content
  <2>2. f \in Files /\ files'[f] = [by |-> "runner", torn |-> TRUE, status |-> s]
    BY DEF TypeOK, Files
  <2>3. QED
    BY <2>1, <2>2
<1>3. TypeOK'
  BY <1>2 DEF TypeOK, Content, guestVars
<1>4. ProcessInv'
  BY <1>1, <1>2 DEF TypeOK, ProcessInv, Before, Judged, guestVars, Files
<1>5. FilesInv'
  BY <1>1, <1>2 DEF TypeOK, FilesInv, guestVars, Files
<1>6. VerdictInv'
  BY <1>1 DEF VerdictInv, Judged
<1>7. QED
  BY <1>3, <1>4, <1>5, <1>6

LEMMA ClosesPreserves == IInv /\ RunnerCloses => IInv'
<1> SUFFICES ASSUME IInv, RunnerCloses PROVE IInv'
  OBVIOUS
<1> USE NoneAssumption DEF IInv, RunnerCloses
<1>1. pc = "wait"
  BY DEF TypeOK, ProcessInv, Before
<1>2. open \in StaleFiles /\ open \in Files /\ files[open] \in Content
  BY DEF TypeOK, ProcessInv, Files
<1>3. TypeOK'
  BY <1>2 DEF TypeOK, Content, guestVars
<1>4. ProcessInv'
  BY <1>1, <1>2 DEF TypeOK, ProcessInv, Before, Judged, guestVars, Files
<1>5. FilesInv'
  BY <1>1, <1>2 DEF TypeOK, FilesInv, guestVars, Files, Content
<1>6. VerdictInv'
  BY <1>1 DEF VerdictInv, Judged
<1>7. QED
  BY <1>3, <1>4, <1>5, <1>6

LEMMA RunnerPreserves == IInv /\ Runner => IInv'
<1> SUFFICES ASSUME IInv, Runner PROVE IInv'
  OBVIOUS
<1>1. CASE RunnerWrites
  <2>1. "ok" \in Status /\ "crash" \in Status /\ RunnerFiles \subseteq StaleFiles
    BY DEF Status, StaleFiles
  <2>2. "raw_trace" \in StaleFiles
    BY DEF StaleFiles, RunnerFiles
  <2>3. QED
    BY <1>1, <2>1, <2>2, OpensPreserves DEF RunnerWrites
<1>2. CASE RunnerReports
  <2>1. {"ok", "unsupported", "crash", "infra_error", "timeout"} \subseteq Status
    BY DEF Status
  <2>2. "runner_result" \in StaleFiles
    BY DEF StaleFiles
  <2>3. QED
    BY <1>2, <2>1, <2>2, OpensPreserves DEF RunnerReports
<1>3. CASE RunnerCloses
  BY <1>3, ClosesPreserves
<1>4. CASE RunnerExits
  <2> USE <1>4, NoneAssumption DEF IInv, RunnerExits, guestVars
  <2>1. pc = "wait"
    BY DEF TypeOK, ProcessInv, Before
  <2>2. TypeOK'
    BY DEF TypeOK
  <2>3. ProcessInv'
    BY <2>1 DEF TypeOK, ProcessInv, Before, Judged
  <2>4. FilesInv'
    BY <2>1 DEF FilesInv
  <2>5. VerdictInv'
    BY <2>1 DEF VerdictInv, Judged
  <2>6. QED
    BY <2>2, <2>3, <2>4, <2>5
<1>5. QED
  BY <1>1, <1>2, <1>3, <1>4 DEF Runner

\* Raise touches nothing else.
LEMMA RaisePreserves == IInv /\ pc \notin Before /\ Raise => IInv'
<1> SUFFICES ASSUME IInv, pc \notin Before, Raise PROVE IInv'
  OBVIOUS
<1> USE DEF IInv, Raise, runnerVars, guestVars
<1>1. TypeOK'
  BY DEF TypeOK
<1>2. ProcessInv'
  BY DEF ProcessInv, Before, Judged
<1>3. FilesInv'
  BY DEF FilesInv, Before
<1>4. VerdictInv'
  BY DEF VerdictInv, Judged
<1>5. QED
  BY <1>1, <1>2, <1>3, <1>4

LEMMA ClearPreserves == IInv /\ ClearStale => IInv'
<1> SUFFICES ASSUME IInv, ClearStale PROVE IInv'
  OBVIOUS
<1> USE NoneAssumption DEF IInv, ClearStale, runnerVars, guestVars
<1>1. TypeOK'
  BY DEF TypeOK, Cleared
<1>2. ProcessInv'
  BY DEF ProcessInv, Before, Judged
<1>3. FilesInv'
  BY DEF FilesInv, Cleared, Files
<1>4. VerdictInv'
  BY DEF VerdictInv, Judged
<1>5. QED
  BY <1>1, <1>2, <1>3, <1>4

\* Popen, the two ways in which the wait ends, and a failed start.
LEMMA WaitPreserves ==
    IInv /\ (Spawn \/ SpawnFails \/ RunnerDone \/ TimeoutExpires) => IInv'
<1> SUFFICES ASSUME IInv, Spawn \/ SpawnFails \/ RunnerDone \/ TimeoutExpires PROVE IInv'
  OBVIOUS
<1> USE NoneAssumption DEF IInv, Spawn, SpawnFails, RunnerDone, TimeoutExpires, runnerVars, guestVars
<1>1. TypeOK'
  BY DEF TypeOK
<1>2. ProcessInv'
  BY DEF TypeOK, ProcessInv, Before, Judged
<1>3. FilesInv'
  BY DEF FilesInv
<1>4. VerdictInv'
  BY DEF VerdictInv, Judged
<1>5. QED
  BY <1>1, <1>2, <1>3, <1>4

LEMMA StatusTyped == IInv /\ pc \notin Before => RunStatus \in Status
BY NoneAssumption
   DEF IInv, TypeOK, RunStatus, FinalizeProcessResult, ClassifyReturncode, Status, Content,
       Files, StaleFiles

LEMMA CollectPreserves == IInv /\ Collect => IInv'
<1> SUFFICES ASSUME IInv, Collect PROVE IInv'
  OBVIOUS
<1>1. pc = "collect" /\ pc \notin Before
  BY DEF Collect, Before
<1>2. CASE Raise
  BY <1>1, <1>2, RaisePreserves
<1>3. CASE ~ Raise
  <2>1. /\ ~ Torn("runner_result") /\ status' = RunStatus /\ pc' = "outputs"
        /\ UNCHANGED <<files, runnerVars, timed_out, os_error>>
    BY <1>3 DEF Collect
  <2> USE <1>1, <2>1 DEF IInv, runnerVars, guestVars
  <2>2. TypeOK'
    BY StatusTyped DEF TypeOK
  <2>3. ProcessInv'
    BY DEF ProcessInv, Before, Judged
  <2>4. FilesInv'
    BY DEF FilesInv
  <2>5. VerdictInv'
    BY DEF VerdictInv, Judged, RunStatus, FinalizeProcessResult, ClassifyReturncode, Torn
  <2>6. QED
    BY <2>2, <2>3, <2>4, <2>5
<1>4. QED
  BY <1>2, <1>3

LEMMA OutputsPreserves == IInv /\ PersistOutputs => IInv'
<1> SUFFICES ASSUME IInv, PersistOutputs PROVE IInv'
  OBVIOUS
<1> USE NoneAssumption DEF IInv, PersistOutputs, runnerVars, guestVars
<1>1. Written("host", status) \in Content /\ Written("host", status).by = "host"
  BY DEF TypeOK, Content, Written
<1>2. \A f \in Files \ {"stdout", "stderr", "console"} : files'[f] = files[f]
  OBVIOUS
<1>3. {"stdout", "stderr", "console"} \subseteq Files
  BY DEF Files, StaleFiles, RunnerFiles
<1>4. TypeOK'
  BY <1>1 DEF TypeOK
<1>5. ProcessInv'
  BY <1>1 DEF TypeOK, ProcessInv, Before, Judged, Files
<1>6. FilesInv'
  <2>1. \A f \in StaleFiles : files'[f] # None => files'[f].by # "old"
    BY <1>1 DEF FilesInv, Files
  <2>2. \A f \in {"stdout", "stderr", "console"} : files'[f] # None
    BY <1>1, <1>3
  <2>3. QED
    BY <2>1, <2>2 DEF FilesInv
<1>7. VerdictInv'
  BY <1>2 DEF VerdictInv, Judged, RunStatus, FinalizeProcessResult, ClassifyReturncode, Torn,
              Files, StaleFiles
<1>8. QED
  BY <1>4, <1>5, <1>6, <1>7

LEMMA TracePreserves == IInv /\ PersistRawTrace => IInv'
<1> SUFFICES ASSUME IInv, PersistRawTrace PROVE IInv'
  OBVIOUS
<1>1. pc = "trace" /\ pc \notin Before
  BY DEF PersistRawTrace, Before
<1>2. CASE Raise
  BY <1>1, <1>2, RaisePreserves
<1>3. CASE ~ Raise
  <2>0. PICK read \in EventsRead : ~ TraceInvalid(read)
    BY <1>3 DEF PersistRawTrace
  <2>1. /\ files' = [files EXCEPT !["raw_trace"] = RawTrace]
        /\ pc' = "state" /\ UNCHANGED <<runnerVars, timed_out, os_error, status>>
    BY <1>3 DEF PersistRawTrace
  <2> USE NoneAssumption, <1>1, <2>1 DEF IInv, runnerVars, guestVars
  <2>2. Written("host", status) \in Content /\ Written("host", status).by = "host"
        /\ ~ Written("host", status).torn
    BY DEF TypeOK, Content, Written
  <2>3. "raw_trace" \in Files /\ "raw_trace" \in StaleFiles /\ "events" \in Files
    BY DEF Files, StaleFiles, RunnerFiles
  <2>4. RawTrace \in Content
    BY <2>2, <2>3 DEF RawTrace, TypeOK
  <2>5. files'["raw_trace"] = RawTrace /\ \A f \in Files \ {"raw_trace"} : files'[f] = files[f]
    BY <2>3 DEF TypeOK
  <2>6. TypeOK'
    BY <2>4 DEF TypeOK
  <2>7. ProcessInv'
    BY <2>4, <2>5 DEF TypeOK, ProcessInv, Before, Judged, Files
  <2>8. FilesInv'
    <3>1. \A f \in StaleFiles : files'[f] # None => files'[f].by # "old"
      BY <2>2, <2>3, <2>4, <2>5 DEF FilesInv, RawTrace, Files
    <3>2. \A f \in {"stdout", "stderr", "console"} : files'[f] # None
      BY <2>5 DEF FilesInv, Files, StaleFiles, RunnerFiles
    <3>3. /\ files'["raw_trace"] # None /\ ~ files'["raw_trace"].torn
          /\ files'["raw_trace"].by = "runner" => ordered'
      BY <2>0, <2>2, <2>4, <2>5 DEF RawTrace, TraceInvalid, Torn
    <3>4. files'["events"] # None /\ ~ files'["events"].torn => ordered'
      BY <2>0, <2>3, <2>5 DEF TraceInvalid, EventsRead, Torn
    <3>5. QED
      BY <3>1, <3>2, <3>3, <3>4 DEF FilesInv
  <2>9. VerdictInv'
    BY <2>5 DEF VerdictInv, Judged, RunStatus, FinalizeProcessResult, ClassifyReturncode, Torn,
                Files, StaleFiles
  <2>10. QED
    BY <2>6, <2>7, <2>8, <2>9
<1>4. QED
  BY <1>2, <1>3

LEMMA ResultPreserves == IInv /\ PersistResult => IInv'
<1> SUFFICES ASSUME IInv, PersistResult PROVE IInv'
  OBVIOUS
<1> USE NoneAssumption DEF IInv, PersistResult, runnerVars, guestVars
<1>1. Written("host", status) \in Content /\ Written("host", status).by = "host"
  BY DEF TypeOK, Content, Written
<1>2. {"external_state", "run_result"} \subseteq Files /\ "external_state" \in StaleFiles
      /\ "run_result" \notin StaleFiles
  BY DEF Files, StaleFiles, RunnerFiles
<1>3. ExternalState \in Content
  BY <1>1, <1>2 DEF ExternalState, TypeOK
<1>4. /\ files'["external_state"] = ExternalState
      /\ files'["run_result"] = Written("host", status)
      /\ \A f \in Files \ {"external_state", "run_result"} : files'[f] = files[f]
  BY <1>2 DEF TypeOK
<1>5. TypeOK'
  BY <1>1, <1>3 DEF TypeOK
<1>6. ProcessInv'
  BY <1>1, <1>3, <1>4 DEF TypeOK, ProcessInv, Before, Judged, Files
<1>7. FilesInv'
  <2>1. \A f \in StaleFiles : files'[f] # None => files'[f].by # "old"
    BY <1>1, <1>2, <1>4 DEF FilesInv, ExternalState, Files
  <2>2. \A f \in {"stdout", "stderr", "console"} : files'[f] # None
    BY <1>4 DEF FilesInv, Files, StaleFiles, RunnerFiles
  <2>3. /\ files'["raw_trace"] = files["raw_trace"] /\ files'["events"] = files["events"]
    BY <1>4 DEF Files, StaleFiles, RunnerFiles
  <2>4. QED
    BY <1>1, <1>3, <1>4, <2>1, <2>2, <2>3 DEF FilesInv
<1>8. VerdictInv'
  BY <1>4 DEF VerdictInv, Judged, RunStatus, FinalizeProcessResult, ClassifyReturncode, Torn,
              Files, StaleFiles
<1>9. QED
  BY <1>5, <1>6, <1>7, <1>8

LEMMA LoadPreserves == IInv /\ LoadCanonical => IInv'
<1> SUFFICES ASSUME IInv, LoadCanonical PROVE IInv'
  OBVIOUS
<1>1. pc = "load" /\ pc \notin Before
  BY DEF LoadCanonical, Before
<1>2. CASE Raise
  BY <1>1, <1>2, RaisePreserves
<1>3. CASE ~ Raise
  <2>1. /\ ~ Torn("external_state") /\ pc' = "done"
        /\ UNCHANGED <<files, runnerVars, timed_out, os_error, status>>
    BY <1>3 DEF LoadCanonical
  <2> USE <1>1, <2>1 DEF IInv, runnerVars, guestVars
  <2>2. TypeOK'
    BY DEF TypeOK
  <2>3. ProcessInv'
    BY DEF ProcessInv, Before, Judged
  <2>4. FilesInv'
    BY DEF FilesInv, Torn
  <2>5. VerdictInv'
    BY DEF VerdictInv, Judged, RunStatus, FinalizeProcessResult, ClassifyReturncode, Torn
  <2>6. QED
    BY <2>2, <2>3, <2>4, <2>5
<1>4. QED
  BY <1>2, <1>3

LEMMA NextPreserves == IInv /\ [Next]_vars => IInv'
<1> SUFFICES ASSUME IInv, [Next]_vars PROVE IInv'
  OBVIOUS
<1>1. CASE Host
  BY <1>1, ClearPreserves, WaitPreserves, CollectPreserves, OutputsPreserves, TracePreserves,
     ResultPreserves, LoadPreserves DEF Host
<1>2. CASE Runner
  BY <1>2, RunnerPreserves
<1>3. CASE UNCHANGED vars
  BY <1>3 DEF vars, IInv, TypeOK, ProcessInv, FilesInv, VerdictInv, RunStatus,
              FinalizeProcessResult, ClassifyReturncode, Torn
<1>4. QED
  BY <1>1, <1>2, <1>3 DEF Next

-----------------------------------------------------------------------------
\* Every step of the host and of the runner beside it keeps what the host has seen to.
THEOREM Invariance == Spec => []IInv
<1>1. Init => IInv
  BY InitIInv
<1>2. IInv /\ [Next]_vars => IInv'
  BY NextPreserves
<1>3. QED
  BY <1>1, <1>2, PTL DEF Spec

\* Artifacts, flags and statuses keep their types, whatever the runner writes.
THEOREM TypeCorrect == Spec => []TypeOK
<1>1. IInv => TypeOK
  BY DEF IInv
<1>2. QED
  BY <1>1, Invariance, PTL

\* A run that is used has all its artifacts, and none of an earlier run with its id:
\* clearing the directory first and filling the gaps afterwards are enough.
THEOREM ArtifactsAreFresh == Spec => []ArtifactsFreshAndComplete
<1>1. IInv => ArtifactsFreshAndComplete
  BY DEF IInv, FilesInv, ArtifactsFreshAndComplete, Required, StaleFiles, RunnerFiles
<1>2. QED
  BY <1>1, Invariance, PTL

\* The trace and the state that reach the comparator are whole files of the runner or of the
\* host, and events that the runner put in a trace, or that all arrived, are in order.
THEOREM EvidenceSound == Spec => []EvidenceIsSound
<1>1. IInv => EvidenceIsSound
  BY DEF IInv, FilesInv, EvidenceIsSound
<1>2. QED
  BY <1>1, Invariance, PTL

\* ok is earned by a runner that ended by itself, however late a report comes.
THEOREM OkEarned == Spec => []OkIsEarned
<1>1. IInv => OkIsEarned
  <2> SUFFICES ASSUME IInv, pc = "done", status = "ok" PROVE OkIsEarned
    BY DEF OkIsEarned
  <2>1. status = RunStatus /\ ~ Torn("runner_result")
    BY DEF IInv, VerdictInv, Judged
  <2>2. ~ timed_out /\ ~ os_error /\ FinalizeProcessResult = "ok"
    BY <2>1 DEF RunStatus
  <2>3. runner = "exited"
    BY <2>2 DEF IInv, ProcessInv, Judged
  <2>4. QED
    BY <2>1, <2>2, <2>3 DEF OkIsEarned, FinalizeProcessResult, ClassifyReturncode, Torn
<1>2. QED
  BY <1>1, Invariance, PTL

-----------------------------------------------------------------------------
(* The VM limiter bounds the live runners, for every finite set of         *)
(* threads, every setting and every number of runs.                        *)

\* The threads inside the limiter.
Holders == {t \in Threads : at[t] \in Holding}

\* No slot is lost or made up.
SlotsConserved == free + Cardinality(Holders) = Limit(max_vms)

\* A thread inside the limiter is in one of its runs.
HoldersRun == \A t \in Threads : at[t] \in Holding => runs[t] # 0

\* A live runner belongs to the current run of a thread that waits for it, or is about
\* to kill it.
RunnersAwaited ==
    \A r \in runners : at[r[1]] \in {"wait", "killpg"} /\ r[2] = runs[r[1]]

\* The inductive invariant.
SlotsIInv == SlotsTypeOK /\ SlotsConserved /\ HoldersRun /\ RunnersAwaited

\* A limit is at least one, whatever is configured.
LEMMA LimitType ==
    ASSUME NEW m \in Settings
    PROVE  Limit(m) \in Nat /\ Limit(m) >= 1
  BY SlotsAssumption DEF Limit

\* The holders are finitely many.
LEMMA HoldersFinite == IsFiniteSet(Holders) /\ Cardinality(Holders) \in Nat
<1>1. Holders \in SUBSET Threads
  BY DEF Holders
<1>2. IsFiniteSet(Holders)
  BY <1>1, SlotsAssumption, FS_Subset
<1> QED BY <1>2, FS_CardinalityType

LEMMA SlotsInitEstablishes == SlotsInit => SlotsIInv
<1> SUFFICES ASSUME SlotsInit PROVE SlotsIInv
  OBVIOUS
<1>1. max_vms \in Settings /\ Limit(max_vms) \in Nat
  BY LimitType DEF SlotsInit
<1>2. SlotsTypeOK
  BY <1>1, SlotsAssumption DEF SlotsInit, SlotsTypeOK
<1>3. Holders = {}
  BY DEF SlotsInit, Holders, Holding
<1>4. SlotsConserved
  BY <1>1, <1>3, FS_EmptySet DEF SlotsInit, SlotsConserved
<1>5. HoldersRun /\ RunnersAwaited
  BY DEF SlotsInit, HoldersRun, RunnersAwaited, Holding
<1> QED BY <1>2, <1>4, <1>5 DEF SlotsIInv

\* A step of a thread that stays inside the limiter, or outside it, leaves the holders
\* as they are.
LEMMA SameHolders ==
    ASSUME SlotsIInv, NEW t \in Threads, NEW label,
           Goto(t, label), at[t] \in Holding <=> label \in Holding
    PROVE  Holders' = Holders
  BY DEF SlotsIInv, SlotsTypeOK, Goto, Holders

\* Entering the limiter takes a slot and adds a holder.
LEMMA AcquirePreserves ==
    ASSUME SlotsIInv, NEW t \in Threads, Acquire(t)
    PROVE  SlotsIInv'
<1>1. /\ at[t] = "idle" /\ at' = [at EXCEPT ![t] = "spawn"]
      /\ free > 0 /\ free' = free - 1
      /\ runs[t] < MaxRuns /\ runs' = [runs EXCEPT ![t] = runs[t] + 1]
      /\ UNCHANGED <<max_vms, runners, vms>>
  BY DEF Acquire, Goto
<1>2. Limit(max_vms) \in Nat
  BY LimitType DEF SlotsIInv, SlotsTypeOK
<1>3. SlotsTypeOK'
  BY <1>1, <1>2, SlotsAssumption DEF SlotsIInv, SlotsTypeOK, Holding
<1>4. Holders' = Holders \cup {t} /\ t \notin Holders
  BY <1>1 DEF SlotsIInv, SlotsTypeOK, Holders, Holding
<1>5. Cardinality(Holders') = Cardinality(Holders) + 1
  BY <1>4, HoldersFinite, FS_AddElement
<1>6. SlotsConserved'
  BY <1>1, <1>2, <1>5, HoldersFinite DEF SlotsIInv, SlotsTypeOK, SlotsConserved
<1>7. HoldersRun'
  BY <1>1, SlotsAssumption DEF SlotsIInv, SlotsTypeOK, HoldersRun
<1>8. RunnersAwaited'
  BY <1>1 DEF SlotsIInv, SlotsTypeOK, RunnersAwaited
<1> QED BY <1>3, <1>6, <1>7, <1>8 DEF SlotsIInv

\* Leaving it gives the slot back; the runner is gone by then.
LEMMA ReleasePreserves ==
    ASSUME SlotsIInv, NEW t \in Threads, Release(t)
    PROVE  SlotsIInv'
<1>1. /\ at[t] = "release" /\ at' = [at EXCEPT ![t] = "idle"]
      /\ free' = free + 1
      /\ UNCHANGED <<max_vms, runs, runners, vms>>
  BY DEF Release, Goto, Released
<1>2. Limit(max_vms) \in Nat
  BY LimitType DEF SlotsIInv, SlotsTypeOK
<1>3. Holders' = Holders \ {t} /\ t \in Holders
  BY <1>1 DEF SlotsIInv, SlotsTypeOK, Holders, Holding
<1>4. Cardinality(Holders') = Cardinality(Holders) - 1 /\ Cardinality(Holders') \in Nat
  BY <1>3, HoldersFinite, FS_RemoveElement, FS_CardinalityType
<1>5. SlotsConserved'
  BY <1>1, <1>2, <1>4, HoldersFinite DEF SlotsIInv, SlotsTypeOK, SlotsConserved
<1>6. free' \in 0 .. Limit(max_vms)
  BY <1>1, <1>2, <1>4, <1>5 DEF SlotsIInv, SlotsTypeOK, SlotsConserved
<1>7. SlotsTypeOK'
  BY <1>1, <1>6 DEF SlotsIInv, SlotsTypeOK
<1>8. HoldersRun'
  BY <1>1 DEF SlotsIInv, SlotsTypeOK, HoldersRun, Holding
<1>9. RunnersAwaited'
  BY <1>1 DEF SlotsIInv, SlotsTypeOK, RunnersAwaited
<1> QED BY <1>5, <1>7, <1>8, <1>9 DEF SlotsIInv

\* The steps inside the limiter.
LEMMA InsidePreserves ==
    ASSUME SlotsIInv, NEW t \in Threads, NEW from \in Holding, NEW label \in Holding,
           at[t] = from, Goto(t, label),
           UNCHANGED <<max_vms, free, runs, vms>>,
           runners' \subseteq runners \cup {Run(t)},
           label \notin {"wait", "killpg"} => Run(t) \notin runners'
    PROVE  SlotsIInv'
<1>1. at' = [at EXCEPT ![t] = label] /\ at[t] \in Holding
  BY DEF Goto
<1>2. Run(t) \in Threads \X (1 .. MaxRuns)
  BY <1>1, SlotsAssumption DEF SlotsIInv, SlotsTypeOK, HoldersRun, Run
<1>3. SlotsTypeOK'
  BY <1>1, <1>2 DEF SlotsIInv, SlotsTypeOK
<1>4. Holders' = Holders
  BY <1>1, SameHolders
<1>5. SlotsConserved'
  BY <1>4 DEF SlotsIInv, SlotsConserved
<1>6. HoldersRun'
  BY <1>1 DEF SlotsIInv, SlotsTypeOK, HoldersRun
<1>7. RunnersAwaited'
  <2> SUFFICES ASSUME NEW r \in runners'
               PROVE  at'[r[1]] \in {"wait", "killpg"} /\ r[2] = runs[r[1]]
    BY DEF RunnersAwaited
  <2>1. r \in Threads \X (1 .. MaxRuns) /\ r = <<r[1], r[2]>> /\ r[1] \in Threads
    BY <1>2 DEF SlotsIInv, SlotsTypeOK
  <2>2. CASE r = Run(t)
    <3>1. r[1] = t /\ r[2] = runs[t]
      BY <2>2 DEF Run
    <3>2. label \in {"wait", "killpg"}
      BY <2>2
    <3> QED BY <1>1, <3>1, <3>2 DEF SlotsIInv, SlotsTypeOK
  <2>3. CASE r # Run(t)
    <3>1. r \in runners
      BY <2>3
    <3>2. r[2] = runs[r[1]] /\ at[r[1]] \in {"wait", "killpg"}
      BY <3>1 DEF SlotsIInv, RunnersAwaited
    <3>3. r[1] # t
      BY <2>1, <2>3, <3>2 DEF Run
    <3> QED BY <1>1, <2>1, <3>2, <3>3 DEF SlotsIInv, SlotsTypeOK
  <2> QED BY <2>2, <2>3
<1> QED BY <1>3, <1>5, <1>6, <1>7 DEF SlotsIInv

\* A runner that is where the invariant does not allow one does not exist.
LEMMA NoRunner ==
    ASSUME SlotsIInv, NEW t \in Threads, at[t] \notin {"wait", "killpg"}
    PROVE  Run(t) \notin runners
  BY DEF SlotsIInv, RunnersAwaited, Run

\* The steps of the runner and the VM.
LEMMA OthersPreserve ==
    ASSUME SlotsIInv, UNCHANGED <<max_vms, free, runs, at>>,
           runners' \subseteq runners, vms' \subseteq Threads \X (1 .. MaxRuns)
    PROVE  SlotsIInv'
<1>1. Holders' = Holders
  BY DEF Holders
<1> QED BY <1>1 DEF SlotsIInv, SlotsTypeOK, SlotsConserved, HoldersRun, RunnersAwaited

LEMMA SlotsStepPreserves == SlotsIInv /\ [SlotsNext]_slotsVars => SlotsIInv'
<1> SUFFICES ASSUME SlotsIInv, [SlotsNext]_slotsVars PROVE SlotsIInv'
  OBVIOUS
<1> USE DEF Holding
<1>1. ASSUME NEW t \in Threads, Acquire(t) PROVE SlotsIInv'
  BY <1>1, AcquirePreserves
<1>2. ASSUME NEW t \in Threads, StartRunner(t) PROVE SlotsIInv'
  <2>1. CASE runners' = runners \cup {Run(t)} /\ Goto(t, "wait")
    BY <1>2, <2>1, InsidePreserves DEF StartRunner
  <2>2. CASE UNCHANGED runners /\ Goto(t, "release")
    <3>1. Run(t) \notin runners
      BY <1>2, NoRunner DEF StartRunner
    <3> QED BY <1>2, <2>2, <3>1, InsidePreserves DEF StartRunner
  <2> QED BY <1>2, <2>1, <2>2 DEF StartRunner
<1>3. ASSUME NEW t \in Threads, RunnerEnded(t) PROVE SlotsIInv'
  BY <1>3, InsidePreserves DEF RunnerEnded
<1>4. ASSUME NEW t \in Threads, WaitExpires(t) PROVE SlotsIInv'
  BY <1>4, InsidePreserves DEF WaitExpires
<1>5. ASSUME NEW t \in Threads, KillGroup(t) PROVE SlotsIInv'
  BY <1>5, InsidePreserves DEF KillGroup, KilledGroup
<1>6. ASSUME NEW t \in Threads, KillChildren(t) PROVE SlotsIInv'
  <2>1. Run(t) \notin runners
    BY <1>6, NoRunner DEF KillChildren
  <2> QED BY <1>6, <2>1, InsidePreserves DEF KillChildren
<1>7. ASSUME NEW t \in Threads, Release(t) PROVE SlotsIInv'
  BY <1>7, ReleasePreserves
<1>8. ASSUME NEW t \in Threads, StartVm(t) PROVE SlotsIInv'
  <2>1. vms' \subseteq Threads \X (1 .. MaxRuns)
    BY <1>8 DEF StartVm, SlotsIInv, SlotsTypeOK
  <2> QED BY <1>8, <2>1, OthersPreserve DEF StartVm
<1>9. ASSUME NEW t \in Threads, RunnerLeaves(t) PROVE SlotsIInv'
  BY <1>9, OthersPreserve DEF RunnerLeaves, SlotsIInv, SlotsTypeOK
<1>10. ASSUME NEW v \in vms, VmEnds(v) PROVE SlotsIInv'
  <2>1. vms' \subseteq Threads \X (1 .. MaxRuns)
    BY <1>10 DEF VmEnds, SlotsIInv, SlotsTypeOK
  <2> QED BY <1>10, <2>1, OthersPreserve DEF VmEnds
<1>11. CASE UNCHANGED slotsVars
  BY <1>11, OthersPreserve DEF slotsVars, SlotsIInv, SlotsTypeOK
<1> QED
  BY <1>1, <1>2, <1>3, <1>4, <1>5, <1>6, <1>7, <1>8, <1>9, <1>10, <1>11 DEF SlotsNext, Thread

\* The thread of a runner tells live runners apart, so there are no more of them than
\* threads inside the limiter.
LEMMA RunnersAreHeld == SlotsIInv => RunnersBounded
<1> SUFFICES ASSUME SlotsIInv PROVE RunnersBounded
  OBVIOUS
<1> DEFINE f == [r \in runners |-> r[1]]
<1>1. \A r \in runners : r = <<r[1], r[2]>> /\ r[1] \in Threads /\ r[2] = runs[r[1]]
  BY DEF SlotsIInv, SlotsTypeOK, RunnersAwaited
<1>2. \A r \in runners : r[1] \in Holders
  BY <1>1 DEF SlotsIInv, RunnersAwaited, Holders, Holding
<1>3. \A r, s \in runners : r[1] = s[1] => r = s
  BY <1>1
<1>4. f \in Injection(runners, Holders)
  BY <1>2, <1>3 DEF Injection, IsInjective
<1>5. IsFiniteSet(runners) /\ Cardinality(runners) <= Cardinality(Holders)
  <2> HIDE DEF f
  <2> QED BY <1>4, HoldersFinite, FS_Injection
<1>6. Cardinality(runners) \in Nat
  BY <1>5, FS_CardinalityType
<1>7. Limit(max_vms) \in Nat
  BY LimitType DEF SlotsIInv, SlotsTypeOK
<1>8. Cardinality(runners) <= Limit(max_vms)
  BY <1>5, <1>6, <1>7, HoldersFinite DEF SlotsIInv, SlotsTypeOK, SlotsConserved
<1> QED BY <1>8 DEF RunnersBounded, SlotsIInv, RunnersAwaited

\* The limiter's state keeps its type: in particular the semaphore's counter never
\* leaves 0 .. limit.
THEOREM LimiterTypeCorrect == SlotsSpec => []SlotsTypeOK
<1>1. SlotsIInv => SlotsTypeOK
  BY DEF SlotsIInv
<1> QED BY <1>1, SlotsInitEstablishes, SlotsStepPreserves, PTL DEF SlotsSpec

\* However runs end, fail to start or are killed, no more runners are alive than
\* max_concurrent_vms allows, and each belongs to the current run of its thread.
THEOREM LimiterBoundsRunners == SlotsSpec => []RunnersBounded
  BY SlotsInitEstablishes, SlotsStepPreserves, RunnersAreHeld, PTL DEF SlotsSpec
=============================================================================
