------------------------------- MODULE RunCase -------------------------------
(***************************************************************************)
(* One run of one program on one kernel (orchestrator/vm_runner.py:        *)
(* execute_side and execute_prepared_candidate_case, runners/command.py):  *)
(* the orchestrator's thread clears the artifact directory, starts a       *)
(* runner process, waits for it at most timeout_sec, kills it if it is     *)
(* late, and makes the run's artifacts complete from whatever the runner   *)
(* left.  The runner (a target's entry point around a VM, or the traced    *)
(* program itself) writes artifacts of its own while the thread waits.     *)
(*                                                                         *)
(* A file is None or a record of who wrote it ("old" is an earlier run     *)
(* with the same run id), whether it was cut short in the middle of a      *)
(* write, and the status it carries.                                       *)
(***************************************************************************)
EXTENDS Integers, FiniteSets

CONSTANT None

RunnerFiles == {"events", "raw_trace", "external_state", "stdout", "stderr", "console"}

\* The files cleared before a run.
StaleFiles == RunnerFiles \cup {"runner_result"}

Files == StaleFiles \cup {"run_result"}

\* What docs/architecture/current-contracts.md requires of a run.
Required == {"stdout", "stderr", "console", "raw_trace", "external_state", "run_result"}

Status == {"ok", "timeout", "infra_error", "crash", "candidate_bug", "unsupported"}

Content == [by : {"old", "runner", "host"}, torn : BOOLEAN, status : Status]

\* None is neither of these.
ASSUME NoneAssumption == None \notin Content /\ None \notin {0, 1} /\ None \notin Files

Written(by, status) == [by |-> by, torn |-> FALSE, status |-> status]

VARIABLES
    files,       \* the artifact directory
    transport,   \* trace_events_transport: how the guest's events arrive
    ordered,     \* the event indexes of the guest increase strictly
    runner,      \* "none", "running", "exited" or "killed"
    open,        \* the file the runner is in the middle of writing
    rc,          \* returncode: 0 or 1; None while it runs and after a kill
    panic,       \* a panic indicator is in the output
    timed_out,   \* of the RunnerExecution
    os_error,
    status,      \* of the RunResult
    pc

vars == <<files, transport, ordered, runner, open, rc, panic, timed_out, os_error,
          status, pc>>

guestVars == <<transport, ordered>>
runnerVars == <<runner, open, rc, panic, guestVars>>

-----------------------------------------------------------------------------
\* The directory is new, or an earlier run with this run id filled it, whole or
\* cut short.
Init ==
    /\ files \in {[f \in Files |-> None],
                  [f \in Files |-> Written("old", "ok")],
                  [f \in Files |-> [Written("old", "ok") EXCEPT !.torn = TRUE]]}
    /\ transport \in {"file", "stdout"}
    /\ ordered \in BOOLEAN
    /\ runner = "none"
    /\ open = None
    /\ rc = None
    /\ panic = FALSE
    /\ timed_out = FALSE
    /\ os_error = FALSE
    /\ status = "ok"
    /\ pc = "clear"

\* Mutant: the console log of an earlier run is left in place.
ClearedButConsole == [f \in Files |-> IF f \in StaleFiles \ {"console"} THEN None ELSE files[f]]

Cleared == [f \in Files |-> IF f \in StaleFiles THEN None ELSE files[f]]

ClearStale ==
    /\ pc = "clear"
    /\ files' = Cleared
    /\ pc' = "spawn"
    /\ UNCHANGED <<runnerVars, timed_out, os_error, status>>

\* CommandRunner.run_case: Popen.
Spawn ==
    /\ pc = "spawn"
    /\ runner' = "running"
    /\ pc' = "wait"
    /\ UNCHANGED <<files, guestVars, open, rc, panic, timed_out, os_error, status>>

SpawnFails ==
    /\ pc = "spawn"
    /\ os_error' = TRUE
    /\ pc' = "collect"
    /\ UNCHANGED <<files, runnerVars, timed_out, status>>

-----------------------------------------------------------------------------
(* The runner process.                                                     *)

\* It starts a file: dump_json and write_text truncate, then write.
RunnerOpens(f, s) ==
    /\ runner = "running"
    /\ open = None
    /\ files[f] = None
    /\ open' = f
    /\ files' = [files EXCEPT ![f] = [by |-> "runner", torn |-> TRUE, status |-> s]]
    /\ UNCHANGED <<guestVars, runner, rc, panic, timed_out, os_error, status, pc>>

RunnerCloses ==
    /\ runner = "running"
    /\ open # None
    /\ files' = [files EXCEPT ![open].torn = FALSE]
    /\ open' = None
    /\ UNCHANGED <<guestVars, runner, rc, panic, timed_out, os_error, status, pc>>

\* A trace, the sandbox's state or a log.  The guest's exit status, which the
\* trace carries, is ok or crash.
RunnerWrites ==
    \/ \E f \in RunnerFiles \ {"raw_trace"} : RunnerOpens(f, "ok")
    \/ \E s \in {"ok", "crash"} : RunnerOpens("raw_trace", s)

\* runner-result.json: a verdict on the guest, once its trace and state are
\* written, or the runner's own failure at any time.
RunnerReports ==
    \/ /\ \A f \in {"raw_trace", "external_state"} : files[f] # None
       /\ \E s \in {"ok", "unsupported", "crash"} : RunnerOpens("runner_result", s)
    \/ \E s \in {"infra_error", "timeout"} : RunnerOpens("runner_result", s)

\* It ends, possibly because the guest died in the middle of an event.
RunnerExits ==
    /\ runner = "running"
    /\ open \in {None, "events"}
    /\ runner' = "exited"
    /\ rc' \in {0, 1}
    /\ panic' \in BOOLEAN
    /\ UNCHANGED <<guestVars, files, open, timed_out, os_error, status, pc>>

-----------------------------------------------------------------------------
(* The orchestrator's thread, after the wait.                              *)

RunnerDone ==
    /\ pc = "wait"
    /\ runner = "exited"
    /\ pc' = "collect"
    /\ UNCHANGED <<files, runnerVars, timed_out, os_error, status>>

\* Mutant: communicate is called without a timeout.
TimeoutNever ==
    /\ pc = "wait"
    /\ runner = "exited"
    /\ timed_out' = TRUE
    /\ pc' = "collect"
    /\ UNCHANGED <<files, runnerVars, os_error, status>>

\* communicate timed out; _cleanup_process kills the runner's process group.  The
\* runner may have ended just now, or long ago with a child still holding its pipes.
TimeoutExpires ==
    /\ pc = "wait"
    /\ runner' = IF runner = "running" THEN "killed" ELSE runner
    /\ timed_out' = TRUE
    /\ pc' = "collect"
    /\ UNCHANGED <<files, guestVars, open, rc, panic, os_error, status>>

\* Mutant: a panic is reported as a status of its own.
ClassifyPanic ==
    IF rc = 0 THEN "ok" ELSE IF panic THEN "panic" ELSE "infra_error"

\* CommandRunner._classify_returncode.
ClassifyReturncode ==
    IF rc = 0 THEN "ok" ELSE IF panic THEN "candidate_bug" ELSE "infra_error"

\* finalize_process_result for a command runner: the runner's own report wins.
FinalizeProcessResult ==
    IF files["runner_result"] # None THEN files["runner_result"].status
    ELSE IF ~ timed_out /\ ~ os_error THEN ClassifyReturncode
    ELSE "infra_error"

\* Mutant: a report the runner got out before it was killed is believed.
LateReportWins ==
    IF os_error THEN "infra_error" ELSE FinalizeProcessResult

\* _run_case_core: the timeout and the OSError win over any report.
RunStatus ==
    IF timed_out THEN "timeout" ELSE IF os_error THEN "infra_error"
    ELSE FinalizeProcessResult

Torn(f) == files[f] # None /\ files[f].torn

\* An exception ends the run; the scheduler writes an infra_error row.
Raise ==
    /\ pc' = "raised"
    /\ UNCHANGED <<files, runnerVars, timed_out, os_error, status>>

\* load_runner_result and _run_case_core.
Collect ==
    /\ pc = "collect"
    /\ \/ Torn("runner_result") /\ Raise
       \/ /\ ~ Torn("runner_result")
          /\ status' = RunStatus
          /\ pc' = "outputs"
          /\ UNCHANGED <<files, runnerVars, timed_out, os_error>>

\* _persist_case_outputs: what the runner wrote is kept.
PersistOutputs ==
    /\ pc = "outputs"
    /\ files' = [f \in Files |->
                   IF f \in {"stdout", "stderr", "console"} /\ files[f] = None
                     THEN Written("host", status) ELSE files[f]]
    /\ pc' = "trace"
    /\ UNCHANGED <<runnerVars, timed_out, os_error, status>>

\* _build_and_persist_raw_trace: a trace the runner wrote is kept as it is, else
\* one is built from the events, with the run's status as the process exit.
RawTrace == IF files["raw_trace"] # None THEN files["raw_trace"]
            ELSE Written("host", status)

\* persisted_trace_events, of events that were cut short: up to a line's end they count as
\* all there is; with half a line left over, a file counts as empty and stdout raises.
EventsCut ==
    {"sorted", IF transport = "file" THEN "none" ELSE "unreadable"}
    \cup IF ordered THEN {} ELSE {"unsorted"}

\* What the events that arrived may be read as.
EventsRead ==
    CASE files["events"] = None -> {"none"}
      [] files["events"] # None /\ Torn("events") -> EventsCut
      [] OTHER -> {IF ordered THEN "sorted" ELSE "unsorted"}

\* Mutant: the trace is not validated.
TraceUnreadable(read) == Torn("raw_trace")

\* The trace does not parse or validate_raw_trace refuses it.
TraceInvalid(read) ==
    IF files["raw_trace"] # None THEN Torn("raw_trace") \/ ~ ordered
    ELSE read \in {"unsorted", "unreadable"}

PersistRawTrace ==
    /\ pc = "trace"
    /\ \E read \in EventsRead :
         \/ TraceInvalid(read) /\ Raise
         \/ /\ ~ TraceInvalid(read)
            /\ files' = [files EXCEPT !["raw_trace"] = RawTrace]
            /\ pc' = "state"
            /\ UNCHANGED <<runnerVars, timed_out, os_error, status>>

ExternalState == IF files["external_state"] # None THEN files["external_state"]
                 ELSE Written("host", status)

PersistResult ==
    /\ pc = "state"
    /\ files' = [files EXCEPT !["external_state"] = ExternalState,
                              !["run_result"] = Written("host", status)]
    /\ pc' = "load"
    /\ UNCHANGED <<runnerVars, timed_out, os_error, status>>

\* scheduler.load_canonical reads the trace and the state back.
LoadCanonical ==
    /\ pc = "load"
    /\ \/ Torn("external_state") /\ Raise
       \/ /\ ~ Torn("external_state")
          /\ pc' = "done"
          /\ UNCHANGED <<files, runnerVars, timed_out, os_error, status>>

Host == ClearStale \/ Spawn \/ SpawnFails \/ RunnerDone \/ TimeoutExpires \/ Collect
        \/ PersistOutputs \/ PersistRawTrace \/ PersistResult \/ LoadCanonical

Runner == RunnerWrites \/ RunnerReports \/ RunnerCloses \/ RunnerExits

Next == Host \/ Runner

\* The thread always goes on: its wait is bounded by the timeout.  Nothing is
\* assumed of the runner.
Spec == Init /\ [][Next]_vars /\ WF_vars(Host)

-----------------------------------------------------------------------------
TypeOK ==
    /\ files \in [Files -> Content \cup {None}]
    /\ transport \in {"file", "stdout"}
    /\ ordered \in BOOLEAN
    /\ runner \in {"none", "running", "exited", "killed"}
    /\ open \in StaleFiles \cup {None}
    /\ rc \in {0, 1, None}
    /\ panic \in BOOLEAN
    /\ timed_out \in BOOLEAN
    /\ os_error \in BOOLEAN
    /\ status \in Status
    /\ pc \in {"clear", "spawn", "wait", "collect", "outputs", "trace", "state",
               "load", "done", "raised"}

\* A run whose result is used has every artifact the contract asks for, and none of
\* them stems from an earlier run with the same run id.
ArtifactsFreshAndComplete ==
    pc = "done" => \A f \in Required : files[f] # None /\ files[f].by # "old"

\* What the comparator will read is sound: the trace, the runner's own or the one the host
\* has built, and the state are whole files, and events are in order, those of a trace that
\* the runner wrote and those of an event list that arrived whole.  (A list that was cut at
\* the end of a line goes into the host's trace as far as it goes.)
EvidenceIsSound ==
    pc = "done" =>
       /\ \A f \in {"raw_trace", "external_state"} : ~ files[f].torn
       /\ files["raw_trace"].by = "runner" => ordered
       /\ files["events"] # None /\ ~ files["events"].torn => ordered

\* A run counts as ok only if the runner ended by itself, in time, and either
\* reported ok or returned 0 without a report.
OkIsEarned ==
    pc = "done" /\ status = "ok" =>
       /\ runner = "exited"
       /\ IF files["runner_result"] # None
            THEN files["runner_result"].status = "ok" /\ ~ files["runner_result"].torn
            ELSE rc = 0

\* Whatever the runner does, or fails to do, the thread gets its slot back.
RunEnds == <>(pc \in {"done", "raised"})
=============================================================================
