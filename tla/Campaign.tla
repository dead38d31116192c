------------------------------ MODULE Campaign ------------------------------
(***************************************************************************)
(* A campaign (orchestrator/scheduler.py: schedule_entries,                *)
(* schedule_entries_with_candidate_batch; orchestrator/vm_runner.py:       *)
(* execute_candidate_batch_with_context).  The main thread goes through    *)
(* phases; in most of them it hands one task per entry to a pool of        *)
(* threads, takes the futures as they complete, and puts each answer in    *)
(* the place the future was submitted for.                                 *)
(*                                                                         *)
(*   single    "one" ............................................ "done"   *)
(*   packaged  "prepare", per chunk ("package" "execute" "finalize")       *)
(*                                                                         *)
(* The third mode, one shared VM for a chunk, is left out: no adapter      *)
(* announces it, and the scheduler refuses it then (scheduler.py:798).     *)
(*                                                                         *)
(* What happens inside a task is the subject of CaseTriage and RunCase:    *)
(* here a task makes some runs, each inside the limiter, and ends.  A slot *)
(* is held by a run, not by its VM, which may outlive it (VmSlots).        *)
(***************************************************************************)
EXTENDS Integers, Sequences, FiniteSets

CONSTANTS
    N,           \* number of selected entries
    Modes,       \* batching modes: subset of {"single", "packaged"}
    JobCounts,   \* values of --jobs
    BatchSize,   \* effective_candidate_batch_size
    MaxVms,      \* parallel.max_concurrent_vms
    MaxRuns      \* bound: runs of a task on a kernel

ASSUME CampaignAssumption ==
    /\ N \in Nat
    /\ Modes \subseteq {"single", "packaged"}
    /\ JobCounts \subseteq Nat \ {0}
    /\ BatchSize \in Nat \ {0, 1}
    /\ MaxVms \in Int
    /\ MaxRuns \in Nat \ {0}

Entries == 1 .. N

Verdicts == {"judged", "infra_error", "batch_failed"}

NoVerdict == "none"

Row == [entry : Entries, verdict : Verdicts]

NoRow == [entry |-> 0, verdict |-> NoVerdict]

Limit == IF MaxVms < 1 THEN 1 ELSE MaxVms

VARIABLES
    mode, jobs,   \* configuration and command line
    phase,        \* where the main thread is
    task,         \* task[e]: the future of entry e in the current pool
    runs,         \* runs[e]: runs on a kernel this task has begun
    out,          \* out[e]: what the task returned
    raised,       \* an execute future raised in the main thread
    prepared,     \* prepared_results
    offset,       \* cases of pending that earlier chunks have taken
    batch,        \* batch_results: the cases with a candidate result
    finalized,    \* finalized_chunk, by the case whose place in the chunk it is
    results,
    free,         \* the limiter's counter
    output

vars == <<mode, jobs, phase, task, runs, out, raised, prepared, offset, batch,
          finalized, results, free, output>>

pool == <<task, runs, out, free>>
config == <<mode, jobs>>

-----------------------------------------------------------------------------
\* Zero-based place of entry e among the entries of S, in entry order.
Position(e, S) == Cardinality({d \in S : d < e})

\* pending: the prepared cases, in entry order.
Pending == {e \in Entries : prepared[e] = "pending"}

\* chunk: the next batch_size of them.
Chunk ==
    {e \in Pending : Position(e, Pending) \in offset .. offset + BatchSize - 1}

\* The entries that the pool of the current phase works on.
PoolEntries == IF phase \in {"one", "prepare"} THEN Entries ELSE Chunk

\* jobs <= 1 or len(...) <= 1: the main thread does the tasks itself.
Inline == jobs <= 1 \/ Cardinality(PoolEntries) <= 1

Busy == {e \in Entries : task[e] \in {"work", "wait", "run"}}

Submitted(S) == [e \in Entries |-> IF e \in S THEN "queued" ELSE "none"]

Init ==
    /\ mode \in Modes
    /\ jobs \in JobCounts
    /\ phase = IF mode = "single" THEN "one" ELSE "prepare"
    /\ task = Submitted(Entries)
    /\ runs = [e \in Entries |-> 0]
    /\ out = [e \in Entries |-> "none"]
    /\ raised = FALSE
    /\ prepared = [e \in Entries |-> "none"]
    /\ offset = 0
    /\ batch = {}
    /\ finalized = [e \in Entries |-> NoRow]
    /\ results = [e \in Entries |-> NoRow]
    /\ free = Limit
    /\ output = <<>>

-----------------------------------------------------------------------------
(* The pool's threads.                                                     *)

\* A thread takes the oldest queued task; without a pool the main thread does, once
\* it has dealt with the task before.
Start(e) ==
    /\ task[e] = "queued"
    /\ \A d \in Entries : d < e => task[d] # "queued"
    /\ Cardinality(Busy) < (IF Inline THEN 1 ELSE jobs)
    /\ Inline => ~raised /\ \A d \in Entries : task[d] # "ended"
    /\ task' = [task EXCEPT ![e] = "work"]
    /\ runs' = [runs EXCEPT ![e] = 0]
    /\ UNCHANGED <<config, phase, out, raised, prepared, offset, batch, finalized,
                   results, free, output>>

\* An executed case is one run; a prepared or finalized one, several.
RunBound == IF phase = "execute" THEN 1 ELSE MaxRuns

\* _run_case_with_semaphore: the task asks for a slot and waits until it has one.
AskSlot(e) ==
    /\ task[e] = "work"
    /\ runs[e] < RunBound
    /\ task' = [task EXCEPT ![e] = "wait"]
    /\ runs' = [runs EXCEPT ![e] = @ + 1]
    /\ UNCHANGED <<config, phase, out, raised, prepared, offset, batch, finalized,
                   results, free, output>>

\* Mutant: nobody waits for a slot.
Unlimited == TRUE

SlotFree == free > 0

BeginRun(e) ==
    /\ task[e] = "wait"
    /\ SlotFree
    /\ free' = free - 1
    /\ task' = [task EXCEPT ![e] = "run"]
    /\ UNCHANGED <<config, phase, runs, out, raised, prepared, offset, batch, finalized,
                   results, output>>

\* Mutant: the slot is not given back.
NotReleased == free

\* The limiter's counter once a run is over.
Released == free + 1

EndRun(e) ==
    /\ task[e] = "run"
    /\ free' = Released
    /\ task' = [task EXCEPT ![e] = "work"]
    /\ UNCHANGED <<config, phase, runs, out, raised, prepared, offset, batch,
                   finalized, results, output>>

\* What the task of entry e may return in this phase.  schedule_one,
\* prepare_case_safe and finalize_chunk_case turn an exception into a row;
\* an executed case lets it through.  A case without a batch result is not judged.
Outcomes(e) ==
    CASE phase = "one"      -> {"judged", "infra_error"}
      [] phase = "prepare"  -> {"judged", "infra_error", "pending"}
      [] phase = "execute"  -> {"raised"} \cup (IF runs[e] = 1 THEN {"ran"} ELSE {})
      [] phase = "finalize" -> {"infra_error"} \cup
                               (IF e \in batch THEN {"judged"} ELSE {})
      [] OTHER              -> {}

EndTask(e) ==
    /\ task[e] = "work"
    /\ out' \in {[out EXCEPT ![e] = o] : o \in Outcomes(e)}
    /\ task' = [task EXCEPT ![e] = "ended"]
    /\ UNCHANGED <<config, phase, runs, raised, prepared, offset, batch, finalized,
                   results, free, output>>

-----------------------------------------------------------------------------
(* The main thread: as_completed.                                          *)

\* Mutant: answers are kept in the order in which they come.
NextVacant(e) == CHOOSE k \in Entries :
    results[k] = NoRow /\ \A d \in Entries : d < k => results[d] # NoRow

\* future_map[future] of a task of schedule_one: the index it was submitted for.
FutureIndex(e) == e

Harvest(e) ==
    /\ task[e] = "ended"
    /\ ~raised
    /\ task' = [task EXCEPT ![e] = "none"]
    /\ CASE phase = "one" ->
              /\ results' = [results EXCEPT ![FutureIndex(e)] =
                                [entry |-> e, verdict |-> out[e]]]
              /\ UNCHANGED <<raised, prepared, batch, finalized>>
         [] phase = "prepare" ->
              /\ prepared' = [prepared EXCEPT ![e] = out[e]]
              /\ UNCHANGED <<raised, batch, finalized, results>>
         [] phase = "execute" ->
              /\ raised' = (out[e] = "raised")
              /\ batch' = IF out[e] = "ran" THEN batch \cup {e} ELSE batch
              /\ UNCHANGED <<prepared, finalized, results>>
         [] phase = "finalize" ->
              /\ finalized' = [finalized EXCEPT ![e] =
                                  [entry |-> e, verdict |-> out[e]]]
              /\ UNCHANGED <<raised, prepared, batch, results>>
    /\ UNCHANGED <<config, phase, runs, out, offset, free, output>>

\* Leaving the with block of the executor: all its tasks have ended, and have been
\* taken unless one of them raised.
PoolDrained ==
    IF raised THEN /\ Busy = {}
                   /\ Inline \/ \A e \in Entries : task[e] # "queued"
              ELSE \A e \in Entries : task[e] = "none"

-----------------------------------------------------------------------------
(* The main thread: phases.                                                *)

\* The rows of final cases are taken over.
Partition ==
    /\ phase = "prepare"
    /\ PoolDrained
    /\ results' = [e \in Entries |->
                     IF prepared[e] \in Verdicts
                     THEN [entry |-> e, verdict |-> prepared[e]] ELSE NoRow]
    /\ phase' = "next_chunk"
    /\ UNCHANGED <<config, pool, raised, prepared, offset, batch, finalized,
                   output>>

TakeChunk ==
    /\ phase = "next_chunk"
    /\ offset < Cardinality(Pending)
    /\ phase' = "package"
    /\ UNCHANGED <<config, pool, raised, prepared, offset, batch, finalized, results, output>>

\* prepare_candidate_batch_case for every case, then the package.
Package ==
    /\ phase = "package"
    /\ batch' = {}
    /\ phase' = "execute"
    /\ task' = Submitted(Chunk)
    /\ UNCHANGED <<config, runs, out, free, raised, prepared, offset, finalized,
                   results, output>>

Finalizing ==
    /\ phase' = "finalize"
    /\ task' = Submitted(Chunk)
    /\ finalized' = [e \in Entries |-> NoRow]

\* Every case of the chunk has its batch result.
Executed ==
    /\ phase = "execute"
    /\ PoolDrained
    /\ ~raised
    /\ Finalizing
    /\ UNCHANGED <<config, runs, out, free, raised, prepared, offset, batch, results, output>>

\* Mutant: the failure of a batch is charged to every pending case.
FailedAll == Pending

\* The entries that the failure of a batch is charged to.
FailedCases == Chunk

\* execute_candidate_batch_with_context raised: in its preparation, or once the executor that it unwinds through has ended its tasks.
ChunkFails ==
    /\ \/ phase = "package"
       \/ phase = "execute" /\ raised /\ PoolDrained
    /\ results' = [e \in Entries |->
                     IF e \in FailedCases
                     THEN [entry |-> e, verdict |-> "batch_failed"] ELSE results[e]]
    /\ task' = Submitted({})
    /\ raised' = FALSE
    /\ offset' = offset + BatchSize
    /\ phase' = "next_chunk"
    /\ UNCHANGED <<config, runs, out, free, prepared, batch, finalized, output>>

\* The index a finalized case carries; a place without one is skipped.
RowIndex(d) == finalized[d].entry

CollectChunk ==
    /\ phase = "finalize"
    /\ PoolDrained
    /\ results' = [e \in Entries |->
                     IF \E d \in Entries : RowIndex(d) = e
                     THEN finalized[CHOOSE d \in Entries : RowIndex(d) = e]
                     ELSE results[e]]
    /\ offset' = offset + BatchSize
    /\ phase' = "next_chunk"
    /\ UNCHANGED <<config, pool, raised, prepared, batch, finalized, output>>

\* The entries that have a row.
Judged == {e \in Entries : results[e] # NoRow}

\* return [result for result in results if result is not None]
Report ==
    /\ \/ phase = "one" /\ PoolDrained
       \/ phase = "next_chunk" /\ offset >= Cardinality(Pending)
    /\ output' = [k \in 1 .. Cardinality(Judged) |->
                     results[CHOOSE e \in Judged : Position(e, Judged) = k - 1]]
    /\ phase' = "done"
    /\ UNCHANGED <<config, pool, raised, prepared, offset, batch, finalized, results>>

MainThread ==
    \/ Partition \/ TakeChunk \/ Package \/ Executed
    \/ ChunkFails \/ CollectChunk \/ Report
    \/ \E e \in Entries : Harvest(e)

Task(e) == Start(e) \/ AskSlot(e) \/ BeginRun(e) \/ EndRun(e) \/ EndTask(e)

Next == MainThread \/ (\E e \in Entries : Task(e))

\* Threads are scheduled by the interpreter and every run ends at its timeout (RunCase).
\* Weak fairness is enough for the semaphore: a task makes finitely many runs, so a
\* slot cannot be taken away from a waiting task for ever.
Spec ==
    /\ Init /\ [][Next]_vars
    /\ WF_vars(MainThread)
    /\ \A e \in Entries : WF_vars(Task(e))

-----------------------------------------------------------------------------
Phases == {"one", "prepare", "next_chunk", "package", "execute", "finalize", "done"}

\* What the scheduler keeps has its type; its slots are never overdrawn, and none is
\* given back that was not taken.
TypeOK ==
    /\ mode \in Modes
    /\ jobs \in JobCounts
    /\ phase \in Phases
    /\ task \in [Entries -> {"none", "queued", "work", "wait", "run", "ended"}]
    /\ runs \in [Entries -> 0 .. MaxRuns]
    /\ out \in [Entries -> {"none", "judged", "infra_error", "pending", "ran", "raised"}]
    /\ raised \in BOOLEAN
    /\ prepared \in [Entries -> {"none", "judged", "infra_error", "pending"}]
    /\ offset \in Nat
    /\ batch \subseteq Entries
    /\ finalized \in [Entries -> Row \cup {NoRow}]
    /\ results \in [Entries -> Row \cup {NoRow}]
    /\ free \in 0 .. Limit
    /\ \A k \in DOMAIN output : output[k] \in Row

\* The number of the chunk that takes pending case e.
ChunkOf(e) == Position(e, Pending) \div BatchSize

\* The failure of a batch is charged to the cases of that batch and to nobody else:
\* cases of the same chunk fail together, and a case that was final before the batch
\* started, or is still pending, is not touched.
FailureIsContained ==
    phase = "next_chunk" =>
      \A e \in Entries : results[e].verdict = "batch_failed" =>
        /\ prepared[e] = "pending"
        /\ Position(e, Pending) < offset
        /\ \A d \in Entries :
             /\ prepared[d] = "pending"
             /\ ChunkOf(d) = ChunkOf(e)
             => results[d].verdict = "batch_failed"

\* A campaign ends, with inline execution, pools, failing batches and all.
CampaignEnds == <>(phase = "done")

\* The campaign implements CampaignResults: one row per entry, judged once, reported
\* in entry order.  No chunk, late future or failure of another batch replaces the row
\* of an entry that has one.
Results == INSTANCE CampaignResults
             WITH verdict <- [e \in Entries |-> results[e].verdict], report <- output

Refines == Results!Spec
=============================================================================
