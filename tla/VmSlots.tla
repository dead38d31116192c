------------------------------- MODULE VmSlots -------------------------------
(***************************************************************************)
(* The VM limiter and the process trees under it (core/concurrency.py,     *)
(* vm_runner._run_case_with_semaphore, runners/command.py).  A scheduler   *)
(* thread takes a slot of the semaphore, starts a runner process in a      *)
(* session of its own, waits for it, and gives the slot back.  The runner  *)
(* starts the VM in yet another session (targets/asterinas/runtime.py,     *)
(* targets/tgoskits_starryos/api.py) and stops it before it ends.  A       *)
(* runner that is late is killed by process group.                         *)
(***************************************************************************)
EXTENDS Integers, FiniteSets

CONSTANTS
    Threads,     \* the scheduler's worker threads
    Settings,    \* values of parallel.max_concurrent_vms
    MaxRuns      \* bound: runs per thread

ASSUME SlotsAssumption ==
    /\ IsFiniteSet(Threads)
    /\ Settings \subseteq Int
    /\ MaxRuns \in Nat

\* Mutant: a limit of zero is taken as it is.
LimitAsGiven(m) == m

\* ConcurrencyLimiter.__init__
Limit(m) == IF m < 1 THEN 1 ELSE m

VARIABLES
    max_vms,   \* the configured limit
    free,      \* the semaphore's counter
    runs,      \* runs[t]: runs that thread t has begun
    runners,   \* <<t, n>>: the runner of t's n-th run is alive
    vms,       \* <<t, n>>: the VM of t's n-th run is alive
    at

slotsVars == <<max_vms, free, runs, runners, vms, at>>

Run(t) == <<t, runs[t]>>

-----------------------------------------------------------------------------
SlotsInit ==
    /\ max_vms \in Settings
    /\ free = Limit(max_vms)
    /\ runs = [t \in Threads |-> 0]
    /\ runners = {}
    /\ vms = {}
    /\ at = [t \in Threads |-> "idle"]

Goto(t, label) == at' = [at EXCEPT ![t] = label]

\* Entering the limiter.
Acquire(t) ==
    /\ at[t] = "idle"
    /\ runs[t] < MaxRuns
    /\ free > 0
    /\ free' = free - 1
    /\ runs' = [runs EXCEPT ![t] = @ + 1]
    /\ Goto(t, "spawn")
    /\ UNCHANGED <<max_vms, runners, vms>>

\* Popen with start_new_session, or an OSError.
StartRunner(t) ==
    /\ at[t] = "spawn"
    /\ \/ runners' = runners \cup {Run(t)} /\ Goto(t, "wait")
       \/ UNCHANGED runners /\ Goto(t, "release")
    /\ UNCHANGED <<max_vms, free, runs, vms>>

\* communicate returns: the runner has ended.
RunnerEnded(t) ==
    /\ at[t] = "wait"
    /\ Run(t) \notin runners
    /\ Goto(t, "release")
    /\ UNCHANGED <<max_vms, free, runs, runners, vms>>

WaitExpires(t) ==
    /\ at[t] = "wait"
    /\ Goto(t, "killpg")
    /\ UNCHANGED <<max_vms, free, runs, runners, vms>>

\* Mutant: the signal does not reach the runner.
KilledNothing(t) == runners

\* What a kill of t's runner's process group leaves of the runners.
KilledGroup(t) == runners \ {Run(t)}

\* _cleanup_process: killpg reaches the runner's session, wait reaps the runner.
\* The VM is in another session.
KillGroup(t) ==
    /\ at[t] = "killpg"
    /\ runners' = KilledGroup(t)
    /\ Goto(t, "children")
    /\ UNCHANGED <<max_vms, free, runs, vms>>

\* _cleanup_process: psutil.Process(pid) of the reaped runner raises
\* NoSuchProcess, so no child is looked for; communicate then returns.
KillChildren(t) ==
    /\ at[t] = "children"
    /\ Goto(t, "release")
    /\ UNCHANGED <<max_vms, free, runs, runners, vms>>

\* Mutant: the slot of a run that timed out is given back twice.
ReleasedTwice(t) == free + 2

\* The semaphore's counter after thread t leaves the limiter.
Released(t) == free + 1

Release(t) ==
    /\ at[t] = "release"
    /\ free' = Released(t)
    /\ Goto(t, "idle")
    /\ UNCHANGED <<max_vms, runs, runners, vms>>

-----------------------------------------------------------------------------
(* The runner and the VM.                                                  *)

StartVm(t) ==
    /\ Run(t) \in runners
    /\ Run(t) \notin vms
    /\ vms' = vms \cup {Run(t)}
    /\ UNCHANGED <<max_vms, free, runs, runners, at>>

\* The VM shuts down by itself, or its runner stops it.
VmEnds(v) ==
    /\ v \in vms
    /\ vms' = vms \ {v}
    /\ UNCHANGED <<max_vms, free, runs, runners, at>>

\* A runner ends after it has stopped its VM.
RunnerLeaves(t) ==
    /\ Run(t) \in runners
    /\ Run(t) \notin vms
    /\ runners' = runners \ {Run(t)}
    /\ UNCHANGED <<max_vms, free, runs, vms, at>>

Thread(t) ==
    \/ Acquire(t) \/ StartRunner(t) \/ RunnerEnded(t) \/ WaitExpires(t)
    \/ KillGroup(t) \/ KillChildren(t) \/ Release(t)

SlotsNext ==
    \/ \E t \in Threads : Thread(t) \/ StartVm(t) \/ RunnerLeaves(t)
    \/ \E v \in vms : VmEnds(v)

\* The threads go on; a wait ends with the timeout at the latest.  A thread that
\* waits for a slot gets one of the slots that are given back: the number of runs
\* is finite, so no other thread can take them for ever.
SlotsSpec == SlotsInit /\ [][SlotsNext]_slotsVars /\ \A t \in Threads : WF_slotsVars(Thread(t))

-----------------------------------------------------------------------------
Holding == {"spawn", "wait", "killpg", "children", "release"}

SlotsTypeOK ==
    /\ max_vms \in Settings
    /\ free \in 0 .. Limit(max_vms)
    /\ runs \in [Threads -> 0 .. MaxRuns]
    /\ runners \subseteq Threads \X (1 .. MaxRuns)
    /\ vms \subseteq Threads \X (1 .. MaxRuns)
    /\ at \in [Threads -> {"idle"} \cup Holding]

\* The limiter bounds the runners, with a limit of at least one: a slot is given back only
\* after its runner is gone, so at most that many runners, of any runs, are ever alive.
RunnersBounded ==
    /\ Cardinality(runners) <= Limit(max_vms)
    /\ \A r \in runners : at[r[1]] \in {"wait", "killpg"} /\ r[2] = runs[r[1]]

\* Every thread gets through its runs: no slot is held for ever and nobody waits
\* for a slot that never comes.
AllRunsEnd == <>(\A t \in Threads : at[t] = "idle" /\ runs[t] = MaxRuns)
=============================================================================
