----------------------------- MODULE AsterinasRun -----------------------------
(***************************************************************************)
(* One run of an Asterinas runner, after the files of PackageBundle are    *)
(* there (runtime.py: docker_qemu_run; api.py: main).  The VM is started   *)
(* from the shared bundle; the guest prints its sections one after the     *)
(* other on the console, while the runner reads the console once a second, *)
(* decides whether the run is over, stops the VM and writes the result.    *)
(***************************************************************************)
EXTENDS PackageBundle

VARIABLES
    vm,        \* vm[r]: "off", "up", "down" (it ended by itself) or "stopped" (by r)
    console,   \* console[r]: the last section that the guest has printed
    panicked,  \* panicked[r]: the console shows a kernel panic
    phase,     \* phase[r]: where r is in its run
    report     \* report[r]: status in runner-result.json; "exited": as PROCESS_EXIT has it

runVars == <<vm, console, panicked, phase, report>>

allVars == <<vars, runVars>>

\* The guest's init prints PROCESS_EXIT first and EXTERNAL_STATE last; STDOUT, STDERR and
\* EVENTS come in between.
Sections == <<"silent", "exit", "state">>

RunInit ==
    /\ Init
    /\ vm = [r \in Runners |-> "off"]
    /\ console = [r \in Runners |-> "silent"]
    /\ panicked = [r \in Runners |-> FALSE]
    /\ phase = [r \in Runners |-> "waiting"]
    /\ report = [r \in Runners |-> "none"]

Set(f, r, value) == [f EXCEPT ![r] = value]

-----------------------------------------------------------------------------
(* The VM                                                                  *)

\* Popen: from here on the container runs the bundle that is there.
StartVm(r) ==
    /\ Boot(r)
    /\ vm' = Set(vm, r, "up") /\ phase' = Set(phase, r, "watch")
    /\ UNCHANGED <<console, panicked, report>>

\* A VM is followed as long as its runner is there.
Watched(r) == vm[r] = "up" /\ phase[r] # "over"

\* A whole package runs the case that r asks for, the warm-up's image its only one.
Prints(r) ==
    /\ Watched(r) /\ ~panicked[r]
    /\ booted[r].image \in {"minimal", "complete"}
    /\ \E i \in 1 .. 2 : console[r] = Sections[i] /\ console' = Set(console, r, Sections[i + 1])
    /\ UNCHANGED <<vars, vm, panicked, phase, report>>

\* The case crashes the kernel, or there is no init to start.
Panics(r) ==
    /\ Watched(r) /\ booted[r].image # "partial"
    /\ panicked' = Set(panicked, r, TRUE)
    /\ UNCHANGED <<vars, vm, console, phase, report>>

\* The guest powers off, reboots into -no-reboot, or QEMU dies.
EndsByItself(r) ==
    /\ Watched(r)
    /\ vm' = Set(vm, r, "down")
    /\ UNCHANGED <<vars, console, panicked, phase, report>>

-----------------------------------------------------------------------------
(* The runner                                                              *)

Has(r, section) ==
    \E i, j \in 1 .. 3 : i <= j /\ Sections[i] = section /\ Sections[j] = console[r]

\* Mutant: the first section is taken for the whole output.
ExitSeen(r) == Has(r, "exit")

MarkersComplete(r) == Has(r, "exit") /\ Has(r, "state")

\* guest_crash_detail
CrashShown(r) == panicked[r]

\* force_remove_container and stop_process.
Stopped(r) == IF vm[r] = "up" THEN Set(vm, r, "stopped") ELSE vm

Reports(r, status) ==
    report' = Set(report, r, status) /\ phase' = Set(phase, r, "over")

\* One look at the console: a panic with no section is the result, the last section ends
\* the run.
Look(r) ==
    /\ phase[r] = "watch"
    /\ \/ /\ ~Has(r, "exit") /\ CrashShown(r)
          /\ Reports(r, "crash")
          /\ vm' = Stopped(r)
       \/ /\ ~(~Has(r, "exit") /\ CrashShown(r))
          /\ UNCHANGED report
          /\ IF MarkersComplete(r)
             THEN vm' = Stopped(r) /\ phase' = Set(phase, r, "finish")
             ELSE phase' = Set(phase, r, "check") /\ UNCHANGED vm
    /\ UNCHANGED <<vars, console, panicked>>

\* Then, with that look in mind: has the VM ended, has the deadline passed?
Check(r) ==
    /\ phase[r] = "check"
    /\ phase' = Set(phase, r, IF vm[r] = "down" THEN "finish" ELSE "watch")
    /\ UNCHANGED <<vars, vm, console, panicked, report>>

Overdue(r) ==
    /\ phase[r] = "check" /\ vm[r] = "up"
    /\ vm' = Stopped(r) /\ phase' = Set(phase, r, "late")
    /\ UNCHANGED <<vars, console, panicked, report>>

\* With no PROCESS_EXIT: a crash if the console shows one, otherwise RunnerError.
WithoutMarkers(r) == IF CrashShown(r) THEN "crash" ELSE "infra_error"

\* The console is read once more.  A section that is not JSON raises an error that nothing
\* catches; a section that is missing is empty.
Finish(r) ==
    /\ phase[r] = "finish"
    /\ \/ Has(r, "exit") /\ Reports(r, "exited")
       \/ ~Has(r, "exit") /\ Reports(r, WithoutMarkers(r))
       \/ Has(r, "exit") /\ phase' = Set(phase, r, "over") /\ UNCHANGED report
    /\ UNCHANGED <<vars, vm, console, panicked>>

\* main, except TimeoutExpired: a crash on the console counts for more than the timeout,
\* unless the revision cannot be read.
Late(r) ==
    /\ phase[r] = "late"
    /\ \/ CrashShown(r) /\ Reports(r, "crash")
       \/ Reports(r, "timeout")
    /\ UNCHANGED <<vars, vm, console, panicked>>

\* run_case's own timeout: the runner is killed, its container is not.
KillWatcher(r) ==
    /\ phase[r] \notin {"waiting", "over"}
    /\ kills < MaxKills
    /\ kills' = kills + 1
    /\ phase' = Set(phase, r, "over")
    /\ UNCHANGED <<checkout, home, packed, built, bundleLock, expected, label, booted, pc,
                   vm, console, panicked, report>>

-----------------------------------------------------------------------------
Watcher(r) == StartVm(r) \/ Look(r) \/ Check(r) \/ Overdue(r) \/ Finish(r) \/ Late(r)

RunNext ==
    \/ Next /\ UNCHANGED runVars
    \/ \E r \in Runners :
          \/ Watcher(r)
          \/ Prints(r) \/ Panics(r) \/ EndsByItself(r) \/ KillWatcher(r)

\* The guest owes nothing: only the runners, the build container and the clock go on.  A
\* runner that checks again and again finds its deadline passed one day.
RunSpec ==
    /\ RunInit /\ [][RunNext]_allVars
    /\ \A p \in Procs : WF_allVars(Step(p) /\ UNCHANGED runVars)
    /\ \A r \in Runners :
          /\ WF_allVars(Prepares(r) /\ UNCHANGED runVars)
          /\ WF_allVars(Watcher(r))
          /\ SF_allVars(Overdue(r))
    /\ WF_allVars(ContainerEnds /\ UNCHANGED runVars)

-----------------------------------------------------------------------------
RunTypeOK ==
    /\ TypeOK
    /\ vm \in [Runners -> {"off", "up", "down", "stopped"}]
    /\ console \in [Runners -> {Sections[i] : i \in 1 .. 3}]
    /\ panicked \in [Runners -> BOOLEAN]
    /\ phase \in [Runners -> {"waiting", "watch", "check", "finish", "late", "over"}]
    /\ report \in [Runners -> {"none", "exited", "crash", "infra_error", "timeout"}]

\* A result is about what the guest had printed when its VM ended.  "exited" is of a VM
\* that ran the package, not the warm-up's case, and after a stop by the runner it has
\* every section; "crash" has a panic; "infra_error" neither hides a panic nor throws away
\* an exit status; "timeout" is of a VM that did not end by itself.
VerdictIsOfTheConsole ==
    \A r \in Runners :
        /\ report[r] = "exited" => /\ Has(r, "exit") /\ booted[r].image = "complete"
                                   /\ vm[r] = "stopped" => Has(r, "state")
        /\ report[r] = "crash" => panicked[r]
        /\ report[r] = "infra_error" => vm[r] = "down" /\ ~panicked[r] /\ ~Has(r, "exit")
        /\ report[r] = "timeout" => vm[r] = "stopped"

\* No runner waits for ever, whatever its guest does: for a lock whose holder was killed,
\* for a build, or for a VM that neither speaks nor ends.
RunsEnd ==
    <>(\/ pc[Scheduler] = "raised"
       \/ \A r \in Runners : pc[r] \in {"raised", "killed"} \/ phase[r] = "over")
=============================================================================
