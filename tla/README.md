# SysABI: TLA+ specifications

SysABI runs generated system-call programs on a reference kernel (Linux) and on
a candidate kernel (Asterinas, StarryOS, ArceOS, a second Linux), records one
event per system call, and reports the programs whose behaviour differs. Its
own correctness decides whether such a report can be believed: a verdict must
rest on complete, fresh evidence of a stable baseline; no row of a campaign may
be lost or misplaced by its threads; and VMs, locks and shared build outputs
must survive timeouts and kills. These modules model that core.

Paths below are relative to the repository's root. `PROJECT.json` maps every
definition to its source lines.

## 1. Inventory

| component | state | operations | interacts with |
|---|---|---|---|
| campaign scheduler, `orchestrator/scheduler.py` | prepared cases, chunk offset, batch results, result rows | prepare, package, execute, finalize, collect; triage reruns; rows for failures | thread pools, `vm_runner`, comparator, classifier, SCML preflight status |
| run of one case, `orchestrator/vm_runner.py` | artifact directory of a run | clear, run, collect, persist trace, state and result; candidate batches | runner process (through files), limiter, scheduler |
| process runners, `runners/`, `core/concurrency.py` | semaphore, child processes | acquire, spawn, wait, timeout, kill, release | runner processes and their VMs |
| normaliser, `analyzer/normalize.py` | the numbers that a trace has used so far, by kind | canonicalize | comparator |
| comparator, classifier, `analyzer/`, `orchestrator/stability.py` | none (pure) | hash, compare, classify | scheduler, reducer |
| reducer, `tools/reduce_case.py` | current program, its file, evidence, flags | replay, preflight, drop a call, confirm, accept, report | `vm_runner`, SCML gate, `cmd/syzabi_mutate`, report generator |
| Asterinas package and bundle, `targets/asterinas/` | packaged initramfs, bundle with stamp and metadata, shared cargo home, the checkout and its revision | synchronise, pack, copy, build in Docker, stamp | file locks, Docker daemon, other workflows |
| Asterinas target run, `targets/asterinas/runtime.py`, `api.py` | console, VM, deadline, report | boot, watch, stop, recover a crash, report | the bundle, QEMU, orchestrator (through files) |
| StarryOS target, `targets/tgoskits_starryos/` | shared disk image and its record, private copy, shell session | prepare, copy, install, boot, command, close | other runners (through the image), guest shell |
| ArceOS target, `targets/tgoskits_arceos/` | work tree of hard links, cargo configuration, disk image | link, configure, make, restore, read the image | other runners (through the links), make, QEMU |
| qemu_linux target | disk image, one VM | build initramfs, boot, collect | QEMU |
| build cache, `tools/prog2c_wrap.py` | binaries by key | look up, build, store | corpus, scheduler |
| SCML gate, `targets/asterinas/scml.py`, `tools/preflight_scml_gate.py` | evidence per program; eligible and rejected programs, summary | build, trace, match, classify, publish | scheduler, reducer |
| corpus tools, reports, host maintenance, registry, configuration | files | sequential transformations | all of the above through files |

What is hard here:

* **Interleavings.** Futures complete in any order and rows pass through three
  index spaces; runners of one package, image or checkout share files, some of them
  as hard links; a runner writes while the orchestrator waits.
* **Timeouts and kills.** A runner may hang, report just before it is killed, be
  killed in the middle of a write or with a lock, or leave a VM or a container behind.
* **Partial failure.** A case of a batch raises; a rerun raises; a build, a copy or
  one task of a sweep fails.
* **Stale state.** The checkout moves between the build of a bundle and the label of
  a result; caches go by content and time of what was edited and set back.
* **Unreliable consoles.** Sections, echoes and prompts arrive in pieces, or not at
  all, from a guest that may crash between any two of them.
* **Flaky kernels.** Statuses and traces change between a run and its reruns.
* **Resource limits.** Slots must come back on every path; a limit of zero must
  not lock the campaign up; a VM may outlive the slot of the run that started it.

What makes each component correct: a campaign reports every entry once, in order; a
case is judged on fresh, complete and stable evidence; the comparison depends on what
a kernel did and not on the numbers it hands out; a VM boots what its report names; a
result says what the console showed; a shared file is used only when it is whole; a
published list is backed by its evidence; and everybody ends.

The hazards, each at its line and with the properties aimed at it, are in
`PROJECT.json`.

## 2. Modules

| module | models | state | actions |
|---|---|---|---|
| `Compare` | `compare_canonical`, one step per pair of events | the two traces, position, index, flags, result | `CompareCounts`, `CompareEvent`, `EventsExhausted`, `CompareState` |
| `CaseTriage` | one case: `prepare_case`, `finalize_prepared_case`, `_run_triage_loop`, `classify_result`, `scml_result_bucket` | lists of statuses and hashes, current traces, comparison, row; `refLog`/`candLog` record what the kernels did and are read by properties only | one per run, rerun and outcome, and one per place where an exception is caught |
| `RunCase` | `execute_side`, `execute_prepared_candidate_case`, `CommandRunner.run_case`, beside a runner process | the artifact directory, the runner, the `RunnerExecution` | the host's steps `Host` and the runner's steps `Runner` |
| `VmSlots` | `ConcurrencyLimiter`, `_run_case_with_semaphore`, `_cleanup_process`, the runner's VM | semaphore, live runners, live VMs | `Acquire` ... `Release` of a thread; VM and runner on their own |
| `Campaign` | `schedule_entries`, `schedule_entries_with_candidate_batch`, `execute_candidate_batch_with_context` | phase, futures, prepared cases, chunk, batch, rows, limiter | the pool's threads (`Task`) and the main thread (`MainThread`) |
| `CampaignResults` | what a campaign promises: each entry judged once, one row per entry, in order | verdicts, report | `Judge`, `Publish` |
| `Reducer` | `greedy_reduce`, `_confirm_divergence`, recovery of recorded evidence, the report | the files `drop-<i>`, the current program, its evidence and whether that is fresh or recorded | `Replay` ... `Accept`, `Report` |
| `Normalize` | `canonicalize` and its `CanonicalContext`, composed with `Compare` | the two raw traces, and the state of `Compare` | those of `Compare`; canonicalization is an operator |
| `PackageBundle` | `ensure_revision`, `ensure_packaged_initramfs`, `ensure_packaged_docker_bundle`, `ensure_shared_package_cargo_home`, warm-up | shared files, locks, checkout, container | the processes' steps, `OthersSync`, `ContainerEnds`, `Kill` |
| `AsterinasRun` | `docker_qemu_run` from the start of the VM, `main`; extends `PackageBundle` | VM, console, phase and report of each runner | `StartVm` ... `Late` of a runner; `Prints`, `Panics`, `EndsByItself` of its guest |
| `StarryTarget` | `prepare_target`, `prepare_isolated_qemu_config`, `install_binary_into_rootfs`, `ShellSession`, `run_case`, `healthcheck` | the record of the image and its lock, image and QEMU template, copies, VMs, what was heard, reports | one per step of a runner, `GuestWrites`, `Kill` |
| `ArceosReplay` | `run_case` and `main`, with `_copytree_with_links` and the managed cargo configuration | the configuration files and who names which, results, outputs, exceptions | one per step of a runner, `Kill` |
| `FatVolume` | the reader of FAT images that makes the external state | none | none (operators) |
| `ScmlGate` | `run_preflight_entries`, `run_preflight`, `main` of the preflight; `AsterinasSCMLGate` | the sweep and its tasks, evidence, published files | `Begin`, a task's `Take` ... `Raise`, `Publish` and the three writes, `Kill` |
| `BuildCache` | `build_one`, `load_cached_build_result`, `build_status_ok` | inputs with content and time, generated code, two binaries, `build-result.json`, the local variables of `build_one` | `TakeFingerprints` ... `EndReport`; `Edit`, `Interrupt` |
| `Compare_proofs`, `CaseTriage_proofs`, `RunCase_proofs`, `StarryTarget_proofs`, `AsterinasRun_proofs`, `ArceosReplay_proofs`, `Campaign_proofs`, `Tools_proofs` | theorems: `Compare_proofs` also about `Normalize`, `RunCase_proofs` also about `VmSlots`, `ArceosReplay_proofs` also about `FatVolume`, `Tools_proofs` about `ScmlGate`, `Reducer` and `BuildCache`. The specifications proved about together have definitions of distinct names for it | | |
| `MCCompare`, `MCCaseTriage`, `MCReducer`, `MCBuildCache`, `MCArceos`, `MCScmlGate` | finite instances | | |

The modules fit together by what each takes from another.

* `Normalize` hands its canonical traces to `Compare`; `CaseTriage` uses of a
  comparison what `Compare` shows of it, and takes the outcome of a run, which
  `RunCase` produces, as an input.
* `Campaign` takes the verdict of a case as an input and implements `CampaignResults`
  under the mapping `verdict <- results`, `report <- output`. It has the limiter at
  the level of tasks; `VmSlots` has it together with the processes that a slot
  stands for.
* The runner process of `RunCase` writes whatever it likes; `AsterinasRun`,
  `StarryTarget` and `ArceosReplay` say what three of the targets really write.
* `AsterinasRun` takes the files of `PackageBundle` and goes on from its `Boot`, in one
  behaviour: while one runner watches its VM another may still build.
* What `ScmlGate` publishes is the preflight status of `CaseTriage` and `Reducer`, and
  what `BuildCache` leaves in a build directory is what a campaign then runs.

**Abstractions.** A canonical trace in `CaseTriage` has two parts: its behaviour,
which is all that `compare_canonical` compares, and its noise, which only
`canonical_trace_hash` sees. `RunCase` keeps of a file who wrote it, whether it was
cut short, and the status it carries. A program in `Reducer` is the sequence of its
calls. `Campaign` takes the list of pending cases, and a slice of it, as the set of
cases it holds: the list is in the order of the entries at all times, so that the
place of a case in it is the number of its members before (`Position`). An image in
`PackageBundle` is what it was made from and of which revision. A console is the
sections it shows (`AsterinasRun`) or the markers and events in their order
(`StarryTarget`). A line of sctrace is the call it is of and the name that can be
read in it. Raw numbers in `Normalize` are numbers; buffers are labelled values.
Definitions introduced by a comment that starts with "Mutant:" are not part of the
model: each is a deviation of the definition after it, used to see that a property
can fail.

`Classify` keeps the branch of `finalize_prepared_case` that recomputes the
comparison when all hashes agree. It is dead: the hash covers the field `side`, so
hashes of the two kernels always differ (`TypeOK` of `CaseTriage` shows the sides,
and the proof needs no case for the branch beyond its being harmless).

## 3. Runs

All runs finish within about two and a half minutes on two cores.

| run | instance | distinct states | shows |
|---|---|---|---|
| `compare` | all pairs of raw traces of at most 2 events out of 16, some of 3 | 368,820 | the early exits of the walk lose nothing; the index is the first difference of traces of one length; the verdict ignores which numbers a kernel hands out and nothing else |
| `triage` | 2 reruns, 4 statuses, 2 behaviours x 2 noises | 1,656,939 | verdicts on the candidate rest on a stable baseline, agree with the last thing it did, and are never made on one run unless the case is clean; a rerun that raises leaves no row that says whether the kernels agree |
| `run_case` | one run in a new or a used directory | 379,904 | whatever the runner does: every artifact is there and none is old, the trace handed on is the runner's own or one the host built, and whole, `ok` only if earned, and the thread comes back |
| `vm_slots` | 3 threads, 2 runs each, limits 0 and 2 | 33,257 | runners are bounded by a limit of at least one; every run ends |
| `campaign` | 4 entries, chunks of 2, 1 or 3 jobs, 2 modes | 236,024 | slots are never overdrawn; a failing batch is charged to its own cases; the campaign ends and implements `CampaignResults` |
| `reducer` | 3 calls, 3 confirmations, flaky or steady programs | 19,297 | reports with the SCML overlay are sound, fresh and recorded evidence are never mixed up, the program handed out is the one of the evidence and diverges; the reduction ends |
| `bundle` | 2 runners, 1 kill, 1 move of the checkout, package new or packed | 594,207 | a package that was packed before boots from its own bundle; the label names the kernel that ran; no builder starts from a cargo home that its own copy left partial; a result says what the console showed; every runner ends |
| `starry` | 2 runners, cases or health checks, with or without a QEMU template, 1 kill, answers of up to 3 pieces | 757,762 | `ok` is of the runner's own command and, with a template, of its own program; copies that are booted are whole; nobody waits for ever |
| `arceos` | 2 runners, linked or copied trees, 1 kill | 72,241 | the user's configuration is never written to and a managed one is put back; `ok` has a trace, a state and a clean build. `FatVolume` is evaluated: 12-bit entries, kinds, damaged tables, directory trees |
| `arceos_timeout` | 1 runner | | fails, see below |
| `scml_gate` | 2 programs, 2 threads, 2 sweeps, 1 kill, 6 outputs | 2,097,239 | published lists are whole and backed by the evidence beside them |
| `build_cache` | 2 edits, 3 builds, 2 contents | 12,354,845 | the cache accepts only directories that are up to date; both kernels get the same program |

**Why these bounds.** Two events suffice for a pair before, at and after a
divergence, and for a number that is given out and used; three for one that is given
out second, and closed. With two reruns a list of hashes can differ in its first, middle or
last place. Three threads and two slots let one thread wait while two hold a slot.
Two runners of a package are a builder and one who waits, or one who is served while
the other rebuilds; the scheduler is a third process. One kill can hit whoever holds a
lock, and one move of the checkout can come between any two looks at it. An answer of
three pieces has begin, events and exit in all orders, and echoes in place of each.
Two sweeps give one whose evidence the other overwrites. Four entries in
chunks of two give a second chunk, a chunk of one case (run inline), and final
cases in between. In a program of three calls an accepted trial's file can be
overwritten before later trials of the pass are derived from it. Two edits and three
builds let an input change during a build and change back, and a third build look at
what the second, interrupted, one left. `Status` leaves
out `crash` and `candidate_bug`, which every definition treats like `timeout`.
Behaviours and noises are compared for equality only, so that `triage`, which
checks no liveness, uses them as symmetry sets; so does `build_cache` with its
contents.

The type invariants of `Compare`, `Reducer`, `ArceosReplay` and `BuildCache` are not among
the properties of the runs; those of all but `Reducer` are theorems.

**Deadlock** is not checked by TLC itself: every one of these programs ends.
Wherever a process could be stuck instead, a liveness property says that it is not
(`RunEnds`, `AllRunsEnd`, `CampaignEnds`, `Terminates`, `RunsEnd`, `RunnersEnd`).

**Fairness.** Only steps of threads and processes that the host schedules are
weakly fair. Nothing is assumed of a runner in `RunCase` or of runners and VMs in
`VmSlots`: `communicate(timeout=...)` bounds the wait, and after `killpg` the pipes
are closed, since VMs write to files and pseudo-terminals of their own. A waiting
thread needs no strong fairness, because the number of runs is finite. In
`PackageBundle` the Docker build is fair: its `docker run` has no timeout
(`targets/asterinas/cache_support.py:553`), and is taken to end by itself.
The guests of `AsterinasRun` owe nothing, they may stay silent for ever; the
strong fairness of `Overdue` says that a runner which looks at a monotonic clock again
and again finds its deadline passed one day. In `StarryTarget` every read of the console
and every prepare command has a deadline; the copy and `debugfs` have none and work on
local files, so that they are taken to end by themselves. A runner always has a step, if
only one that fails; a lock is free again after its holder's next steps or its death.
Nothing is assumed of `GuestWrites`.

### Where code and documentation disagree

One run is expected to fail; `PROJECT.json` quotes the lines.

* `arceos_timeout`: `subprocess.TimeoutExpired` carries bytes although the call asked for
  text. The handler of a make that is out of time adds them to a string, and the
  TypeError ends the runner without the result that it was about to write. The test of
  that handler has a make that prints nothing.

Met while modelling, without a run of its own:

* A VM has a session of its own (`targets/asterinas/runtime.py:315`), so `killpg` does not
  reach it, and the search for children comes after the runner was reaped
  (`runners/command.py:49`). It goes on while its slot is reused, so that more VMs may run
  than the limit, against `docs/architecture/multi-vm-concurrency-assessment.md:98`.
  `RunnersBounded` is said of runners, not of VMs, for this reason, and `Campaign` counts
  slots only.
* Without a QEMU template, or with one that does not name the image, a StarryOS case boots
  the image that all runners share, in which its program was not installed, and may end `ok`
  there (`targets/tgoskits_starryos/api.py:643`). The docstring leaves it to the caller to
  see that the copy is used (`:234`), and the caller does not; the assessment (`:85`)
  promises full isolation. `tests/test_tgoskits_targets.py:109` runs a case in this way.
  `OkIsOwnRun` says less of such cases, and `CopiesAreWhole` excepts VMs on the shared
  image, whose guests write under the copies of others.
* The private work trees of ArceOS are hard links, and the managed cargo configuration is
  written, and put back, in place (`targets/tgoskits_arceos/api.py:322`). Concurrent runners
  share it with each other and with the checkout: one of them builds with what another has
  put back, and may still end `ok`. The assessment (`:86`) promises full isolation, and so
  does the comment at `:734`. `CheckoutKept` and `OkIsEarned` except runs that overlap.
* Without the SCML overlay `greedy_reduce` does not look at the comparison of the
  fresh replay, so that a program which no longer diverges is reported as confirmed
  (`tools/reduce_case.py:576`).
* `build_one` leaves the old `build-result.json` in place while it rebuilds. After an
  interruption it still says `ok`, a campaign goes by that word alone, and the
  binaries of the two kernels may differ; if an input was put in place during the build
  that it records, or one is put in place with an old time of
  its own (`mv`, `cp -p`), even the cache accepts what the interrupted build left.
  These are the exceptions in `KernelsGetTheSameProgram` and `HitIsFresh`.
* `agent/linux/trace.h` is compiled into every test case and is not among the
  fingerprinted inputs (`tools/prog2c_wrap.py:226`).
* A candidate that was `ok` and whose rerun raises is counted as
  `passed_scml_but_reference_failed` (`orchestrator/scheduler.py:469`), although the
  reference kernel did not fail: the row is made of what `prepare_case` had
  (`core/constants.py:67`, `tests/test_asterinas_pipeline.py:1592`).
* A trial of the reducer may overwrite the file of the current program
  (`tools/reduce_case.py:609`); later trials of that pass then drop two calls, and
  what is published as minimized (`:696`) need not be minimal.
* The packaged initramfs is looked for without the lock and written in place
  (`targets/asterinas/initramfs.py:230`), so on first use a runner may boot a half-written
  one: `PackedOnceBootsOwnPackage` excepts the first use. It also excepts a
  checkout that moves on during the campaign: a runner then rebuilds the bundle in place
  while another one, already served, boots from it without a lock.
* A shared cargo home that a killed or failed copy left is taken for complete by
  all later builders (`targets/asterinas/cache_support.py:207`).
* An Asterinas guest that panics or dies after PROCESS_EXIT is reported with the status
  printed there, and with empty events and state where their sections are missing; a
  section that is not JSON raises, and no result is written, as does a failed
  synchronisation or build (BuildConfigError).
* StarryOS: the record of a preparation is written when the file is closed, after its
  lock was released (`targets/tgoskits_starryos/api.py:510-537`). A runner in between
  prepares again, under the copies of the others, and two records in one file make every
  later runner fail with a JSONDecodeError. `CopiesAreWhole` is said of a single
  preparation for this reason. An image that is cleaned away from the checkout while the
  record stays is not made again: all cases end with an infra_error. An image to which the
  guest of an earlier health check has written is copied as it is (`"used"`). An event that
  is not JSON raises, and no result is written.
* StarryOS: `docs/targets/tgoskits-starryos.md:172` speaks of a batch in a shared VM; the
  adapter offers `packaged_per_case` only, so that nothing calls `run_batch`.
* ArceOS: at a timeout only make is killed, and QEMU goes on
  (`targets/tgoskits_arceos/api.py:801`).
* A list of events that was cut at the end of a line counts as all there is
  (`orchestrator/vm_runner.py:121`): if the runner wrote no trace, the host's is built of it,
  as far as it goes. `EvidenceIsSound` says nothing of how far that is.
* A case whose last reference rerun is not `ok`, while all its hashes agree, is
  `baseline_invalid` (`analyzer/classify.py:15`), yet its bucket is of the comparison with the
  last `ok` run (`orchestrator/scheduler.py:452`): it may be `passed_scml_and_diverged`, from
  which `tools/reduce_case.py:76` picks. `BucketRestsOnEvidence` is said of `ok` runs of the
  reference for this reason.
* The preflight drops an "Unsupported" line whose system call cannot be parsed, before
  it is classified (`targets/asterinas/scml.py:211`), so that the branch of
  `classify_line` for it is dead. One task that raises ends a sweep, but only after the
  others have overwritten the evidence of the published lists.
* The result of a noise call takes a number like any other. A mmap that succeeds on one
  kernel only (`configs/workflows/tgoskits_starryos.json:157`) shifts the numbers of later
  addresses, and a later event diverges, although `analyzer/compare.py:12` says that
  its "differences in return_value and errno are ignored". `EquivalentUpToRenaming`
  leaves both verdicts open there.
* For traces of different length `first_divergence_index` is the length of the shorter one,
  and no event is looked at (`analyzer/compare.py:20`): pairs before it may differ, so that the
  name promises more there than the value says. `ReportedIndexIsJustified` says of each of
  the two kinds what holds of it.
* Outputs of pipe and socketpair keep the digest of the raw descriptors
  (`analyzer/normalize.py:81`), so that the tokens beside it cannot make other numbers
  equal; the result of wait4 stays a raw number.
* A case of a shared batch whose own output has no events gets a trace of whatever
  events the console shows, those of earlier cases included
  (`orchestrator/vm_runner.py:145`; no shipped configuration uses shared batches).

## 4. Theorems

The theorems hold for every value of the constants: traces of any length over any
sets of values, any number of reruns, any sets of statuses, behaviours and noises,
any number of threads and any limit.

* `Compare` assumes `ConstantsAssumption` (the traces are traces; `None` is not a
  number). The verdict is not inductive; the invariant adds `WalkSoFar` (all pairs
  before position `i` show the same behaviour, and the recorded index, if any, is
  that of the first pair that does not) and `Verdict` (what the result says once
  it is there). Proved: `TypeCorrect`, `ComparesPointwise`,
  `IndexJustified`, `MissingIndexMeansFinalState`, `NoiseOnlyIsDead`.
* `CaseTriage` assumes `TriageAssumption` (a natural number of reruns; `ok` is a
  status; `None` is neither a trace nor a comparison). The properties speak of what
  the kernels did, while the code only sees lists of statuses and hashes, so the
  invariant relates them: `LogsAgree` (the lists are images of the logs),
  `EvidenceAtHand` (the comparison is one of the last candidate trace with a
  reference trace whose hash is in the list), `RunsCounted` (runs made at each
  program point) and `Promises` (the three properties, once the row is written).
  The bucket of a row needs one thing more, which follows from these at the step that writes
  it (`EvidenceAtClassify`): with a stable baseline every `ok` run of the reference behaved
  like the one that was compared. Proved: `TypeCorrect`, `BaselineIsStable`,
  `VerdictIsEvidence`, `BugsAreRetested`, `BucketsRestOnEvidence`.
* `Normalize` assumes `RawAssumption` (the raw traces are traces) and `TracesAssumption` (the
  traces compared are their canonical forms). A number depends on all that came before it,
  across arguments, results and outputs of all events, so two arguments go along whole
  traces, each by the least counterexample (`UpTo`). One is of one side: `Names` says that a
  token stands for a value at its place in a context; contexts only grow (`Grows`), so all
  tokens of a trace stand for their values in its last context (`TraceIsNamed`), and equal
  tokens there are equal places (`NamedPairsRenamed`). The other is of both sides: `Matched`
  says that two contexts are equal up to a renaming; values that the renaming pairs were
  seen at one place or not at all (`SeenTogether`), so they get the same number and leave
  contexts that match (`ScalarMatched`, and the same of outputs and events). Proved:
  `VerdictIsUpToRenaming` and `RawVerdict`, from the invariant of `Compare` and the fact that
  the traces under comparison stay the canonical forms of the raw ones.
* `VmSlots` assumes `SlotsAssumption`. That runners are bounded says nothing of the
  semaphore; the invariant adds `SlotsConserved` (free slots and holders add up to
  the limit), `HoldersRun` and `RunnersAwaited` (a live runner belongs to the current
  run of a thread that waits for it or is about to kill it). Runners then map
  one-to-one to holders of slots. Proved in `RunCase_proofs`: `LimiterTypeCorrect`,
  `LimiterBoundsRunners`.
* `RunCase` assumes `NoneAssumption` (`None` is no file). The properties speak of the end of
  a run; the invariant adds, for every program point of the host, what it has already
  seen to: which files it has removed, that whatever is there since is the runner's and,
  if it was cut short, that the runner was killed; which files it has read, validated
  and written; and that the status it settled on goes with the way the runner ended.
  Proved: `TypeCorrect`, `ArtifactsAreFresh`, `EvidenceSound`, `OkEarned`.
* `StarryTarget` assumes `StarryAssumption`. `OwnInv` says what a runner's steps up to its
  program point have seen to, and with `SectionIsBetween`, a lemma on the places of
  markers in a text of any length, that events come from between them. `ImageInv`
  relates the image, its record, the number of preparations and all runners' program
  points: while nobody has prepared anything, whoever is past the lock has found the
  record; while one runner does, nobody is; only guests of VMs on the shared image write to
  it otherwise. Proved: `TypeCorrect`, `OkOfOwnRun`,
  `CopiesWhole`.
* `AsterinasRun`, with the shared bundle it extends, assumes `BundleAssumption`. Its
  properties speak of one runner's VM; what makes them hold is spread over the lock, the
  files and all other processes. The invariant has six parts: `LockInv` (there is no stamp
  while somebody holds the lock, and with a stamp no container that outlived its builder;
  runners start after the warm-up), `MinimalInv` (the warm-up's bundle is replaced before
  anybody is served), `PackedInv` (with a package that was there from the start, whatever
  is built is what its builder wants), `RevisionInv` (revisions only grow, and what was
  built for the revision that is still checked out was built from it), `HomeInv` (a home is
  partial only through somebody who is copying, failed or died) and `ConsoleInv` (which
  VM and console go with each phase and report). Proved: `TypeCorrect`,
  `BootsWhatWasPacked`, `LabelIsTheKernel`, `HomeWhole`, `VerdictOfTheConsole`.
* `ArceosReplay` assumes `ArceosAssumption` (no runner is called like the checkout). With
  hard links several private paths name one file, so that a runner's own steps say nothing
  of what its make finds. `OwnInv` says what a runner has built with unless it shares the
  file with an overlapping run; `RepoInv` says that nobody names a file that is not there or
  gets past the user's, and that without overlaps and kills the one runner that changed
  the checkout's file still knows what it was. Proved: `TypeCorrect`, `CheckoutIsKept`,
  `OkEarned`. Of the images that a run leaves, `TwelveBitsReadBack` and
  `TwentyEightBitsReadBack` show that `_fat_entry` reads back any entry of a table.

* `Campaign` assumes `CampaignAssumption` (a slice has at least two cases where slices are
  used; limits and numbers of jobs as the configuration allows). That slots
  are never overdrawn needs `SlotsConserved`: free slots and runs that hold one add up to the
  limit. It says nothing of VMs. What it says of rows joins
  entries, the places of pending cases that the offset cuts slices from, and rows. The parts
  of the invariant follow a row through them: `TasksOfPhase` (which tasks each phase has, and that
  nothing is left over from the phase before), `PreparedSoFar`, `OffsetAligned` (slices are
  taken whole), `ChunkRows` and `SingleRows` (the cases that have a row are those whose future
  was taken), `AnswersFit`, `RowsOwn` (a row is of the entry in whose place it is), `RowsSoFar`
  (of the prepared cases those before the offset have a row, and no others do),
  `FailuresWhole` (a batch that fails fails all of its slice, in every phase) and
  `NotYetReported`. Proved: `TypeCorrect`,
  `FailureContained`, and `CampaignImplementsResults`, the safety part of the
  refinement: the initial states map to initial states of `CampaignResults`, a step
  that finalizes a case to `Judge`, collecting the rows to `Publish` once every entry
  has its row, and every other step to a stutter.
* `ScmlGate` assumes `GateAssumption` (there is a worker; a line names the call it is of or
  cannot be read; no call has the empty name). A published list is made of what the tasks
  answered, while the evidence beside it is written by the tasks themselves, of this sweep or of a
  later one that was killed. `TasksOfSweep`, `OnlyWholeSweepsPublish`, `VerdictsAreBacked` (an
  answer fits the evidence its task left), `WrittenSoFar` (the three files are replaced one
  by one) and `PublishedIsWhole` carry it. Proved: `GateTypeCorrect`, `ListsAreWhole`,
  `EvidenceBacksLists`.
* `Reducer` assumes `ReducerAssumption` (a program is a sequence of calls). `Derivation` says
  that what is in the files is made from the source by dropping calls, `TrialIsShorter`
  that a trial being judged is shorter than the program it came from, even where
  its file is the file of the current program; `CurrentDiverges`, `EvidenceHolds` and
  `RecoveryBlocks` what each stage has seen confirmed; `ProvenanceKnown`, on top of these, that
  both halves of the evidence at hand are fresh or both recorded, as `confirmed` says. Proved: `OverlayReportsAreSound`,
  `ReductsDiverge`, `ReductsAreSubsequences` (nothing is added or reordered) and
  `AcceptedIsShorter`, the ranking that `Terminates` rests on.
* `BuildCache` assumes `BuildAssumption` and `NoneAssumption` (`None` is no file), and has one
  builder for a directory. The cache goes by times, so the invariant relates them: no two writes
  happen at the same time and none later than the clock, though a file may be older than its
  place (`TimesAreDistinct`), what each stage of
  `build_one` has read, made and not yet written (`StagesHaveInputs`, `MadeSoFar`),
  and what a record with `ok` vouches for: everything in the directory while no input was
  put in place since its build began (`RecordVouches`), and binaries of the same code while no
  later build was interrupted (`DirectoryIsConsistent`). Proved:
  `BuildTypeCorrect`, `KernelsGetOneProgram` and the action property `HitsAreFresh`.

Every theorem about a specification is proved in the same way: the initial states satisfy the
inductive invariant, every action preserves it, and it implies the property; TLC found each
inductive invariant to hold on the instance of the run before it was proved.

The contexts along a list in `Normalize` are a recursive function. A proof takes it as the
`CHOOSE` that it is, shows that such a function exists (`PassExists`) and goes along the list with
the set of places where a fact holds, so that it needs no induction principle with an operator as
a parameter.

What stays with TLC:

* Liveness under fairness, which the prover does not reach: `RunEnds`, `AllRunsEnd`, `CampaignEnds`,
  `Terminates`, `RunsEnd`, `RunnersEnd`, and in `Refines` the fairness of `CampaignResults`.
* Chains and trees of the reader of FAT images, evaluated in `arceos`, and the violation that
  `arceos_timeout` shows.

## 5. Plan

What would come next, in this order:

1. `BuildCache` composed with `Campaign`: building as a phase of a campaign, and the
   rewriting of the C code (`instrument_source`) as an operator.
2. The Asterinas run without a package: `ensure_docker_build` with its own stamps, and the
   repository copies (`build.py` 117-276).
3. The tools behind the gate: the manifest, the allowed sequences and the candidates made
   from them.
4. The qemu_linux target, in the manner of `AsterinasRun`.

## 6. Not modelled

Reports, host maintenance tools, the registry and the configuration are
sequential and keep no state that later steps depend on beyond a file they write
once. The corpus tools and the generators of the SCML manifest are transformations of
files. The guest tracers (C) print one event per call; a trace is an input here. The
summary files a campaign writes after its rows are final are left out. The text of
logs, prompts and command lines is left out everywhere.

Shared batches (`vm_runner.py` 674-868, `docker_qemu_batch_run`, the batch of
`run_asterinas_shared.py`, `run_batch` of StarryOS) are not modelled: no shipped adapter announces the mode, and the
scheduler refuses it then (`orchestrator/scheduler.py:798`), so that no configuration reaches
that code.

Of the Asterinas target, runs without a package and on the host, their build caches and
the choice of ports (one is chosen, released and used later,
`targets/asterinas/runtime_support.py:255`) are left out; of ArceOS, the health check and the text of the generated
application; of StarryOS, the two transports of the console, which differ in how bytes are
read only.
