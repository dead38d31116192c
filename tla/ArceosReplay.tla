---------------------------- MODULE ArceosReplay ----------------------------
(***************************************************************************)
(* Runners that replay cases on ArceOS (targets/tgoskits_arceos/api.py).   *)
(* Each copies the TGOSKits checkout into its sandbox, as hard links where *)
(* the file system allows it, puts a managed cargo configuration into the  *)
(* copy, builds and runs the program with make, and restores the           *)
(* configuration.  A file that is written in place through one of its      *)
(* links changes for all of them.                                          *)
(***************************************************************************)
EXTENDS Integers, FiniteSets

CONSTANTS
    Runners,
    MaxKills     \* bound: runners killed at the timeout of their run

ASSUME ArceosAssumption ==
    /\ Runners \cap {"repo"} = {}
    /\ MaxKills \in Nat

\* .cargo/config.toml: not there, the user's own, a managed one of earlier contents,
\* cut to nothing by a write that is under way, or managed with today's contents.
Contents == {"absent", "user", "old", "empty", "managed"}

\* The file of the checkout and those of the private copies.
Files == Runners \cup {"repo"}

\* Output that subprocess.run had captured when the time was over.
Captured == {"nothing", "one stream", "both streams"}

VARIABLES
    linked,      \* os.link works between checkout and sandboxes
    original,    \* the checkout's configuration before the runs
    file,        \* contents by file
    path,        \* path[r]: the file that r's private path names
    previous,    \* previous[r]: what r will restore
    built,       \* built[r]: configurations that make found
    late,        \* late[r]: a make of r was out of time
    error,       \* error[r]: the exception that is on its way
    result,      \* result[r]: status of the runner result
    outputs,     \* outputs[r]: of "state" and "trace", the files written
    overlap,     \* two runs have had their configurations in place at the same time
    kills,
    pc

vars == <<linked, original, file, path, previous, built, late, error, result, outputs, overlap,
          kills, pc>>

fixed == <<linked, original>>

Init ==
    /\ linked \in BOOLEAN
    /\ original \in {"absent", "user", "old"}
    /\ file = [f \in Files |-> IF f = "repo" THEN original ELSE "absent"]
    /\ path = [r \in Runners |-> r]
    /\ previous = [r \in Runners |-> "absent"]
    /\ built = [r \in Runners |-> {}]
    /\ late = [r \in Runners |-> FALSE]
    /\ error = [r \in Runners |-> "none"]
    /\ result \in [Runners -> {"none", "ok"}]      \* "ok": left by an earlier run
    /\ outputs = [r \in Runners |-> {}]
    /\ overlap = FALSE
    /\ kills = 0
    /\ pc = [r \in Runners |-> "start"]

Goto(r, label) == pc' = [pc EXCEPT ![r] = label]

Raise(r, exception, label) ==
    /\ error' = [error EXCEPT ![r] = exception]
    /\ Goto(r, label)

InfraError(r) == result' = [result EXCEPT ![r] = "infra_error"]

\* run_case between reading the configuration and having restored it.
Section == {"render", "write", "defconfig", "run", "restore", "restoring"}

Config(r) == file[path[r]]
PutConfig(r, c) == file' = [file EXCEPT ![path[r]] = c]

-----------------------------------------------------------------------------
\* main removes it first.
ResultAtStart(r) == "none"

\* prepare_target, the checks of the arguments and reject_unsupported_source.
Start(r) ==
    /\ pc[r] = "start"
    /\ result' = [result EXCEPT ![r] = ResultAtStart(r)]
    /\ \/ Goto(r, "copy") /\ UNCHANGED error
       \/ Raise(r, "RunnerError", "main")
    /\ UNCHANGED <<fixed, file, path, previous, built, late, outputs, overlap, kills>>

\* _copytree_with_links; copytree raises an OSError (shutil.Error is one) when a file
\* cannot be linked or copied, and main lets it pass.
CopyTree(r) ==
    /\ pc[r] = "copy"
    /\ \/ /\ IF linked /\ file["repo"] # "absent"
             THEN path' = [path EXCEPT ![r] = "repo"] /\ UNCHANGED file
             ELSE file' = [file EXCEPT ![r] = file["repo"]] /\ UNCHANGED path
          /\ Goto(r, "image") /\ UNCHANGED error
       \/ Raise(r, "OSError", "main") /\ UNCHANGED <<file, path>>
    /\ UNCHANGED <<fixed, previous, built, late, result, outputs, overlap, kills>>

\* materialize_app_tree, the probes and ensure_disk_image; the image is sampled.
MakeImage(r) ==
    /\ pc[r] = "image"
    /\ \/ Goto(r, "config") /\ UNCHANGED <<result, error>>
       \/ InfraError(r) /\ Raise(r, "RunnerError", "main")
    /\ UNCHANGED <<fixed, file, path, previous, built, late, outputs, overlap, kills>>

-----------------------------------------------------------------------------
(* write_managed_cargo_config, restore_managed_cargo_config                *)

\* Nothing, or a text that contains the marker.
MayReplace(c) == c \in {"absent", "old", "managed"}

ReadConfig(r) ==
    /\ pc[r] = "config"
    /\ IF MayReplace(Config(r))
       THEN /\ previous' = [previous EXCEPT ![r] = Config(r)]
            /\ overlap' = (overlap \/ \E q \in Runners : pc[q] \in Section)
            /\ Goto(r, "render") /\ UNCHANGED error
       ELSE Raise(r, "RunnerError", "main") /\ UNCHANGED <<previous, overlap>>
    /\ UNCHANGED <<fixed, file, path, built, late, result, outputs, kills>>

\* The text is rendered before the file is opened; opening it empties it.
RenderConfig(r) ==
    /\ pc[r] = "render"
    /\ \/ PutConfig(r, "empty") /\ Goto(r, "write") /\ UNCHANGED error
       \/ Raise(r, "RunnerError", "main") /\ UNCHANGED file
    /\ UNCHANGED <<fixed, path, previous, built, late, result, outputs, overlap, kills>>

WriteConfig(r) ==
    /\ pc[r] = "write"
    /\ PutConfig(r, "managed")
    /\ Goto(r, "defconfig")
    /\ UNCHANGED <<fixed, path, previous, built, late, error, result, outputs, overlap, kills>>

\* Mutant: a run that fails leaves its configuration in place.
RestoreAfterSuccess(r) == IF error[r] = "none" THEN previous[r] ELSE Config(r)

\* finally: previous, whatever happened.
Restored(r) == previous[r]

\* The file goes away if there was none before; otherwise it is opened...
BeginRestore(r) ==
    /\ pc[r] = "restore"
    /\ PutConfig(r, IF previous[r] = "absent" THEN Restored(r) ELSE "empty")
    /\ Goto(r, "restoring")
    /\ UNCHANGED <<fixed, path, previous, built, late, error, result, outputs, overlap, kills>>

\* ... and written.
EndRestore(r) ==
    /\ pc[r] = "restoring"
    /\ PutConfig(r, Restored(r))
    /\ Goto(r, IF error[r] = "none" THEN "outputs" ELSE "main")
    /\ UNCHANGED <<fixed, path, previous, built, late, error, result, outputs, overlap, kills>>

-----------------------------------------------------------------------------
(* make defconfig, make run                                                *)

SeesConfig(r) == built' = [built EXCEPT ![r] = @ \cup {Config(r)}]

\* A platform configuration that is missing, or a make that fails.
MakeFails(r) ==
    /\ pc[r] \in {"defconfig", "run"}
    /\ SeesConfig(r)
    /\ Raise(r, "RunnerError", "restore")
    /\ UNCHANGED <<fixed, file, path, previous, late, result, outputs, overlap, kills>>

MakeEnds(r) ==
    /\ pc[r] \in {"defconfig", "run"}
    /\ SeesConfig(r)
    /\ Goto(r, IF pc[r] = "defconfig" THEN "run" ELSE "restore")
    /\ UNCHANGED <<fixed, file, path, previous, late, error, result, outputs, overlap, kills>>

\* TimeoutExpired carries bytes, or None for a stream without output.  Their sum with ""
\* or with the text of defconfig is a TypeError; the sum of both streams of defconfig
\* is one only after the result was written.
TimesOut(r, captured) ==
    /\ pc[r] \in {"defconfig", "run"}
    /\ SeesConfig(r)
    /\ late' = [late EXCEPT ![r] = TRUE]
    /\ \/ /\ captured = "nothing"
          /\ InfraError(r) /\ Raise(r, "RunnerError", "restore")
       \/ /\ captured = "both streams" /\ pc[r] = "defconfig"
          /\ InfraError(r) /\ Raise(r, "TypeError", "restore")
       \/ /\ \/ captured = "one stream"
             \/ captured = "both streams" /\ pc[r] = "run"
          /\ Raise(r, "TypeError", "restore") /\ UNCHANGED result
    /\ UNCHANGED <<fixed, file, path, previous, outputs, overlap, kills>>

-----------------------------------------------------------------------------
\* Mutant: the result is ok whether or not there were events.
OkAnyway(events) == "ok"

Status(events) == IF events THEN "ok" ELSE "infra_error"

\* write_case_outputs; events is whether the console has framed events.  One that is not
\* JSON, and an exit whose argument is not a number, raise before anything is written.
WriteOutputs(r) ==
    /\ pc[r] = "outputs"
    /\ \/ /\ \E events \in BOOLEAN :
               /\ outputs' = [outputs EXCEPT ![r] = {"state"} \cup IF events THEN {"trace"} ELSE {}]
               /\ result' = [result EXCEPT ![r] = Status(events)]
          /\ Goto(r, "ended") /\ UNCHANGED error
       \/ Raise(r, "ValueError", "main") /\ UNCHANGED <<outputs, result>>
    /\ UNCHANGED <<fixed, file, path, previous, built, late, overlap, kills>>

\* main: a RunnerError is reported unless there is a report; other exceptions pass.
Main(r) ==
    /\ pc[r] = "main"
    /\ IF error[r] = "RunnerError" /\ result[r] = "none" THEN InfraError(r) ELSE UNCHANGED result
    /\ Goto(r, "ended")
    /\ UNCHANGED <<fixed, file, path, previous, built, late, error, outputs, overlap, kills>>

\* The host's timeout.
Kill(r) ==
    /\ pc[r] \notin {"start", "ended", "killed"}
    /\ kills < MaxKills
    /\ kills' = kills + 1
    /\ Goto(r, "killed")
    /\ UNCHANGED <<fixed, file, path, previous, built, late, error, result, outputs, overlap>>

Runner(r) ==
    \/ Start(r) \/ CopyTree(r) \/ MakeImage(r)
    \/ ReadConfig(r) \/ RenderConfig(r) \/ WriteConfig(r) \/ BeginRestore(r) \/ EndRestore(r)
    \/ MakeFails(r) \/ MakeEnds(r) \/ \E c \in Captured : TimesOut(r, c)
    \/ WriteOutputs(r) \/ Main(r)

Next == \E r \in Runners : Runner(r) \/ Kill(r)

Spec == Init /\ [][Next]_vars /\ \A r \in Runners : WF_vars(Runner(r))

-----------------------------------------------------------------------------
TypeOK ==
    /\ linked \in BOOLEAN /\ original \in {"absent", "user", "old"}
    /\ file \in [Files -> Contents]
    /\ path \in [Runners -> Files] /\ \A r \in Runners : path[r] \in {r, "repo"}
    /\ previous \in [Runners -> {"absent", "old", "managed"}]
    /\ built \in [Runners -> SUBSET Contents]
    /\ late \in [Runners -> BOOLEAN]
    /\ error \in [Runners -> {"none", "RunnerError", "TypeError", "OSError", "ValueError"}]
    /\ result \in [Runners -> {"none", "ok", "infra_error"}]
    /\ outputs \in [Runners -> SUBSET {"state", "trace"}]
    /\ overlap \in BOOLEAN
    /\ kills \in 0 .. MaxKills
    /\ pc \in [Runners -> {"start", "copy", "image", "config", "outputs", "main", "ended",
                           "killed"} \cup Section]

\* A configuration of the user is never written to, and without links, or with nothing
\* to link to, neither is any other of the checkout.  With links, a managed one is back
\* once no run is in its section, unless runs overlapped or were killed.
CheckoutKept ==
    \/ file["repo"] = original
    \/ /\ linked /\ original = "old"
       /\ \/ overlap \/ kills > 0
          \/ \E r \in Runners : pc[r] \in Section

\* A case is reported ok only with a trace and a state of its own, built from start to
\* end with the managed configuration; only a run that shares the file when runs have
\* overlapped may have had another one.
OkIsEarned ==
    \A r \in Runners : pc[r] = "ended" /\ result[r] = "ok" =>
        /\ outputs[r] = {"state", "trace"} /\ error[r] = "none"
        /\ \/ built[r] = {"managed"}
           \/ path[r] = "repo" /\ overlap

\* What tests/test_tgoskits_targets.py says of a make that is out of time: the runner
\* writes an infra_error.
TimeoutIsReported ==
    \A r \in Runners : pc[r] = "ended" /\ late[r] => result[r] = "infra_error"
=============================================================================
